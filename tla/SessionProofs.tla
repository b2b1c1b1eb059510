--------------------------- MODULE SessionProofs ---------------------------
(* Theorems about Session, for any plans, limits and retries, about the driver *)
(* and the Agenda it implements; about Publication, for any runs, names and    *)
(* jobs; and about Writer, for any records and failures.  The three share no   *)
(* name.                                                                       *)
EXTENDS Session, Publication, Writer, SequenceTheorems, FiniteSetTheorems, WellFoundedInduction, TLAPS

\* Induction on the natural numbers, for one predicate at a time: of the numbers
\* that lack it, one is the least.
LEMMA Least ==
  ASSUME NEW T, T \subseteq Nat, T # {}
  PROVE  \E m \in T : \A k \in T : m <= k
<1> DEFINE R == OpToRel(<, Nat)
<1>1. IsWellFoundedOn(R, Nat)
  BY NatLessThanWellFounded
<1>2. PICK m \in T : \A k \in T : <<k, m>> \notin R
  <2> HIDE DEF R
  <2> QED
    BY <1>1, WFMin
<1>3. \A k \in T : ~(k < m)
  BY <1>2 DEF OpToRel
<1>4. QED
  BY <1>3

-----------------------------------------------------------------------------
(* Sequences.                                                              *)

LEMMA ReverseProperties ==
  ASSUME NEW S, NEW s \in Seq(S)
  PROVE  /\ Reverse(s) \in Seq(S)
         /\ Len(Reverse(s)) = Len(s)
         /\ \A i \in 1 .. Len(s) : Reverse(s)[i] = s[Len(s) - i + 1]
<1>1. \A i \in 1 .. Len(s) : s[Len(s) - i + 1] \in S
  OBVIOUS
<1>2. QED
  BY <1>1 DEF Reverse

LEMMA ReverseTwice ==
  ASSUME NEW S, NEW s \in Seq(S)
  PROVE  Reverse(Reverse(s)) = s
<1> DEFINE r == Reverse(s)
<1>1. /\ r \in Seq(S) /\ Len(r) = Len(s)
      /\ \A i \in 1 .. Len(s) : r[i] = s[Len(s) - i + 1]
  BY ReverseProperties
<1> HIDE DEF r
<1>2. /\ Reverse(r) \in Seq(S) /\ Len(Reverse(r)) = Len(r)
      /\ \A i \in 1 .. Len(r) : Reverse(r)[i] = r[Len(r) - i + 1]
  BY <1>1, ReverseProperties
<1>3. \A i \in 1 .. Len(s) : Reverse(r)[i] = s[i]
  BY <1>1, <1>2
<1>4. Reverse(r) = s
  BY <1>1, <1>2, <1>3, SeqEqual
<1>5. QED
  BY <1>4 DEF r

LEMMA ReverseConcat ==
  ASSUME NEW S, NEW s \in Seq(S), NEW t \in Seq(S)
  PROVE  Reverse(s \o t) = Reverse(t) \o Reverse(s)
<1> DEFINE st == s \o t
           rs == Reverse(s)
           rt == Reverse(t)
<1>1. /\ st \in Seq(S) /\ Len(st) = Len(s) + Len(t)
      /\ \A i \in 1 .. Len(s) + Len(t) : st[i] = IF i <= Len(s) THEN s[i] ELSE t[i - Len(s)]
  BY ConcatProperties
<1>2. /\ rs \in Seq(S) /\ Len(rs) = Len(s)
      /\ \A i \in 1 .. Len(s) : rs[i] = s[Len(s) - i + 1]
  BY ReverseProperties
<1>3. /\ rt \in Seq(S) /\ Len(rt) = Len(t)
      /\ \A i \in 1 .. Len(t) : rt[i] = t[Len(t) - i + 1]
  BY ReverseProperties
<1> HIDE DEF st, rs, rt
<1>4. /\ Reverse(st) \in Seq(S) /\ Len(Reverse(st)) = Len(st)
      /\ \A i \in 1 .. Len(st) : Reverse(st)[i] = st[Len(st) - i + 1]
  BY <1>1, ReverseProperties
<1>5. /\ rt \o rs \in Seq(S) /\ Len(rt \o rs) = Len(rt) + Len(rs)
      /\ \A i \in 1 .. Len(rt) + Len(rs) :
            (rt \o rs)[i] = IF i <= Len(rt) THEN rt[i] ELSE rs[i - Len(rt)]
  <2>1. rt \in Seq(S) /\ rs \in Seq(S)
    BY <1>2, <1>3
  <2>2. QED
    BY <2>1, ConcatProperties
<1>6. ASSUME NEW i \in 1 .. Len(st)
      PROVE  Reverse(st)[i] = (rt \o rs)[i]
  <2> DEFINE k == Len(st) - i + 1
  <2>1. /\ Len(s) \in Nat /\ Len(t) \in Nat /\ i \in 1 .. Len(s) + Len(t)
        /\ k \in 1 .. Len(s) + Len(t) /\ k = Len(s) + Len(t) - i + 1
    BY <1>1
  <2>2. Reverse(st)[i] = st[k]
    BY <1>4
  <2>3. CASE i <= Len(t)
    <3>1. ~(k <= Len(s)) /\ k - Len(s) = Len(t) - i + 1
      BY <2>1, <2>3
    <3>2. st[k] = t[Len(t) - i + 1]
      BY <1>1, <2>1, <3>1
    <3>3. (rt \o rs)[i] = rt[i] /\ rt[i] = t[Len(t) - i + 1]
      BY <1>2, <1>3, <1>5, <2>1, <2>3
    <3>4. QED
      BY <2>2, <3>2, <3>3
  <2>4. CASE ~(i <= Len(t))
    <3>1. k <= Len(s) /\ k = Len(s) - (i - Len(t)) + 1 /\ i - Len(t) \in 1 .. Len(s)
      BY <2>1, <2>4
    <3>2. st[k] = s[k]
      BY <1>1, <2>1, <3>1
    <3>3. (rt \o rs)[i] = rs[i - Len(t)]
      BY <1>2, <1>3, <1>5, <2>1, <2>4
    <3>4. rs[i - Len(t)] = s[Len(s) - (i - Len(t)) + 1]
      BY <1>2, <3>1
    <3>5. QED
      BY <2>2, <3>1, <3>2, <3>3, <3>4
  <2>5. QED
    BY <2>3, <2>4
<1>7. Reverse(st) = rt \o rs
  <2>1. Len(Reverse(st)) = Len(rt \o rs)
    BY <1>1, <1>2, <1>3, <1>4, <1>5
  <2>2. QED
    BY <1>4, <1>5, <1>6, <2>1, SeqEqual
<1>8. QED
  BY <1>7 DEF st, rs, rt

LEMMA Elements ==
  ASSUME NEW S, NEW s \in Seq(S)
  PROVE  /\ ToSet(s) = {s[i] : i \in 1 .. Len(s)}
         /\ ToSet(s) \subseteq S
         /\ ToSet(Reverse(s)) = ToSet(s)
         /\ \A t \in Seq(S) : ToSet(s \o t) = ToSet(s) \cup ToSet(t)
         /\ \A e \in S : ToSet(Append(s, e)) = ToSet(s) \cup {e}
<1>1. ToSet(s) = {s[i] : i \in 1 .. Len(s)}
  BY DEF ToSet
<1>2. ToSet(s) \subseteq S
  BY <1>1
<1>3. ToSet(Reverse(s)) = ToSet(s)
  <2>1. /\ DOMAIN Reverse(s) = 1 .. Len(s)
        /\ \A i \in 1 .. Len(s) : Reverse(s)[i] = s[Len(s) - i + 1]
    BY ReverseProperties
  <2>2. \A i \in 1 .. Len(s) : Len(s) - i + 1 \in 1 .. Len(s) /\ Reverse(s)[Len(s) - i + 1] = s[i]
    BY <2>1
  <2>3. ToSet(Reverse(s)) = {Reverse(s)[i] : i \in 1 .. Len(s)}
    BY <2>1 DEF ToSet
  <2>4. ASSUME NEW i \in 1 .. Len(s)
        PROVE  s[i] \in ToSet(Reverse(s))
    BY <2>2, <2>3
  <2>5. ASSUME NEW i \in 1 .. Len(s)
        PROVE  Reverse(s)[i] \in ToSet(s)
    <3>1. Len(s) - i + 1 \in 1 .. Len(s) /\ Reverse(s)[i] = s[Len(s) - i + 1]
      BY <2>1, <2>2
    <3>2. QED
      BY <1>1, <3>1
  <2>6. QED
    BY <1>1, <2>3, <2>4, <2>5
<1>4. ASSUME NEW t \in Seq(S) PROVE ToSet(s \o t) = ToSet(s) \cup ToSet(t)
  <2>1. /\ DOMAIN (s \o t) = 1 .. Len(s) + Len(t) /\ DOMAIN t = 1 .. Len(t)
        /\ \A i \in 1 .. Len(s) : (s \o t)[i] = s[i]
        /\ \A i \in 1 .. Len(t) : (s \o t)[Len(s) + i] = t[i]
    OBVIOUS
  <2>2. \A i \in 1 .. Len(s) + Len(t) :
           i \in 1 .. Len(s) \/ (i - Len(s) \in 1 .. Len(t) /\ i = Len(s) + (i - Len(s)))
    OBVIOUS
  <2>3. ToSet(s \o t) \subseteq ToSet(s) \cup ToSet(t)
    BY <1>1, <2>1, <2>2 DEF ToSet
  <2>4. ToSet(s) \cup ToSet(t) \subseteq ToSet(s \o t)
    <3>1. \A i \in 1 .. Len(s) : i \in 1 .. Len(s) + Len(t)
      OBVIOUS
    <3>2. \A i \in 1 .. Len(t) : Len(s) + i \in 1 .. Len(s) + Len(t)
      OBVIOUS
    <3>3. QED
      BY <1>1, <2>1, <3>1, <3>2 DEF ToSet
  <2>5. QED
    BY <2>3, <2>4
<1>5. ASSUME NEW e \in S PROVE ToSet(Append(s, e)) = ToSet(s) \cup {e}
  <2>1. Append(s, e) = s \o <<e>> /\ <<e>> \in Seq(S) /\ ToSet(<<e>>) = {e}
    BY DEF ToSet
  <2>2. QED
    BY <1>4, <2>1
<1>6. QED
  BY <1>1, <1>2, <1>3, <1>4, <1>5

LEMMA PrefixProperties ==
  ASSUME NEW S, NEW s \in Seq(S), NEW t \in Seq(S)
  PROVE  /\ IsPrefix(s, s \o t)
         /\ \A n \in 0 .. Len(t) : /\ SubSeq(t, 1, n) \in Seq(S)
                                   /\ IsPrefix(s \o SubSeq(t, 1, n), s \o t)
<1>1. ASSUME NEW n \in 0 .. Len(t)
      PROVE  /\ SubSeq(t, 1, n) \in Seq(S)
             /\ IsPrefix(s \o SubSeq(t, 1, n), s \o t)
  <2> DEFINE p == SubSeq(t, 1, n)
             l == Len(s) + n
  <2>1. p \in Seq(S) /\ Len(p) = n /\ \A i \in 1 .. n : p[i] = t[i]
    OBVIOUS
  <2> HIDE DEF p
  <2>2. /\ s \o p \in Seq(S) /\ s \o t \in Seq(S)
        /\ Len(s \o p) = l /\ Len(s \o t) = Len(s) + Len(t) /\ l <= Len(s \o t)
        /\ l \in Nat
    BY <2>1
  <2>3. \A i \in 1 .. l : (s \o p)[i] = (s \o t)[i]
    BY <2>1
  <2>4. /\ SubSeq(s \o p, 1, l) \in Seq(S) /\ SubSeq(s \o t, 1, l) \in Seq(S)
        /\ Len(SubSeq(s \o p, 1, l)) = l /\ Len(SubSeq(s \o t, 1, l)) = l
        /\ \A i \in 1 .. l : SubSeq(s \o p, 1, l)[i] = SubSeq(s \o t, 1, l)[i]
    <3> HIDE DEF l
    <3>1. \A q \in Seq(S) : l <= Len(q) =>
             /\ SubSeq(q, 1, l) \in Seq(S) /\ Len(SubSeq(q, 1, l)) = l
             /\ \A i \in 1 .. l : SubSeq(q, 1, l)[i] = q[i]
      BY <2>2
    <3>2. QED
      BY <2>2, <2>3, <3>1
  <2>5. SubSeq(s \o p, 1, l) = SubSeq(s \o t, 1, l)
    <3> HIDE DEF l
    <3> QED
      BY <2>4, SeqEqual
  <2>6. QED
    BY <2>1, <2>2, <2>5 DEF IsPrefix, p
<1>2. IsPrefix(s, s \o t)
  <2>1. 0 \in 0 .. Len(t) /\ SubSeq(t, 1, 0) = <<>> /\ s \o <<>> = s
    BY ConcatEmptySeq, SubSeqEmpty
  <2>2. QED
    BY <1>1, <2>1
<1>3. QED
  BY <1>1, <1>2

-----------------------------------------------------------------------------
(* The driver.                                                             *)

\* The links retained of a page's are links of it, and when discoveries are
\* deduplicated, they are distinct and none was known.
LEMMA RetainProperties ==
  ASSUME NEW known \in [stack : Seq(Requests), current : Requests \cup {NoRequest},
                        seen : SUBSET Urls, dedupe : BOOLEAN],
         NEW links \in Seq(Urls)
  PROVE  /\ Retain(known, links) \in Seq(Urls)
         /\ Len(Retain(known, links)) <= Len(links)
         /\ known.dedupe => /\ IsInjective(Retain(known, links))
                            /\ ToSet(Retain(known, links)) \cap known.seen = {}
<1> DEFINE N == Len(links)
           Drop(k, i) == known.dedupe /\ links[i] \in known.seen \cup ToSet(k)
           Step(k, i) == IF Drop(k, i) THEN k ELSE Append(k, links[i])
           Defines(f, n) == f = [i \in 0 .. n |-> IF i = 0 THEN <<>> ELSE Step(f[i - 1], i)]
           Lacking == {n \in Nat : ~ \E f : Defines(f, n)}
<1>1. Lacking = {}
  <2> HIDE DEF Step
  <2> SUFFICES ASSUME Lacking # {} PROVE FALSE
    OBVIOUS
  <2>1. PICK m \in Lacking : \A k \in Lacking : m <= k
    <3> HIDE DEF Lacking
    <3>1. Lacking \subseteq Nat
      BY DEF Lacking
    <3>2. QED
      BY <3>1, Least
  <2>2. CASE m = 0
    <3>1. Defines([i \in 0 .. 0 |-> <<>>], 0)
      OBVIOUS
    <3>2. QED
      BY <2>1, <2>2, <3>1
  <2>3. CASE m # 0
    <3>1. m - 1 \in Nat /\ m - 1 \notin Lacking
      <4>1. m \in Nat
        BY <2>1
      <4>2. m - 1 \in Nat /\ ~(m <= m - 1)
        BY <2>3, <4>1
      <4> HIDE DEF Lacking
      <4>3. QED
        BY <2>1, <4>2
    <3>2. PICK f : Defines(f, m - 1)
      BY <3>1
    <3> DEFINE g == [i \in 0 .. m |-> IF i = m THEN Step(f[m - 1], m) ELSE f[i]]
    <3>3. \A i \in 0 .. m - 1 : f[i] = IF i = 0 THEN <<>> ELSE Step(f[i - 1], i)
      BY <3>1, <3>2
    <3>4. \A i \in 0 .. m - 1 : g[i] = f[i]
      BY <3>1
    <3>5. g[m] = Step(f[m - 1], m)
      BY <3>1
    <3>6. ASSUME NEW i \in 0 .. m
          PROVE  g[i] = IF i = 0 THEN <<>> ELSE Step(g[i - 1], i)
      <4> HIDE DEF g
      <4>1. CASE i = m
        BY <2>3, <3>1, <3>4, <3>5, <4>1
      <4>2. CASE i # m
        <5>1. i \in 0 .. m - 1 /\ (i # 0 => i - 1 \in 0 .. m - 1)
          BY <3>1, <4>2
        <5>2. QED
          BY <3>3, <3>4, <5>1
      <4>3. QED
        BY <4>1, <4>2
    <3>7. g = [i \in 0 .. m |-> IF i = 0 THEN <<>> ELSE Step(g[i - 1], i)]
      <4>1. g = [i \in 0 .. m |-> g[i]]
        OBVIOUS
      <4> HIDE DEF g
      <4>2. QED
        BY <3>6, <4>1
    <3>8. Defines(g, m)
      <4> HIDE DEF g
      <4> QED
        BY <3>7
    <3>9. QED
      BY <2>1, <3>8
  <2>4. QED
    BY <2>2, <2>3
<1>2. N \in Nat
  OBVIOUS
<1>3. \E f : Defines(f, N)
  BY <1>1, <1>2
<1>4. PICK kept : Defines(kept, N) /\ Retain(known, links) = kept[N]
  <2> DEFINE chosen == CHOOSE f : Defines(f, N)
  <2>1. Retain(known, links) = chosen[N]
    BY DEF Retain
  <2>2. Defines(chosen, N)
    BY <1>3
  <2>3. QED
    BY <2>1, <2>2
<1>5. /\ kept[0] = <<>>
      /\ \A i \in 1 .. N : kept[i] = Step(kept[i - 1], i)
  <2> HIDE DEF Step
  <2>1. \A i \in 0 .. N : kept[i] = IF i = 0 THEN <<>> ELSE Step(kept[i - 1], i)
    BY <1>4
  <2>2. QED
    BY <1>2, <2>1
<1> DEFINE Sound(k, i) == /\ k \in Seq(Urls) /\ Len(k) <= i
                          /\ known.dedupe => /\ IsInjective(k)
                                             /\ ToSet(k) \cap known.seen = {}
           Unsound == {i \in 0 .. N : ~Sound(kept[i], i)}
<1>6. Unsound = {}
  <2> SUFFICES ASSUME Unsound # {} PROVE FALSE
    OBVIOUS
  <2>1. PICK m \in Unsound : \A k \in Unsound : m <= k
    <3> HIDE DEF Unsound
    <3>1. Unsound \subseteq Nat
      BY <1>2 DEF Unsound
    <3>2. QED
      BY <3>1, Least
  <2>2. m # 0
    <3>1. Sound(<<>>, 0)
      BY EmptySeq DEF IsInjective, ToSet
    <3>2. Sound(kept[0], 0)
      <4> HIDE DEF Sound
      <4> QED
        BY <1>5, <3>1
    <3> HIDE DEF Sound
    <3>3. QED
      BY <2>1, <3>2
  <2>3. m - 1 \in 0 .. N /\ m \in 1 .. N /\ Sound(kept[m - 1], m - 1)
    <3> HIDE DEF Sound
    <3>1. m - 1 \in 0 .. N /\ m \in 1 .. N /\ m - 1 < m
      BY <1>2, <2>2
    <3>2. m - 1 \notin Unsound
      <4> HIDE DEF Unsound
      <4>1. m - 1 \in Int /\ m \in Int
        BY <1>2, <3>1
      <4>2. QED
        BY <2>1, <3>1, <4>1
    <3>3. QED
      BY <3>1, <3>2
  <2>4. links[m] \in Urls
    BY <2>3
  <2> DEFINE k == kept[m - 1]
  <2>5. k \in Seq(Urls) /\ Len(k) <= m - 1 /\ m \in Nat
    BY <1>2, <2>3
  <2>6. CASE Drop(k, m)
    BY <1>5, <2>3, <2>5, <2>6
  <2>7. CASE ~Drop(k, m)
    <3>1. kept[m] = Append(k, links[m])
      BY <1>5, <2>3, <2>7
    <3> HIDE DEF k
    <3>2. kept[m] \in Seq(Urls) /\ Len(kept[m]) <= m
      BY <2>4, <2>5, <3>1
    <3>3. ToSet(kept[m]) = ToSet(k) \cup {links[m]}
      BY <2>4, <2>5, <3>1, Elements
    <3>4. known.dedupe => ToSet(kept[m]) \cap known.seen = {} /\ links[m] \notin ToSet(k)
      BY <2>3, <2>7, <3>3 DEF k
    <3>5. ASSUME known.dedupe PROVE IsInjective(kept[m])
      <4>1. IsInjective(k) /\ links[m] \notin {k[i] : i \in 1 .. Len(k)}
        BY <2>3, <2>5, <3>4, <3>5, Elements DEF k
      <4>2. /\ DOMAIN kept[m] = 1 .. Len(k) + 1 /\ DOMAIN k = 1 .. Len(k)
            /\ \A i \in 1 .. Len(k) : kept[m][i] = k[i]
            /\ kept[m][Len(k) + 1] = links[m]
            /\ Len(k) \in Nat
        BY <2>4, <2>5, <3>1
      <4>3. QED
        BY <4>1, <4>2 DEF IsInjective
    <3>6. QED
      BY <3>2, <3>4, <3>5
  <2>8. QED
    BY <2>6, <2>7
<1>7. Sound(kept[N], N)
  BY <1>2, <1>6
<1>8. QED
  BY <1>4, <1>7

LEMMA UrlsOfProperties ==
  ASSUME NEW s \in Seq(Requests), NEW t \in Seq(Requests), NEW r \in Requests
  PROVE  /\ UrlsOf(s) \subseteq Urls
         /\ UrlsOf(<<>>) = {}
         /\ UrlsOf(<<r>>) = {r.url}
         /\ UrlsOf(Reverse(s)) = UrlsOf(s)
         /\ UrlsOf(s \o t) = UrlsOf(s) \cup UrlsOf(t)
         /\ UrlsOf(Append(s, r)) = UrlsOf(s) \cup {r.url}
<1>1. /\ ToSet(s) \subseteq Requests
      /\ ToSet(Reverse(s)) = ToSet(s)
      /\ ToSet(s \o t) = ToSet(s) \cup ToSet(t)
      /\ ToSet(Append(s, r)) = ToSet(s) \cup {r}
  BY Elements
<1>2. ToSet(<<>>) = {} /\ ToSet(<<r>>) = {r}
  BY DEF ToSet
<1>3. UrlsOf(s) \subseteq Urls
  BY <1>1 DEF UrlsOf, Requests
<1>4. QED
  BY <1>1, <1>2, <1>3 DEF UrlsOf

\* The requests for the links of a page.
Extras(urls) == [i \in 1 .. Len(urls) |-> Extra(urls[i])]

LEMMA ExtrasProperties ==
  ASSUME NEW urls \in Seq(Urls)
  PROVE  Extras(urls) \in Seq(Requests) /\ UrlsOf(Extras(urls)) = ToSet(urls)
<1>1. \A i \in 1 .. Len(urls) : Extra(urls[i]) \in Requests /\ Extra(urls[i]).url = urls[i]
  BY DEF Extra, Requests
<1>2. Extras(urls) \in Seq(Requests) /\ DOMAIN Extras(urls) = 1 .. Len(urls)
  BY <1>1 DEF Extras
<1>3. \A i \in 1 .. Len(urls) : Extras(urls)[i].url = urls[i]
  BY <1>1 DEF Extras
<1>4. DOMAIN urls = 1 .. Len(urls)
  OBVIOUS
<1>5. QED
  BY <1>2, <1>3, <1>4 DEF UrlsOf, ToSet

Crawls == [stack : Seq(Requests), current : Requests \cup {NoRequest},
           seen : SUBSET Urls, dedupe : BOOLEAN]

\* What the driver hands out is the top of its stack.
LEMMA NextProperties ==
  ASSUME NEW known \in Crawls, HasNext(known)
  PROVE  /\ NextRequest(known) \in Crawls
         /\ NextRequest(known).current = Last(known.stack)
         /\ NextRequest(known).current \in Requests
         /\ known.stack = Append(NextRequest(known).stack, NextRequest(known).current)
         /\ NextRequest(known).seen = known.seen
         /\ NextRequest(known).dedupe = known.dedupe
<1> DEFINE s == known.stack
<1>1. s \in Seq(Requests) /\ s # <<>> /\ Len(s) \in Nat /\ Len(s) # 0
  BY DEF Crawls, HasNext
<1> HIDE DEF s
<1>2. Front(s) \in Seq(Requests) /\ Last(s) \in Requests
  BY <1>1 DEF Front, Last
<1>3. s = Append(Front(s), Last(s))
  <2>1. /\ Len(Front(s)) = Len(s) - 1
        /\ \A i \in 1 .. Len(s) - 1 : Front(s)[i] = s[i]
    <3> DEFINE n == Len(s) - 1
    <3>1. n \in Int /\ n \in Nat /\ \A i \in 1 .. n : s[i] \in Requests
      BY <1>1
    <3>2. Front(s) = SubSeq(s, 1, n)
      BY DEF Front
    <3> HIDE DEF n
    <3>3. Len(SubSeq(s, 1, n)) = n /\ \A i \in 1 .. n : SubSeq(s, 1, n)[i] = s[i]
      BY <3>1
    <3>4. QED
      BY <3>2, <3>3 DEF n
  <2>2. /\ Append(Front(s), Last(s)) \in Seq(Requests)
        /\ Len(Append(Front(s), Last(s))) = Len(s)
        /\ \A i \in 1 .. Len(s) : Append(Front(s), Last(s))[i] = s[i]
    BY <1>1, <1>2, <2>1 DEF Last
  <2>3. QED
    BY <1>1, <2>2, SeqEqual
<1>4. NextRequest(known) = [known EXCEPT !.stack = Front(s), !.current = Last(s)]
  BY DEF NextRequest, s
<1>5. QED
  BY <1>2, <1>3, <1>4 DEF Crawls, s

\* A request's page is dealt with: the links of it that are kept go on the stack.
Inspects(known, after) ==
    /\ after \in Crawls
    /\ after.current = NoRequest
    /\ after.dedupe = known.dedupe
    /\ \E kept \in Seq(Urls) :
          /\ Len(kept) <= MaxLinks
          /\ known.dedupe => IsInjective(kept) /\ ToSet(kept) \cap known.seen = {}
          /\ after.stack = known.stack \o Reverse(Extras(kept))
          /\ after.seen = known.seen \cup ToSet(kept)

LEMMA InspectedProperties ==
  ASSUME NEW known \in Crawls, NEW links \in BoundedSeq(Urls, MaxLinks), NEW error \in BOOLEAN
  PROVE  Inspects(known, Inspected(known, links, error))
<1>1. links \in Seq(Urls) /\ Len(links) <= MaxLinks
  BY SessionAssumption DEF BoundedSeq, SeqOf
<1>2. CASE error
  <2>1. Inspected(known, links, error) = [known EXCEPT !.current = NoRequest]
    BY <1>2 DEF Inspected
  <2>2. <<>> \in Seq(Urls) /\ Len(<<>>) = 0 /\ IsInjective(<<>>) /\ ToSet(<<>>) = {}
    BY EmptySeq DEF IsInjective, ToSet
  <2>3. Extras(<<>>) = <<>> /\ Reverse(<<>>) = <<>>
    BY DEF Extras, Reverse
  <2>4. known.stack \o <<>> = known.stack
    BY ConcatEmptySeq DEF Crawls
  <2>5. 0 <= MaxLinks
    BY SessionAssumption
  <2>6. QED
    BY <2>1, <2>2, <2>3, <2>4, <2>5 DEF Crawls, Inspects
<1>3. CASE ~error
  <2> DEFINE kept == Retain(known, links)
  <2>1. /\ kept \in Seq(Urls) /\ Len(kept) <= Len(links)
        /\ known.dedupe => IsInjective(kept) /\ ToSet(kept) \cap known.seen = {}
    BY <1>1, RetainProperties DEF Crawls
  <2>2. Inspected(known, links, error) =
          [known EXCEPT !.stack = known.stack \o Reverse(Extras(kept)),
                        !.current = NoRequest, !.seen = known.seen \cup ToSet(kept)]
    BY <1>3 DEF Inspected, Extras
  <2> HIDE DEF kept
  <2>3. Len(kept) <= MaxLinks
    BY <1>1, <2>1, SessionAssumption
  <2>4. known.stack \o Reverse(Extras(kept)) \in Seq(Requests) /\ ToSet(kept) \subseteq Urls
    <3>1. Extras(kept) \in Seq(Requests)
      BY <2>1, ExtrasProperties
    <3>2. Reverse(Extras(kept)) \in Seq(Requests)
      BY <3>1, ReverseProperties
    <3>3. ToSet(kept) \subseteq Urls
      BY <2>1, Elements
    <3>4. QED
      BY <3>2, <3>3 DEF Crawls
  <2>5. QED
    BY <2>1, <2>2, <2>3, <2>4 DEF Crawls, Inspects
<1>4. QED
  BY <1>2, <1>3

-----------------------------------------------------------------------------
(* The session's inductive invariant.                                      *)

LEMMA InitIInv == SessionInit => SessionInv
<1> SUFFICES ASSUME SessionInit PROVE SessionInv
  OBVIOUS
<1>1. plan \in Plans /\ crawl = NewCrawl(plan.seeds, plan.dedupe)
  BY DEF SessionInit
<1> DEFINE seeds == plan.seeds
<1>2. seeds \in Seq(Requests) /\ plan.dedupe \in BOOLEAN
  BY <1>1, SessionAssumption
<1> HIDE DEF seeds
<1>3. crawl = [stack |-> Reverse(seeds), current |-> NoRequest, seen |-> UrlsOf(seeds),
               dedupe |-> plan.dedupe]
  BY <1>1 DEF NewCrawl, seeds
<1>4. Reverse(seeds) \in Seq(Requests)
  BY <1>2, ReverseProperties
<1>5. UrlsOf(seeds) \subseteq Urls /\ UrlsOf(Reverse(seeds)) = UrlsOf(seeds)
  <2>1. ToSet(Reverse(seeds)) = ToSet(seeds) /\ ToSet(seeds) \subseteq Requests
    BY <1>2, Elements
  <2>2. QED
    BY <2>1 DEF UrlsOf, Requests
<1>6. SessionTypeOK
  <2>1. <<>> \in Seq(Requests) /\ <<>> \in Seq(ExchangeIds) /\ <<>> \in Seq(Verdicts)
    BY EmptySeq
  <2>2. fetched \in [exchanges : Seq(ExchangeIds), verdict : Verdicts]
    BY <2>1 DEF SessionInit, NoFetch, Verdicts
  <2>3. crawl \in [stack : Seq(Requests), current : Requests \cup {NoRequest},
                   seen : SUBSET Urls, dedupe : BOOLEAN]
    BY <1>2, <1>3, <1>4, <1>5
  <2>4. QED
    BY <1>1, <2>1, <2>2, <2>3 DEF SessionInit, SessionTypeOK, Phases
<1>7. Accounted
  BY <1>3 DEF SessionInit, Accounted, Requesting, NothingForgotten, ResumePoint, LostToFailure
<1>8. ArchiveBehind
  BY ConcatEmptySeq DEF SessionInit, ArchiveBehind, Unrecorded
<1>9. AttemptsAllowedSoFar
  BY DEF SessionInit, AttemptsAllowedSoFar, RetriesBounded
<1>10. Counted
  <2>1. Captures = {}
    BY DEF SessionInit, Captures
  <2>2. Cardinality(Captures) = 0
    BY <2>1, FS_EmptySet
  <2>3. CaptureLimit # NoLimit => CaptureLimit \in Nat
    BY <1>1, SessionAssumption DEF CaptureLimit
  <2>4. QED
    BY <2>2, <2>3 DEF SessionInit, Counted, Requesting
<1>11. Completed
  <2>1. UrlsOf(asked) = {}
    BY DEF SessionInit, UrlsOf, ToSet
  <2>2. QED
    BY <1>3, <1>5, <2>1 DEF SessionInit, Completed, Requesting
<1>12. QED
  BY <1>6, <1>7, <1>8, <1>9, <1>10, <1>11 DEF SessionInv

\* Some of a sequence of exchanges, from its start, are recorded.
LEMMA RecordedPart ==
  ASSUME NEW s \in Seq(ExchangeIds), NEW t \in Seq(ExchangeIds), NEW n \in 0 .. Len(t)
  PROVE  s \o t \in Seq(ExchangeIds) /\ s \o SubSeq(t, 1, n) \in Seq(ExchangeIds)
BY PrefixProperties

\* A session keeps to its plan.
LEMMA PlanKept == ASSUME [SessionNext]_sessionVars PROVE plan' = plan /\ CaptureLimit' = CaptureLimit
BY DEF SessionNext, Run, SessionTerminated, sessionVars, CaptureLimit

LEMMA LimitType == ASSUME SessionTypeOK PROVE CaptureLimit # NoLimit => CaptureLimit \in Nat
BY SessionAssumption DEF SessionTypeOK, CaptureLimit

LEMMA NextType == ASSUME SessionTypeOK, [SessionNext]_sessionVars PROVE SessionTypeOK'
<1> USE PlanKept
<1>1. CASE StopAtLimit
  BY <1>1 DEF StopAtLimit, EndCrawl, requestVars, SessionTypeOK, Phases
<1>2. CASE Exhausted
  <2>1. crawl' = [crawl EXCEPT !.current = NoRequest]
    BY <1>2 DEF Exhausted, NextRequest
  <2>2. QED
    BY <1>2, <2>1 DEF Exhausted, EndCrawl, requestVars, SessionTypeOK, Phases
<1>3. CASE Ask
  <2>1. crawl' \in Crawls /\ crawl'.current \in Requests
    BY <1>3, NextProperties DEF Ask, Crawls, SessionTypeOK
  <2>2. asked' \in Seq(Requests)
    BY <1>3, <2>1 DEF Ask, SessionTypeOK
  <2>3. CASE EndCrawl("cancelled") /\ UNCHANGED <<attempt, requestVars>>
    BY <1>3, <2>1, <2>2, <2>3 DEF Ask, Crawls, EndCrawl, requestVars, SessionTypeOK, Phases
  <2>4. CASE ~(EndCrawl("cancelled") /\ UNCHANGED <<attempt, requestVars>>)
    <3>1. <<>> \in Seq(ExchangeIds)
      BY EmptySeq
    <3>2. NoFetch \in [exchanges : Seq(ExchangeIds), verdict : Verdicts]
      BY <3>1 DEF NoFetch, Verdicts
    <3>3. /\ phase' = "fetching" /\ attempt' = 1 /\ earlier' = <<>> /\ fetched' = NoFetch
          /\ cancelWrite' = FALSE /\ stopWrite' = FALSE
          /\ UNCHANGED <<outcome, captureCount, made, archived, acked, returned>>
      BY <1>3, <2>4 DEF Ask
    <3>4. QED
      BY <2>1, <2>2, <3>1, <3>2, <3>3 DEF Crawls, SessionTypeOK, Phases
  <2>5. QED
    BY <2>3, <2>4
<1>4. CASE Fetch
  <2>1. PICK kind \in {"sound", "status", "cut", "transient", "fatal"}, hops \in 0 .. MaxHops :
          FetchComesTo(kind, hops)
    BY <1>4 DEF Fetch
  <2> DEFINE new == Exchange(Len(asked), hops, attempt)
  <2>2. new \in Seq(ExchangeIds)
    <3>1. <<Len(asked), attempt>> \in ExchangeIds /\ hops \in Nat
      BY SessionAssumption DEF SessionTypeOK, ExchangeIds
    <3>2. QED
      BY <3>1 DEF Exchange
  <2> HIDE DEF new
  <2>3. made \o new \in Seq(ExchangeIds) /\ earlier \o new \in Seq(ExchangeIds)
    BY <2>2 DEF SessionTypeOK
  <2>4. /\ made' = made \o new
        /\ \/ earlier' = earlier \o new /\ phase' = "backoff" /\ UNCHANGED fetched
           \/ /\ \E verdict \in Verdicts :
                    fetched' = [exchanges |-> earlier \o new, verdict |-> verdict]
              /\ phase' = "fetched" /\ UNCHANGED earlier
    BY <2>1 DEF FetchComesTo, new, Verdicts
  <2>5. made' \in Seq(ExchangeIds) /\ earlier' \in Seq(ExchangeIds)
    BY <2>3, <2>4 DEF SessionTypeOK
  <2>6. fetched' \in [exchanges : Seq(ExchangeIds), verdict : Verdicts]
    <3>1. CASE UNCHANGED fetched
      BY <3>1 DEF SessionTypeOK
    <3>2. CASE \E verdict \in Verdicts :
                  fetched' = [exchanges |-> earlier \o new, verdict |-> verdict]
      BY <2>3, <3>2
    <3>3. QED
      BY <2>4, <3>1, <3>2
  <2>7. phase' \in Phases
    BY <2>4 DEF Phases
  <2>8. QED
    BY <1>4, <2>5, <2>6, <2>7 DEF Fetch, SessionTypeOK
<1>5. CASE Backoff
  BY <1>5 DEF Backoff, requestVars, SessionTypeOK, Phases
<1>6. CASE RecordAbandoned
  <2>1. archived' \in Seq(ExchangeIds)
    <3>1. archived \in Seq(ExchangeIds) /\ earlier \in Seq(ExchangeIds)
      BY DEF SessionTypeOK
    <3>2. \/ archived' = archived \o earlier
          \/ \E n \in 0 .. Len(earlier) : archived' = archived \o SubSeq(earlier, 1, n)
      BY <1>6 DEF RecordAbandoned
    <3>3. \A n \in 0 .. Len(earlier) : archived \o SubSeq(earlier, 1, n) \in Seq(ExchangeIds)
      BY <3>1, RecordedPart
    <3>4. archived \o earlier \in Seq(ExchangeIds)
      BY <3>1
    <3>5. QED
      BY <3>2, <3>3, <3>4
  <2>2. QED
    BY <1>6, <2>1 DEF RecordAbandoned, EndCrawl, requestVars, SessionTypeOK, Phases
<1>7. CASE Inspect
  <2>1. PICK links \in BoundedSeq(Urls, MaxLinks), error \in BOOLEAN :
          InspectComesTo(links, error)
    BY <1>7 DEF Inspect
  <2>2. crawl' \in Crawls
    <3>1. crawl \in Crawls /\ crawl' = Inspected(crawl, links, error)
      BY <2>1 DEF InspectComesTo, Crawls, SessionTypeOK
    <3>2. Inspects(crawl, crawl')
      BY <3>1, InspectedProperties
    <3>3. QED
      BY <3>2 DEF Inspects
  <2>3. stopWrite' \in BOOLEAN /\ captureCount' \in Nat
    BY <2>1 DEF InspectComesTo, SessionTypeOK
  <2>4. fetched' \in [exchanges : Seq(ExchangeIds), verdict : Verdicts]
    BY <2>1 DEF InspectComesTo, SessionTypeOK, Verdicts
  <2>5. QED
    BY <1>7, <2>2, <2>3, <2>4 DEF Inspect, Crawls, SessionTypeOK, Phases
<1>8. CASE ReportFailure
  BY <1>8 DEF ReportFailure, Failed, SessionTypeOK, Phases
<1>9. CASE RecordOutcome
  <2> DEFINE new == fetched.exchanges
  <2>1. archived' \in Seq(ExchangeIds)
    <3>1. archived \in Seq(ExchangeIds) /\ new \in Seq(ExchangeIds)
      BY DEF SessionTypeOK
    <3>2. \/ archived' = archived \o new
          \/ \E n \in 0 .. Len(new) : archived' = archived \o SubSeq(new, 1, n)
      BY <1>9 DEF RecordOutcome
    <3> HIDE DEF new
    <3>3. \A n \in 0 .. Len(new) : archived \o SubSeq(new, 1, n) \in Seq(ExchangeIds)
      BY <3>1, RecordedPart
    <3>4. archived \o new \in Seq(ExchangeIds)
      BY <3>1
    <3>5. QED
      BY <3>2, <3>3, <3>4
  <2>2. acked' \in Seq(Verdicts)
    <3>1. fetched.verdict \in Verdicts /\ acked \in Seq(Verdicts)
      BY DEF SessionTypeOK
    <3>2. acked' = acked \/ acked' = Append(acked, fetched.verdict)
      BY <1>9 DEF RecordOutcome
    <3>3. QED
      BY <3>1, <3>2
  <2>3. QED
    BY <1>9, <2>1, <2>2 DEF RecordOutcome, EndCrawl, requestVars, SessionTypeOK, Phases
<1>10. CASE OutcomeWritten
  BY <1>10 DEF OutcomeWritten, EndCrawl, requestVars, SessionTypeOK, Phases
<1>11. CASE FinishSession
  BY <1>11 DEF FinishSession, requestVars, SessionTypeOK, Phases
<1>12. CASE UNCHANGED sessionVars
  BY <1>12 DEF sessionVars, SessionTypeOK, Phases
<1>13. QED
  BY <1>1, <1>2, <1>3, <1>4, <1>5, <1>6, <1>7, <1>8, <1>9, <1>10, <1>11, <1>12
     DEF SessionNext, Run, SessionTerminated

LEMMA NextAccounted == ASSUME SessionTypeOK, Accounted, [SessionNext]_sessionVars PROVE Accounted'
<1> USE DEF Accounted, Requesting, NothingForgotten, ResumePoint, LostToFailure
<1>1. CASE StopAtLimit
  BY <1>1 DEF StopAtLimit, EndCrawl, requestVars
<1>2. CASE Exhausted
  BY <1>2 DEF Exhausted, NextRequest, EndCrawl, requestVars, SessionTypeOK
<1>3. CASE Ask
  <2>1. crawl'.current \in Requests /\ crawl'.current # NoRequest
    BY <1>3, NextProperties, SessionAssumption DEF Ask, Crawls, SessionTypeOK
  <2>2. Len(asked') = Len(asked) + 1 /\ Last(asked') = crawl'.current
    BY <1>3, <2>1 DEF Ask, SessionTypeOK, Last
  <2>3. Request' = crawl'.current /\ acked' = acked /\ Len(asked) = Len(acked)
    BY <1>3, <2>2 DEF Ask, Request
  <2>4. CASE EndCrawl("cancelled") /\ UNCHANGED <<attempt, requestVars>>
    BY <1>3, <2>1, <2>2, <2>3, <2>4 DEF Ask, EndCrawl, SessionTypeOK
  <2>5. CASE ~(EndCrawl("cancelled") /\ UNCHANGED <<attempt, requestVars>>)
    BY <1>3, <2>1, <2>2, <2>3, <2>5 DEF Ask, SessionTypeOK
  <2>6. QED
    BY <2>4, <2>5
<1>4. CASE Fetch
  BY <1>4 DEF Fetch, FetchComesTo, Request
<1>5. CASE Backoff
  BY <1>5 DEF Backoff, requestVars, Request
<1>6. CASE RecordAbandoned
  <2>1. crawl.current = Request /\ Request \in Requests
    BY <1>6 DEF RecordAbandoned, Request, Last, SessionTypeOK
  <2>2. crawl.current # NoRequest
    BY <2>1, SessionAssumption
  <2>3. crawl' = crawl /\ asked' = asked /\ acked' = acked /\ phase' = "finishing"
        /\ outcome' \in {"cancelled", "fatal"} /\ phase = "abandoning"
    BY <1>6 DEF RecordAbandoned, EndCrawl
  <2>4. QED
    BY <2>2, <2>3 DEF SessionTypeOK
<1>7. CASE Inspect
  <2>1. crawl'.current = NoRequest
    <3>1. PICK links \in BoundedSeq(Urls, MaxLinks), error \in BOOLEAN :
            crawl' = Inspected(crawl, links, error)
      BY <1>7 DEF Inspect, InspectComesTo
    <3>2. crawl \in Crawls
      BY DEF SessionTypeOK, Crawls
    <3>3. Inspects(crawl, crawl')
      BY <3>1, <3>2, InspectedProperties
    <3>4. QED
      BY <3>3 DEF Inspects
  <2>2. QED
    BY <1>7, <2>1 DEF Inspect, SessionTypeOK
<1>8. CASE ReportFailure
  BY <1>8 DEF ReportFailure, Failed, SessionTypeOK
<1>9. CASE RecordOutcome
  BY <1>9 DEF RecordOutcome, EndCrawl, requestVars, SessionTypeOK
<1>10. CASE OutcomeWritten
  BY <1>10 DEF OutcomeWritten, EndCrawl, requestVars, SessionTypeOK
<1>11. CASE FinishSession
  BY <1>11 DEF FinishSession, requestVars, Request
<1>12. CASE UNCHANGED sessionVars
  BY <1>12 DEF sessionVars, Request
<1>13. QED
  BY <1>1, <1>2, <1>3, <1>4, <1>5, <1>6, <1>7, <1>8, <1>9, <1>10, <1>11, <1>12
     DEF SessionNext, Run, SessionTerminated

\* A step that records nothing, makes no exchange and ends nothing by a failure.
LEMMA ArchiveKept ==
  ASSUME ArchiveBehind, UNCHANGED <<made, archived, Unrecorded>>,
         outcome' = "fatal" <=> outcome = "fatal"
  PROVE  ArchiveBehind'
BY DEF ArchiveBehind

LEMMA NextArchive == ASSUME SessionTypeOK, Accounted, ArchiveBehind, [SessionNext]_sessionVars PROVE ArchiveBehind'
<1>1. CASE StopAtLimit
  BY <1>1, ArchiveKept DEF StopAtLimit, EndCrawl, requestVars, Unrecorded, Accounted
<1>2. CASE Exhausted
  BY <1>2, ArchiveKept DEF Exhausted, EndCrawl, requestVars, Unrecorded, Accounted
<1>3. CASE Ask
  <2>1. /\ made' = made /\ archived' = archived /\ Unrecorded = <<>>
        /\ outcome # "fatal" /\ outcome' # "fatal"
    BY <1>3 DEF Ask, EndCrawl, Unrecorded, Accounted
  <2>2. Unrecorded' = <<>>
    <3>1. \/ phase' = "finishing"
          \/ phase' = "fetching" /\ earlier' = <<>>
      BY <1>3 DEF Ask, EndCrawl
    <3>2. QED
      BY <3>1 DEF Unrecorded
  <2>3. QED
    BY <2>1, <2>2, ArchiveKept
<1>4. CASE Fetch
  <2>1. PICK kind \in {"sound", "status", "cut", "transient", "fatal"}, hops \in 0 .. MaxHops :
          FetchComesTo(kind, hops)
    BY <1>4 DEF Fetch
  <2> DEFINE new == Exchange(Len(asked), hops, attempt)
  <2>2. new \in Seq(ExchangeIds)
    <3>1. <<Len(asked), attempt>> \in ExchangeIds /\ hops \in Nat
      BY SessionAssumption DEF SessionTypeOK, ExchangeIds
    <3>2. QED
      BY <3>1 DEF Exchange
  <2>3. /\ made' = made \o new
        /\ \/ earlier' = earlier \o new /\ phase' = "backoff"
           \/ fetched'.exchanges = earlier \o new /\ phase' = "fetched"
    BY <2>1 DEF FetchComesTo
  <2> HIDE DEF new
  <2>4. /\ outcome # "fatal" /\ outcome' # "fatal" /\ archived' = archived
        /\ made = archived \o earlier
    BY <1>4 DEF Fetch, Accounted, ArchiveBehind, Unrecorded
  <2>5. Unrecorded' = earlier \o new
    BY <2>3 DEF Unrecorded
  <2>6. (archived \o earlier) \o new = archived \o (earlier \o new)
    <3>1. archived \in Seq(ExchangeIds) /\ earlier \in Seq(ExchangeIds)
      BY DEF SessionTypeOK
    <3>2. QED
      BY <2>2, <3>1, ConcatAssociative
  <2>7. QED
    BY <2>3, <2>4, <2>5, <2>6 DEF ArchiveBehind
<1>5. CASE Backoff
  BY <1>5, ArchiveKept DEF Backoff, requestVars, Unrecorded, Accounted
<1>6. CASE RecordAbandoned
  <2>1. /\ made' = made /\ made = archived \o earlier /\ Unrecorded' = <<>>
        /\ archived \in Seq(ExchangeIds) /\ earlier \in Seq(ExchangeIds)
    BY <1>6 DEF RecordAbandoned, EndCrawl, Accounted, ArchiveBehind, Unrecorded, SessionTypeOK
  <2>2. \/ archived' = archived \o earlier /\ outcome' = "cancelled"
        \/ /\ \E n \in 0 .. Len(earlier) : archived' = archived \o SubSeq(earlier, 1, n)
           /\ outcome' = "fatal"
    BY <1>6 DEF RecordAbandoned, EndCrawl
  <2>3. (archived \o earlier) \o <<>> = archived \o earlier
    <3>1. archived \o earlier \in Seq(ExchangeIds)
      BY <2>1
    <3>2. QED
      BY <3>1, ConcatEmptySeq
  <2>4. \A n \in 0 .. Len(earlier) :
           IsPrefix(archived \o SubSeq(earlier, 1, n), archived \o earlier)
    BY <2>1, PrefixProperties
  <2>5. QED
    BY <2>1, <2>2, <2>3, <2>4 DEF ArchiveBehind
<1>7. CASE Inspect
  <2>1. fetched'.exchanges = fetched.exchanges
    BY <1>7 DEF Inspect, InspectComesTo, SessionTypeOK
  <2>2. QED
    BY <1>7, <2>1, ArchiveKept DEF Inspect, Unrecorded
<1>8. CASE ReportFailure
  BY <1>8, ArchiveKept DEF ReportFailure, Unrecorded
<1>9. CASE RecordOutcome
  <2> DEFINE new == fetched.exchanges
  <2>1. /\ made' = made /\ made = archived \o new /\ Unrecorded' = <<>>
        /\ archived \in Seq(ExchangeIds) /\ new \in Seq(ExchangeIds)
        /\ outcome = "none"
    BY <1>9 DEF RecordOutcome, EndCrawl, Accounted, ArchiveBehind, Unrecorded, SessionTypeOK
  <2>2. \/ archived' = archived \o new /\ outcome' = outcome
        \/ /\ \E n \in 0 .. Len(new) : archived' = archived \o SubSeq(new, 1, n)
           /\ outcome' = "fatal"
    BY <1>9 DEF RecordOutcome, EndCrawl
  <2> HIDE DEF new
  <2>3. (archived \o new) \o <<>> = archived \o new
    BY <2>1, ConcatEmptySeq, ConcatProperties
  <2>4. \A n \in 0 .. Len(new) : IsPrefix(archived \o SubSeq(new, 1, n), archived \o new)
    BY <2>1, PrefixProperties
  <2>5. QED
    BY <2>1, <2>2, <2>3, <2>4 DEF ArchiveBehind
<1>10. CASE OutcomeWritten
  BY <1>10, ArchiveKept DEF OutcomeWritten, EndCrawl, requestVars, Unrecorded, Accounted
<1>11. CASE FinishSession
  BY <1>11, ArchiveKept DEF FinishSession, requestVars, Unrecorded
<1>12. CASE UNCHANGED sessionVars
  BY <1>12, ArchiveKept DEF sessionVars, Unrecorded
<1>13. QED
  BY <1>1, <1>2, <1>3, <1>4, <1>5, <1>6, <1>7, <1>8, <1>9, <1>10, <1>11, <1>12
     DEF SessionNext, Run, SessionTerminated

\* A request may be attempted, more than once only if it is idempotent, and no
\* more often than configured.
LEMMA AttemptsAllowedProperties ==
  ASSUME SessionTypeOK
  PROVE  /\ AttemptsAllowed \in Nat \ {0}
         /\ AttemptsAllowed > 1 => Request.idempotent /\ AttemptsAllowed <= Attempts
BY SessionAssumption DEF AttemptsAllowed

\* A step that makes no exchange and no attempt.
LEMMA AttemptsKept ==
  ASSUME AttemptsAllowedSoFar, UNCHANGED <<made, asked>>, phase' \notin {"fetching", "backoff"}
  PROVE  AttemptsAllowedSoFar'
BY DEF AttemptsAllowedSoFar, RetriesBounded

LEMMA NextAttempts ==
  ASSUME SessionTypeOK, Accounted, AttemptsAllowedSoFar, [SessionNext]_sessionVars
  PROVE  AttemptsAllowedSoFar'
<1>1. CASE StopAtLimit
  BY <1>1, AttemptsKept DEF StopAtLimit, EndCrawl
<1>2. CASE Exhausted
  BY <1>2, AttemptsKept DEF Exhausted, EndCrawl
<1>3. CASE Ask
  <2>1. crawl'.current \in Requests /\ asked \in Seq(Requests)
    BY <1>3, NextProperties DEF Ask, Crawls, SessionTypeOK
  <2>2. /\ Len(asked') = Len(asked) + 1 /\ \A i \in 1 .. Len(asked) : asked'[i] = asked[i]
        /\ Len(asked) \in Nat /\ made' = made /\ phase' # "backoff"
        /\ phase' = "fetching" => attempt' = 1
    BY <1>3, <2>1 DEF Ask, EndCrawl
  <2>3. SessionTypeOK'
    BY NextType
  <2>4. AttemptsAllowed' \in Nat \ {0}
    BY SessionAssumption DEF AttemptsAllowed
  <2>5. phase' = "fetching" => attempt' \in 1 .. AttemptsAllowed'
    BY <2>2, <2>4
  <2>6. \A i \in 1 .. Len(made) :
           /\ made'[i][1] \in 1 .. Len(asked') /\ asked'[made'[i][1]] = asked[made[i][1]]
           /\ made'[i] = made[i]
    BY <2>2 DEF AttemptsAllowedSoFar
  <2>7. QED
    BY <2>2, <2>5, <2>6 DEF AttemptsAllowedSoFar, RetriesBounded
<1>4. CASE Fetch
  <2>1. PICK kind \in {"sound", "status", "cut", "transient", "fatal"}, hops \in 0 .. MaxHops :
          FetchComesTo(kind, hops)
    BY <1>4 DEF Fetch
  <2> DEFINE new == Exchange(Len(asked), hops, attempt)
  <2>2. /\ hops \in Nat /\ new \in Seq(ExchangeIds) /\ Len(new) = hops
        /\ \A i \in 1 .. hops : new[i] = <<Len(asked), attempt>>
    <3>1. <<Len(asked), attempt>> \in ExchangeIds /\ hops \in Nat
      BY SessionAssumption DEF SessionTypeOK, ExchangeIds
    <3>2. QED
      BY <3>1 DEF Exchange
  <2>3. /\ made' = made \o new /\ phase' \in {"backoff", "fetched"}
        /\ phase' = "backoff" => attempt # AttemptsAllowed
    BY <2>1 DEF FetchComesTo, LastAttempt
  <2> HIDE DEF new
  <2>4. /\ attempt \in 1 .. AttemptsAllowed /\ attempt' = attempt /\ asked' = asked
        /\ AttemptsAllowed' = AttemptsAllowed
        /\ Len(asked) \in Nat /\ Len(asked) # 0
    BY <1>4 DEF Fetch, AttemptsAllowedSoFar, AttemptsAllowed, Request, Accounted, Requesting, SessionTypeOK
  <2>5. AttemptsAllowed \in Nat \ {0}
    BY AttemptsAllowedProperties
  <2>6. phase' = "backoff" => attempt' \in 1 .. AttemptsAllowed' - 1
    BY <2>3, <2>4, <2>5
  <2>7. attempt <= 1 \/ (asked[Len(asked)].idempotent /\ attempt <= Attempts)
    BY <2>4, <2>5, AttemptsAllowedProperties, SessionAssumption DEF Request, Last
  <2>8. ASSUME NEW i \in 1 .. Len(made')
        PROVE  /\ made'[i][1] \in 1 .. Len(asked)
               /\ \/ made'[i][2] <= 1
                  \/ asked[made'[i][1]].idempotent /\ made'[i][2] <= Attempts
    <3>1. made \in Seq(ExchangeIds) /\ Len(made) \in Nat
      BY DEF SessionTypeOK
    <3>2. /\ Len(made') = Len(made) + hops
          /\ i <= Len(made) => made'[i] = made[i]
          /\ i > Len(made) => made'[i] = new[i - Len(made)]
      <4>1. /\ Len(made \o new) = Len(made) + Len(new)
            /\ \A j \in 1 .. Len(made) + Len(new) :
                  (made \o new)[j] = IF j <= Len(made) THEN made[j] ELSE new[j - Len(made)]
        BY <2>2, <3>1, ConcatProperties
      <4>2. QED
        BY <2>2, <2>3, <3>1, <4>1
    <3>3. CASE i <= Len(made)
      BY <3>1, <3>2, <3>3 DEF AttemptsAllowedSoFar, RetriesBounded
    <3>4. CASE i > Len(made)
      <4>1. i - Len(made) \in 1 .. hops
        BY <2>2, <3>1, <3>2, <3>4
      <4>2. made'[i] = <<Len(asked), attempt>>
        BY <2>2, <3>2, <3>4, <4>1
      <4>3. made'[i][1] = Len(asked) /\ made'[i][2] = attempt
        BY <4>2
      <4>4. Len(asked) \in 1 .. Len(asked)
        BY <2>4
      <4>5. QED
        BY <2>7, <4>3, <4>4
    <3>5. QED
      BY <3>1, <3>3, <3>4
  <2>9. QED
    BY <2>3, <2>4, <2>6, <2>8 DEF AttemptsAllowedSoFar, RetriesBounded
<1>5. CASE Backoff
  <2>1. /\ made' = made /\ asked' = asked /\ AttemptsAllowed' = AttemptsAllowed
        /\ phase' # "backoff"
        /\ phase' = "fetching" => attempt' = attempt + 1
        /\ attempt \in 1 .. AttemptsAllowed - 1
    BY <1>5 DEF Backoff, AttemptsAllowed, Request, AttemptsAllowedSoFar
  <2>2. AttemptsAllowed \in Nat \ {0}
    BY AttemptsAllowedProperties
  <2>3. QED
    BY <2>1, <2>2 DEF AttemptsAllowedSoFar, RetriesBounded
<1>6. CASE RecordAbandoned
  BY <1>6, AttemptsKept DEF RecordAbandoned, EndCrawl
<1>7. CASE Inspect
  BY <1>7, AttemptsKept DEF Inspect
<1>8. CASE ReportFailure
  BY <1>8, AttemptsKept DEF ReportFailure
<1>9. CASE RecordOutcome
  BY <1>9, AttemptsKept DEF RecordOutcome, EndCrawl
<1>10. CASE OutcomeWritten
  BY <1>10, AttemptsKept DEF OutcomeWritten, EndCrawl
<1>11. CASE FinishSession
  BY <1>11, AttemptsKept DEF FinishSession
<1>12. CASE UNCHANGED sessionVars
  BY <1>12 DEF sessionVars, AttemptsAllowedSoFar, RetriesBounded, AttemptsAllowed, Request
<1>13. QED
  BY <1>1, <1>2, <1>3, <1>4, <1>5, <1>6, <1>7, <1>8, <1>9, <1>10, <1>11, <1>12
     DEF SessionNext, Run, SessionTerminated

\* What an acknowledgment adds to the captures.
LEMMA CapturesProperties ==
  ASSUME SessionTypeOK
  PROVE  /\ Cardinality(Captures) \in Nat
         /\ acked' = acked => Captures' = Captures
         /\ \A verdict \in Verdicts : acked' = Append(acked, verdict) =>
               Cardinality(Captures') =
                  Cardinality(Captures) + (IF verdict # "failed" THEN 1 ELSE 0)
<1>1. Len(acked) \in Nat /\ acked \in Seq(Verdicts)
  BY DEF SessionTypeOK
<1>2. IsFiniteSet(Captures)
  <2>1. IsFiniteSet(1 .. Len(acked))
    BY <1>1, FS_Interval
  <2>2. Captures \in SUBSET (1 .. Len(acked))
    BY DEF Captures
  <2>3. QED
    BY <2>1, <2>2, FS_Subset
<1>3. Cardinality(Captures) \in Nat
  BY <1>2, FS_CardinalityType
<1>4. acked' = acked => Captures' = Captures
  BY DEF Captures
<1>5. ASSUME NEW verdict \in Verdicts, acked' = Append(acked, verdict)
      PROVE  Cardinality(Captures') =
                Cardinality(Captures) + (IF verdict # "failed" THEN 1 ELSE 0)
  <2>1. /\ Len(acked') = Len(acked) + 1 /\ acked'[Len(acked) + 1] = verdict
        /\ \A i \in 1 .. Len(acked) : acked'[i] = acked[i]
    BY <1>1, <1>5
  <2>2. Captures' = {i \in 1 .. Len(acked') : acked'[i] # "failed"}
    BY DEF Captures
  <2>3. Len(acked) + 1 \notin Captures
    BY <1>1 DEF Captures
  <2>4. CASE verdict # "failed"
    <3>1. Captures' = Captures \cup {Len(acked) + 1}
      BY <1>1, <2>1, <2>2, <2>4 DEF Captures
    <3>2. Cardinality(Captures \cup {Len(acked) + 1}) = Cardinality(Captures) + 1
      BY <1>2, <2>3, FS_AddElement
    <3>3. QED
      BY <2>4, <3>1, <3>2
  <2>5. CASE verdict = "failed"
    <3>1. Captures' = Captures
      BY <1>1, <2>1, <2>2, <2>5 DEF Captures
    <3>2. QED
      BY <1>3, <2>5, <3>1
  <2>6. QED
    BY <2>4, <2>5
<1>6. QED
  BY <1>3, <1>4, <1>5

\* A step that neither captures nor acknowledges, and asks for no request.
LEMMA CountKept ==
  ASSUME SessionTypeOK, Counted, UNCHANGED <<CaptureLimit, captureCount, acked, fetched>>,
         phase = "recording" <=> phase' = "recording",
         outcome # "fatal", Requesting' => Requesting
  PROVE  Counted'
<1>1. Captures' = Captures
  BY CapturesProperties
<1>2. QED
  BY <1>1 DEF Counted

LEMMA NextCounted == ASSUME SessionTypeOK, Accounted, Counted, [SessionNext]_sessionVars PROVE Counted'
<1> USE PlanKept
<1>1. CASE StopAtLimit
  BY <1>1, CountKept DEF StopAtLimit, EndCrawl, requestVars, Requesting, Accounted
<1>2. CASE Exhausted
  BY <1>2, CountKept DEF Exhausted, EndCrawl, requestVars, Requesting, Accounted
<1>3. CASE Ask
  <2>1. Captures' = Captures /\ Cardinality(Captures) \in Nat
    BY <1>3, CapturesProperties DEF Ask
  <2>2. /\ phase = "loop" /\ phase' # "recording" /\ outcome # "fatal" /\ outcome' # "fatal"
        /\ captureCount' = captureCount
        /\ ~(CaptureLimit # NoLimit /\ captureCount >= CaptureLimit)
    BY <1>3 DEF Ask, EndCrawl, Accounted, LimitReached
  <2>3. CaptureLimit # NoLimit => CaptureLimit \in Nat /\ captureCount \in Nat
    BY LimitType DEF SessionTypeOK
  <2>4. QED
    BY <2>1, <2>2, <2>3 DEF Counted
<1>4. CASE Fetch
  <2>1. Captures' = Captures
    BY <1>4, CapturesProperties DEF Fetch
  <2>2. /\ phase = "fetching" /\ phase' \in {"backoff", "fetched"} /\ outcome' = outcome
        /\ captureCount' = captureCount
    BY <1>4 DEF Fetch, FetchComesTo
  <2>3. QED
    BY <2>1, <2>2 DEF Counted, Requesting
<1>5. CASE Backoff
  BY <1>5, CountKept DEF Backoff, requestVars, Requesting, Accounted
<1>6. CASE RecordAbandoned
  BY <1>6, CountKept DEF RecordAbandoned, EndCrawl, requestVars, Requesting, Accounted
<1>7. CASE Inspect
  <2>1. PICK links \in BoundedSeq(Urls, MaxLinks), error \in BOOLEAN :
          InspectComesTo(links, error)
    BY <1>7 DEF Inspect
  <2>2. Captures' = Captures /\ Cardinality(Captures) \in Nat
    BY <1>7, CapturesProperties DEF Inspect
  <2>3. /\ phase = "fetched" /\ phase' = "recording" /\ outcome = "none" /\ outcome' = outcome
        /\ fetched.verdict # "failed"
    BY <1>7 DEF Inspect, Accounted
  <2>4. /\ captureCount = Cardinality(Captures)
        /\ CaptureLimit # NoLimit => captureCount < CaptureLimit /\ CaptureLimit \in Nat
    BY <2>2, <2>3, LimitType DEF Counted, Requesting
  <2>5. \/ captureCount' = captureCount /\ fetched'.verdict = "failed"
        \/ captureCount' = captureCount + 1 /\ fetched' = fetched
    BY <2>1 DEF InspectComesTo, SessionTypeOK
  <2>6. QED
    BY <2>2, <2>3, <2>4, <2>5 DEF Counted, Requesting, SessionTypeOK
<1>8. CASE ReportFailure
  <2>1. Captures' = Captures
    BY <1>8, CapturesProperties DEF ReportFailure
  <2>2. /\ phase = "fetched" /\ phase' = "recording" /\ outcome' = outcome /\ fetched' = fetched
        /\ captureCount' = captureCount /\ fetched.verdict = "failed"
    BY <1>8 DEF ReportFailure
  <2>3. QED
    BY <2>1, <2>2 DEF Counted, Requesting
<1>9. CASE RecordOutcome
  <2>1. phase = "recording" /\ outcome = "none" /\ captureCount' = captureCount
        /\ fetched.verdict \in Verdicts /\ Cardinality(Captures) \in Nat
    BY <1>9, CapturesProperties DEF RecordOutcome, Accounted, SessionTypeOK
  <2>2. captureCount = Cardinality(Captures) + (IF fetched.verdict # "failed" THEN 1 ELSE 0)
    BY <2>1 DEF Counted
  <2>3. CASE acked' = Append(acked, fetched.verdict) /\ phase' = "written" /\ UNCHANGED outcome
    <3>1. Cardinality(Captures') =
            Cardinality(Captures) + (IF fetched.verdict # "failed" THEN 1 ELSE 0)
      BY <2>1, <2>3, CapturesProperties
    <3>2. Cardinality(Captures)' = captureCount'
      BY <2>1, <2>2, <3>1
    <3>3. QED
      BY <2>1, <2>3, <3>2 DEF Counted, Requesting, SessionTypeOK
  <2>4. CASE acked' = acked /\ phase' = "finishing" /\ outcome' = "fatal"
    <3>1. Captures' = Captures
      BY <2>4, CapturesProperties
    <3>2. QED
      BY <2>1, <2>4, <3>1 DEF Counted, Requesting
  <2>5. QED
    BY <1>9, <2>3, <2>4 DEF RecordOutcome, EndCrawl
<1>10. CASE OutcomeWritten
  BY <1>10, CountKept DEF OutcomeWritten, EndCrawl, requestVars, Requesting, Accounted
<1>11. CASE FinishSession
  <2>1. Captures' = Captures
    BY <1>11, CapturesProperties DEF FinishSession
  <2>2. QED
    BY <1>11, <2>1 DEF FinishSession, Counted, Requesting, requestVars
<1>12. CASE UNCHANGED sessionVars
  <2>1. Captures' = Captures
    BY <1>12, CapturesProperties DEF sessionVars
  <2>2. QED
    BY <1>12, <2>1 DEF sessionVars, Counted, Requesting
<1>13. QED
  BY <1>1, <1>2, <1>3, <1>4, <1>5, <1>6, <1>7, <1>8, <1>9, <1>10, <1>11, <1>12
     DEF SessionNext, Run, SessionTerminated

LEMMA NextCompleted == ASSUME SessionTypeOK, Accounted, Completed, [SessionNext]_sessionVars PROVE Completed'
<1> USE PlanKept
<1>1. CASE StopAtLimit
  BY <1>1 DEF StopAtLimit, EndCrawl, requestVars, Requesting, LimitReached, Completed
<1>2. CASE Exhausted
  <2>1. crawl.stack = <<>> /\ crawl'.stack = crawl.stack /\ crawl'.seen = crawl.seen
    BY <1>2 DEF Exhausted, HasNext, NextRequest, SessionTypeOK
  <2>2. QED
    BY <1>2, <2>1 DEF Exhausted, EndCrawl, requestVars, Requesting, Completed
<1>3. CASE Ask
  <2> DEFINE request == crawl'.current
  <2>1. /\ crawl'.stack \in Seq(Requests) /\ request \in Requests /\ asked \in Seq(Requests)
        /\ crawl.stack = Append(crawl'.stack, request) /\ crawl'.seen = crawl.seen
        /\ asked' = Append(asked, request)
    <3>1. crawl \in Crawls /\ HasNext(crawl) /\ crawl' = NextRequest(crawl)
      BY <1>3 DEF Ask, SessionTypeOK, Crawls
    <3>2. QED
      BY <1>3, <3>1, NextProperties DEF Ask, Crawls, SessionTypeOK
  <2> HIDE DEF request
  <2>2. UrlsOf(crawl.stack) = UrlsOf(crawl'.stack) \cup {request.url}
    <3> DEFINE rest == crawl'.stack
    <3>1. rest \in Seq(Requests) /\ crawl.stack = Append(rest, request)
      BY <2>1
    <3> HIDE DEF rest
    <3>2. UrlsOf(Append(rest, request)) = UrlsOf(rest) \cup {request.url}
      BY <2>1, <3>1, UrlsOfProperties
    <3>3. QED
      BY <3>1, <3>2 DEF rest
  <2>3. UrlsOf(asked') = UrlsOf(asked) \cup {request.url}
    BY <2>1, UrlsOfProperties
  <2>4. crawl'.seen = UrlsOf(asked') \cup UrlsOf(crawl'.stack)
    BY <2>1, <2>2, <2>3 DEF Completed
  <2>5. /\ outcome' # "complete" /\ phase' \in {"fetching", "finishing"}
        /\ phase' = "fetching" => ~stopWrite'
    BY <1>3 DEF Ask, EndCrawl, Accounted
  <2>6. QED
    BY <2>4, <2>5 DEF Completed, Requesting
<1>4. CASE Fetch
  <2>1. phase = "fetching" /\ phase' \in {"backoff", "fetched"}
        /\ UNCHANGED <<crawl, asked, stopWrite, acked, captureCount, outcome>>
    BY <1>4 DEF Fetch, FetchComesTo
  <2>2. QED
    BY <2>1 DEF Completed, Requesting, Rejected, LimitReached
<1>5. CASE Backoff
  BY <1>5 DEF Backoff, requestVars, Completed, Requesting, Rejected, LimitReached
<1>6. CASE RecordAbandoned
  BY <1>6 DEF RecordAbandoned, EndCrawl, requestVars, Completed, Requesting
<1>7. CASE Inspect
  <2>1. PICK links \in BoundedSeq(Urls, MaxLinks), error \in BOOLEAN :
          InspectComesTo(links, error)
    BY <1>7 DEF Inspect
  <2>2. crawl \in Crawls /\ crawl' = Inspected(crawl, links, error)
    BY <2>1 DEF SessionTypeOK, Crawls, InspectComesTo
  <2>3. PICK kept \in Seq(Urls) :
          /\ crawl'.stack = crawl.stack \o Reverse(Extras(kept))
          /\ crawl'.seen = crawl.seen \cup ToSet(kept)
    <3>1. Inspects(crawl, crawl')
      BY <2>2, InspectedProperties
    <3>2. QED
      BY <3>1 DEF Inspects
  <2>4. /\ Extras(kept) \in Seq(Requests) /\ UrlsOf(Extras(kept)) = ToSet(kept)
        /\ crawl.stack \in Seq(Requests)
    BY <2>2, ExtrasProperties DEF Crawls
  <2>5. Reverse(Extras(kept)) \in Seq(Requests)
    BY <2>4, ReverseProperties
  <2>6. UrlsOf(crawl.stack \o Reverse(Extras(kept))) =
          UrlsOf(crawl.stack) \cup UrlsOf(Reverse(Extras(kept)))
    BY <2>4, <2>5, Elements DEF UrlsOf
  <2>7. UrlsOf(Reverse(Extras(kept))) = UrlsOf(Extras(kept))
    BY <2>4, Elements DEF UrlsOf
  <2>8. crawl'.seen = UrlsOf(asked) \cup UrlsOf(crawl'.stack)
    BY <2>3, <2>4, <2>6, <2>7 DEF Completed
  <2>9. /\ asked' = asked /\ phase' = "recording" /\ outcome' = "none"
        /\ stopWrite' => fetched'.verdict = "failed"
    BY <1>7, <2>1 DEF Inspect, InspectComesTo, Accounted, SessionTypeOK
  <2>10. QED
    BY <2>8, <2>9 DEF Completed, Requesting
<1>8. CASE ReportFailure
  <2>1. crawl'.stack = crawl.stack /\ crawl'.seen = crawl.seen
    BY <1>8 DEF ReportFailure, Failed, SessionTypeOK
  <2>2. QED
    BY <1>8, <2>1 DEF ReportFailure, Completed, Requesting, Accounted
<1>9. CASE RecordOutcome
  <2>1. /\ phase = "recording" /\ UNCHANGED <<crawl, asked, stopWrite>>
        /\ acked \in Seq(Verdicts) /\ fetched.verdict \in Verdicts
    BY <1>9 DEF RecordOutcome, requestVars, SessionTypeOK
  <2>2. CASE acked' = Append(acked, fetched.verdict) /\ phase' = "written" /\ UNCHANGED outcome
    <3>1. acked' # <<>> /\ Last(acked') = fetched.verdict
      BY <2>1, <2>2 DEF Last
    <3>2. outcome' # "complete"
      BY <2>1, <2>2 DEF Accounted
    <3>3. QED
      BY <2>1, <2>2, <3>1, <3>2 DEF Completed, Requesting, Rejected
  <2>3. CASE phase' = "finishing" /\ outcome' = "fatal"
    BY <2>1, <2>3 DEF Completed, Requesting
  <2>4. QED
    BY <1>9, <2>2, <2>3 DEF RecordOutcome, EndCrawl
<1>10. CASE OutcomeWritten
  BY <1>10 DEF OutcomeWritten, EndCrawl, requestVars, Completed, Requesting, Rejected, Accounted
<1>11. CASE FinishSession
  BY <1>11 DEF FinishSession, requestVars, Completed, Requesting, Rejected, LimitReached
<1>12. CASE UNCHANGED sessionVars
  BY <1>12 DEF sessionVars, Completed, Requesting, Rejected, LimitReached
<1>13. QED
  BY <1>1, <1>2, <1>3, <1>4, <1>5, <1>6, <1>7, <1>8, <1>9, <1>10, <1>11, <1>12
     DEF SessionNext, Run, SessionTerminated

-----------------------------------------------------------------------------
(* Theorems.                                                               *)

\* IInv: the request being made is the one request that is not acknowledged, what
\* the archive lacks of the exchanges made is what that request's attempts have
\* made, an attempt is allowed before it is made, captures are counted against the
\* limit once, and every URL known was asked for or is on the stack.  (run.rs,
\* Session::run, capture_with_retry; crawl.rs)
THEOREM SessionInvariant == SessionSpec => []SessionInv
<1>1. SessionInv /\ [SessionNext]_sessionVars => SessionInv'
  BY NextType, NextAccounted, NextArchive, NextAttempts, NextCounted, NextCompleted DEF SessionInv
<1>2. QED
  BY <1>1, InitIInv, PTL DEF SessionSpec

\* Whatever request a crawl hands out, it is acknowledged, or it is listed first to
\* resume from, or it is the one whose own record failed.  (Session::run; Crawl::
\* unrequested)
THEOREM SessionForgetsNothing == SessionSpec => []NothingForgotten
<1>1. SessionInv => NothingForgotten
  BY DEF SessionInv, Accounted
<1>2. QED
  BY <1>1, SessionInvariant, PTL

\* For any number of attempts: the archive holds what the network was asked, in
\* order and to the end unless a record failed, and no request is attempted more
\* often than it may be.  (capture_with_retry; Collection::record)
THEOREM SessionAccountsForAttempts == SessionSpec => []AttemptsAccounted
<1>1. ASSUME SessionInv PROVE AttemptsAccounted
  <2>1. /\ archived \in Seq(ExchangeIds) /\ Unrecorded \in Seq(ExchangeIds)
    BY <1>1, EmptySeq DEF SessionInv, SessionTypeOK, Unrecorded
  <2>2. IsPrefix(archived, made)
    <3>1. CASE outcome = "fatal"
      BY <1>1, <3>1 DEF SessionInv, ArchiveBehind
    <3>2. CASE outcome # "fatal"
      <4>1. made = archived \o Unrecorded
        BY <1>1, <3>2 DEF SessionInv, ArchiveBehind
      <4>2. IsPrefix(archived, archived \o Unrecorded)
        BY <2>1, PrefixProperties
      <4>3. QED
        BY <4>1, <4>2
    <3>3. QED
      BY <3>1, <3>2
  <2>3. ASSUME ResumePoint, outcome # "fatal" PROVE archived = made
    <3>1. Unrecorded = <<>>
      BY <2>3 DEF ResumePoint, Unrecorded
    <3>2. archived \o <<>> = archived
      BY <2>1, ConcatEmptySeq
    <3>3. QED
      BY <1>1, <2>3, <3>1, <3>2 DEF SessionInv, ArchiveBehind
  <2>4. RetriesBounded
    BY <1>1 DEF SessionInv, AttemptsAllowedSoFar
  <2>5. QED
    BY <2>2, <2>3, <2>4 DEF AttemptsAccounted, ExchangesArchived
<1>2. QED
  BY <1>1, SessionInvariant, PTL

\* The requests still to make, their URLs.
LEMMA UnrequestedProperties ==
  ASSUME SessionTypeOK, crawl.current = NoRequest
  PROVE  /\ Unrequested(crawl) = Reverse(crawl.stack)
         /\ UrlsOf(Unrequested(crawl)) = UrlsOf(crawl.stack)
         /\ Unrequested(crawl) = <<>> <=> crawl.stack = <<>>
<1> DEFINE s == crawl.stack
<1>1. s \in Seq(Requests)
  BY DEF SessionTypeOK
<1> HIDE DEF s
<1>2. Reverse(s) \in Seq(Requests) /\ Len(Reverse(s)) = Len(s)
  BY <1>1, ReverseProperties
<1>3. <<>> \o Reverse(s) = Reverse(s)
  BY <1>2, ConcatEmptySeq
<1>4. UrlsOf(Reverse(s)) = UrlsOf(s)
  BY <1>1, Elements DEF UrlsOf
<1>5. Reverse(s) = <<>> <=> s = <<>>
  BY <1>1, <1>2, EmptySeq
<1>6. Unrequested(crawl) = <<>> \o Reverse(s)
  BY DEF Unrequested, s
<1>7. QED
  BY <1>3, <1>4, <1>5, <1>6 DEF s

\* For any limit: no more captures are made than it allows, a crawl that it did not
\* stop was exhausted, and a summary that says the crawl is complete has a whole
\* capture of every request, or says what remains.  (Session::run; SessionSummary::
\* is_complete)
THEOREM SessionSummaryIsHonest == SessionSpec => []SummaryHonest
<1>1. ASSUME SessionInv PROVE SummaryHonest
  <2>1. /\ SessionTypeOK /\ Cardinality(Captures) \in Nat
        /\ Cardinality(Captures) <= captureCount /\ captureCount \in Nat
        /\ CaptureLimit # NoLimit => captureCount <= CaptureLimit /\ CaptureLimit \in Nat
    BY <1>1, CapturesProperties, LimitType DEF SessionInv, Counted, SessionTypeOK
  <2>2. ASSUME phase = "done", outcome = "complete"
        PROVE  /\ crawl.current = NoRequest /\ Len(asked) = Len(acked)
               /\ captureCount = Cardinality(Captures)
               /\ LimitReached \/ crawl.stack = <<>> \/ Rejected
    <3>1. crawl.current = NoRequest
      BY <1>1, <2>2 DEF SessionInv, Accounted
    <3>2. Len(asked) = Len(acked) + Len(LostToFailure) /\ LostToFailure = <<>>
      BY <1>1, <2>2, <3>1 DEF SessionInv, Accounted, NothingForgotten, ResumePoint, LostToFailure, SessionTypeOK
    <3>3. captureCount = Cardinality(Captures)
      BY <1>1, <2>1, <2>2 DEF SessionInv, Counted
    <3>4. QED
      BY <1>1, <2>1, <2>2, <3>1, <3>2, <3>3 DEF SessionInv, Completed, SessionTypeOK
  <2>3. LimitExact
    <3>1. CaptureLimit # NoLimit => Cardinality(Captures) <= CaptureLimit
      BY <2>1
    <3>2. ASSUME phase = "done", outcome = "complete", ~stopWrite
          PROVE  Unrequested(crawl) = <<>> \/ (CaptureLimit # NoLimit /\ Cardinality(Captures) = CaptureLimit)
      <4>1. LimitReached \/ crawl.stack = <<>>
        BY <2>2, <3>2 DEF Rejected
      <4>2. LimitReached => CaptureLimit # NoLimit /\ Cardinality(Captures) = CaptureLimit
        BY <2>1, <2>2, <3>2 DEF LimitReached
      <4>3. crawl.stack = <<>> => Unrequested(crawl) = <<>>
        BY <2>1, <2>2, <3>2, UnrequestedProperties
      <4>4. QED
        BY <4>1, <4>2, <4>3
    <3>3. QED
      BY <3>1, <3>2 DEF LimitExact
  <2>4. CompleteMeansComplete
    <3>1. SUFFICES ASSUME phase = "done", IsComplete
                   PROVE  /\ Len(acked) = Len(asked)
                          /\ crawl.seen = UrlsOf(asked) \cup UrlsOf(Unrequested(crawl))
                          /\ Unrequested(crawl) # <<>> => LimitReached
      BY DEF CompleteMeansComplete
    <3>2. outcome = "complete" /\ \A i \in 1 .. Len(acked) : acked[i] = "captured"
      BY <3>1 DEF IsComplete
    <3>3. ~Rejected
      <4>1. Len(acked) \in Nat
        BY <2>1 DEF SessionTypeOK
      <4>2. acked # <<>> => Len(acked) \in 1 .. Len(acked)
        <5>1. acked # <<>> => Len(acked) # 0
          BY <2>1 DEF SessionTypeOK
        <5>2. QED
          BY <4>1, <5>1
      <4>3. acked # <<>> => Last(acked) = "captured"
        BY <3>2, <4>2 DEF Last
      <4>4. QED
        BY <4>3 DEF Rejected
    <3>4. /\ UrlsOf(Unrequested(crawl)) = UrlsOf(crawl.stack)
          /\ Unrequested(crawl) = <<>> <=> crawl.stack = <<>>
      BY <2>1, <2>2, <3>1, <3>2, UnrequestedProperties
    <3>5. crawl.seen = UrlsOf(asked) \cup UrlsOf(crawl.stack)
      BY <1>1 DEF SessionInv, Completed
    <3>6. QED
      BY <2>2, <3>1, <3>2, <3>3, <3>4, <3>5
  <2>5. QED
    BY <2>3, <2>4 DEF SummaryHonest
<1>2. QED
  BY <1>1, SessionInvariant, PTL

-----------------------------------------------------------------------------
(* The refinement of the Agenda.                                           *)

LEMMA InitAgenda == SessionInit => DepthFirst!Init
<1> SUFFICES ASSUME SessionInit PROVE DepthFirst!Init
  OBVIOUS
<1>1. plan \in Plans /\ crawl = NewCrawl(plan.seeds, plan.dedupe)
  BY DEF SessionInit
<1> DEFINE seeds == plan.seeds
<1>2. seeds \in Seq(Requests)
  BY <1>1, SessionAssumption
<1>3. /\ crawl.stack = Reverse(seeds) /\ crawl.current = NoRequest
      /\ crawl.seen = UrlsOf(seeds) /\ crawl.dedupe = plan.dedupe
  BY <1>1 DEF NewCrawl
<1>4. Reverse(Reverse(seeds)) = seeds
  <2> HIDE DEF seeds
  <2> QED
    BY <1>2, ReverseTwice
<1>5. Unrequested(crawl) = seeds
  <2>1. <<>> \o seeds = seeds
    BY <1>2, ConcatEmptySeq
  <2> HIDE DEF seeds
  <2>2. QED
    BY <1>3, <1>4, <2>1 DEF Unrequested
<1>6. QED
  <2> HIDE DEF seeds
  <2>1. \A q : DepthFirst!ToSet(q) = ToSet(q)
    BY DEF DepthFirst!ToSet, ToSet
  <2>2. plan.seeds = Unrequested(crawl)
    BY <1>5 DEF seeds
  <2>3. crawl.seen = {r.url : r \in ToSet(Unrequested(crawl))}
    BY <1>3, <1>5 DEF UrlsOf
  <2>4. QED
    BY <1>1, <1>3, <2>1, <2>2, <2>3 DEF DepthFirst!Init

\* A request leaves the agenda when it has been dealt with, and the links kept of
\* its page take its place.
LEMMA ResolveAgenda ==
  ASSUME SessionInv, phase = "fetched", Inspects(crawl, crawl')
  PROVE  DepthFirst!Resolve
<1>1. /\ crawl.current = Request /\ Request \in Requests /\ crawl.current # NoRequest
      /\ crawl \in Crawls
  <2>1. crawl.current = Request /\ asked \in Seq(Requests) /\ Len(asked) = Len(acked) + 1
        /\ Len(acked) \in Nat
    BY DEF SessionInv, SessionTypeOK, Accounted, Requesting
  <2>2. Request \in Requests
    BY <2>1 DEF Request, Last
  <2>3. QED
    BY <2>1, <2>2, SessionAssumption DEF SessionInv, SessionTypeOK, Crawls
<1>2. PICK kept \in Seq(Urls) :
        /\ Len(kept) <= MaxLinks
        /\ crawl.dedupe => IsInjective(kept) /\ ToSet(kept) \cap crawl.seen = {}
        /\ crawl'.stack = crawl.stack \o Reverse(Extras(kept))
        /\ crawl'.seen = crawl.seen \cup ToSet(kept)
        /\ crawl'.dedupe = crawl.dedupe /\ crawl'.current = NoRequest
  BY DEF Inspects
<1> DEFINE s == crawl.stack
           e == Extras(kept)
           rest == Reverse(s)
<1>3. s \in Seq(Requests) /\ rest \in Seq(Requests) /\ e \in Seq(Requests)
      /\ Reverse(e) \in Seq(Requests)
  BY <1>1, ReverseProperties, ExtrasProperties DEF Crawls
<1>4. Unrequested(crawl) = <<Request>> \o rest
  BY <1>1 DEF Unrequested
<1>5. /\ Unrequested(crawl) # <<>> /\ Tail(Unrequested(crawl)) = rest
  <2> HIDE DEF rest
  <2>1. <<Request>> \in Seq(Requests) /\ Len(<<Request>>) = 1
    BY <1>1
  <2> DEFINE all == <<Request>> \o rest
  <2>2. /\ all \in Seq(Requests) /\ Len(all) = 1 + Len(rest)
        /\ \A i \in 1 .. Len(rest) : all[i + 1] = rest[i]
        /\ Len(rest) \in Nat
    BY <1>3, <2>1
  <2> HIDE DEF all
  <2>3. all # <<>>
    BY <2>2, EmptySeq
  <2>4. /\ Tail(all) \in Seq(Requests) /\ Len(Tail(all)) = Len(rest)
        /\ \A i \in 1 .. Len(rest) : Tail(all)[i] = rest[i]
    BY <2>2, <2>3, HeadTailProperties
  <2>5. Tail(all) = rest
    BY <1>3, <2>4, SeqEqual
  <2>6. QED
    BY <1>4, <2>3, <2>5 DEF all
<1>6. Unrequested(crawl)' = DepthFirst!Links(kept) \o Tail(Unrequested(crawl))
  <2>1. Unrequested(crawl)' = <<>> \o Reverse(s \o Reverse(e))
    BY <1>2 DEF Unrequested
  <2> HIDE DEF s, e, rest
  <2>2. Reverse(s \o Reverse(e)) = Reverse(Reverse(e)) \o Reverse(s)
    BY <1>3, ReverseConcat
  <2>3. Reverse(Reverse(e)) = e
    BY <1>3, ReverseTwice
  <2>4. e \o rest \in Seq(Requests)
    BY <1>3
  <2>5. <<>> \o (e \o rest) = e \o rest
    BY <2>4, ConcatEmptySeq
  <2>6. DepthFirst!Links(kept) = e
    BY DEF DepthFirst!Links, e, Extras, Extra
  <2>7. Reverse(s) = rest
    BY DEF rest
  <2>8. QED
    BY <1>5, <2>1, <2>2, <2>3, <2>5, <2>6, <2>7
<1>7. kept \in BoundedSeq(Urls, MaxLinks)
  <2>1. Len(kept) \in 0 .. MaxLinks /\ kept \in [1 .. Len(kept) -> Urls]
    BY <1>2, SessionAssumption
  <2>2. QED
    BY <2>1 DEF BoundedSeq, SeqOf
<1>8. DepthFirst!New(kept)
  <2>1. DepthFirst!IsInjective(kept) <=> IsInjective(kept)
    BY DEF DepthFirst!IsInjective, IsInjective
  <2>2. DepthFirst!ToSet(kept) = ToSet(kept)
    BY DEF DepthFirst!ToSet, ToSet
  <2>3. QED
    BY <1>2, <2>1, <2>2 DEF DepthFirst!New
<1>9. QED
  <2> HIDE DEF s, e, rest
  <2>1. DepthFirst!BoundedSeq(Urls, MaxLinks) = BoundedSeq(Urls, MaxLinks)
    BY DEF DepthFirst!BoundedSeq, DepthFirst!SeqOf, BoundedSeq, SeqOf
  <2>2. DepthFirst!ToSet(kept) = ToSet(kept)
    BY DEF DepthFirst!ToSet, ToSet
  <2>3. crawl'.seen = crawl.seen \cup DepthFirst!ToSet(kept) /\ crawl'.dedupe = crawl.dedupe
    BY <1>2, <2>2
  <2>4. QED
    BY <1>5, <1>6, <1>7, <1>8, <2>1, <2>3 DEF DepthFirst!Resolve

\* Asking for a request leaves the agenda as it is: the request is dealt with when
\* it has been made.
LEMMA AskAgenda ==
  ASSUME SessionTypeOK, crawl.current = NoRequest, HasNext(crawl), crawl' = NextRequest(crawl)
  PROVE  Unrequested(crawl)' = Unrequested(crawl)
<1> DEFINE s == crawl'.stack
           r == crawl'.current
<1>1. /\ s \in Seq(Requests) /\ r \in Requests /\ r # NoRequest /\ crawl.stack = Append(s, r)
  BY NextProperties, SessionAssumption DEF SessionTypeOK, Crawls
<1>2. Unrequested(crawl)' = <<r>> \o Reverse(s)
  BY <1>1 DEF Unrequested
<1>3. Unrequested(crawl) = Reverse(Append(s, r))
  BY <1>1, UnrequestedProperties
<1> HIDE DEF s, r
<1>4. Append(s, r) = s \o <<r>> /\ <<r>> \in Seq(Requests)
  BY <1>1, AppendIsConcat
<1>5. Reverse(s \o <<r>>) = Reverse(<<r>>) \o Reverse(s)
  BY <1>1, <1>4, ReverseConcat
<1>6. Reverse(<<r>>) = <<r>>
  BY DEF Reverse
<1>7. QED
  BY <1>2, <1>3, <1>4, <1>5, <1>6

\* For any seeds and links: a crawl deals with its requests depth first, each once,
\* in the order of the Agenda; what the session does between, a cancellation, a
\* retry or a failed record, leaves the agenda as it is.  (crawl.rs)
THEOREM SessionImplementsAgenda == SessionSpec => ImplementsAgenda
<1> DEFINE Same == UNCHANGED <<Unrequested(crawl), crawl.seen, crawl.dedupe>>
<1>1. ASSUME SessionInv, [SessionNext]_sessionVars
      PROVE  DepthFirst!Resolve \/ Same
  <2>1. CASE UNCHANGED crawl
    BY <2>1 DEF Unrequested
  <2>2. CASE Exhausted
    <3>1. crawl.current = NoRequest
      BY <1>1, <2>2 DEF Exhausted, SessionInv, Accounted
    <3>2. crawl' = crawl
      BY <1>1, <2>2, <3>1 DEF Exhausted, NextRequest, SessionInv, SessionTypeOK
    <3>3. QED
      BY <2>1, <3>2
  <2>3. CASE Ask
    <3>1. SessionTypeOK /\ crawl.current = NoRequest /\ HasNext(crawl) /\ crawl' = NextRequest(crawl)
      BY <1>1, <2>3 DEF Ask, SessionInv, Accounted
    <3>2. crawl'.seen = crawl.seen /\ crawl'.dedupe = crawl.dedupe
      BY <3>1, NextProperties DEF SessionTypeOK, Crawls
    <3>3. QED
      BY <3>1, <3>2, AskAgenda
  <2>4. CASE Inspect
    <3>1. PICK links \in BoundedSeq(Urls, MaxLinks), error \in BOOLEAN :
            crawl' = Inspected(crawl, links, error)
      BY <2>4 DEF Inspect, InspectComesTo
    <3>2. crawl \in Crawls
      BY <1>1 DEF SessionInv, SessionTypeOK, Crawls
    <3>3. Inspects(crawl, crawl')
      BY <3>1, <3>2, InspectedProperties
    <3>4. QED
      BY <1>1, <2>4, <3>3, ResolveAgenda DEF Inspect
  <2>5. CASE ReportFailure
    <3>1. crawl \in Crawls
      BY <1>1 DEF SessionInv, SessionTypeOK, Crawls
    <3>2. <<>> \in BoundedSeq(Urls, MaxLinks)
      BY SessionAssumption DEF BoundedSeq, SeqOf
    <3>3. crawl' = Inspected(crawl, <<>>, TRUE)
      BY <2>5 DEF ReportFailure, Failed, Inspected
    <3>4. Inspects(crawl, crawl')
      BY <3>1, <3>2, <3>3, InspectedProperties
    <3>5. QED
      BY <1>1, <2>5, <3>4, ResolveAgenda DEF ReportFailure
  <2>6. QED
    BY <1>1, <2>1, <2>2, <2>3, <2>4, <2>5
       DEF SessionNext, Run, SessionTerminated, StopAtLimit, Fetch, Backoff, RecordAbandoned, RecordOutcome, OutcomeWritten,
           FinishSession, sessionVars
<1>2. SessionInv /\ [SessionNext]_sessionVars => [DepthFirst!Resolve]_(DepthFirst!vars)
  BY <1>1 DEF DepthFirst!vars
<1>3. QED
  BY <1>2, InitAgenda, SessionInvariant, PTL DEF SessionSpec, ImplementsAgenda, DepthFirst!Spec

-----------------------------------------------------------------------------
(* Publication.                                                            *)

\* Where a run writes.
LEMMA RunNames ==
  ASSUME PublicationTypeOK, NEW r \in Runs
  PROVE  /\ Output(r) \in Outputs /\ Output(r) \in Names /\ Output(r) \notin Partials
         /\ Partial(r) \in Partials /\ Partial(r) \in Names
         /\ Partial(r) # Output(r)
         /\ Inputs(r) \in Seq(Names)
         /\ job[r].replace \in BOOLEAN
<1>1. job[r] \in Jobs
  BY DEF PublicationTypeOK
<1>2. job[r] \in [inputs : Seq(Names), output : Outputs, replace : BOOLEAN]
  BY <1>1, JobAssumption
<1>3. Output(r) \in Outputs /\ Inputs(r) \in Seq(Names) /\ job[r].replace \in BOOLEAN
  BY <1>2 DEF Output, Inputs
<1>4. Output(r) \in Names /\ Output(r) \notin Partials /\ Partial(r) \in Partials
  BY <1>3, PartialAssumption DEF Partials, Partial
<1>5. Partial(r) \in Names
  BY <1>3, PartialAssumption DEF Partial
<1>6. QED
  BY <1>3, <1>4, <1>5

LEMMA PartialsAreNames == Partials \subseteq Names
BY PartialAssumption DEF Partials

\* Nothing is two of a file, a name and None.
LEMMA Apart ==
  /\ Runs \subseteq Files
  /\ \A f \in Files : f \notin Names /\ f # None
  /\ None \notin Names
BY DisjointAssumption DEF Files

\* What a run was asked stays the same.
LEMMA SameJobs ==
  ASSUME job' = job
  PROVE  /\ Protected' = Protected
         /\ \A r : Output(r)' = Output(r) /\ Partial(r)' = Partial(r) /\ Inputs(r)' = Inputs(r)
BY DEF Protected, Output, Partial, Inputs

LEMMA PublicationInitInv == PublicationInit => PublicationInv
<1> SUFFICES ASSUME PublicationInit PROVE PublicationInv
  OBVIOUS
<1>1. PublicationTypeOK
  BY DEF PublicationInit, PublicationTypeOK, Steps, Entries, Directories, Files
<1>2. /\ dir = disk /\ whole = Old /\ synced = Old
      /\ dir \in [Names -> Old \cup Names \cup {None}]
      /\ \A n \in Names : dir[n] \in Names => dir[n] \notin Partials /\ dir[dir[n]] \in Old
      /\ \A r \in Runs : pc[r] = "check" /\ opened[r] = <<>>
      /\ \A f \in Files : rank[f] = 0
  BY DEF PublicationInit, Directories
<1>3. Old \subseteq Files /\ Runs \cap Old = {} /\ Runs \subseteq Files
  BY DisjointAssumption DEF Files
<1>4. \A n \in Names : dir[n] \in Files => dir[n] \in Old
  BY <1>2, DisjointAssumption
<1>5. OutputsWhole
  BY <1>2, <1>4 DEF OutputsWhole
<1>6. InputsWhole /\ SuccessIsDurable /\ CheckedInputs
  BY <1>2 DEF InputsWhole, SuccessIsDurable, CheckedInputs
<1>7. PartialOwned
  BY <1>2, <1>3, <1>4 DEF PartialOwned, Writing
<1>8. LinksHeld
  BY <1>2, <1>3 DEF LinksHeld
<1>9. Progress
  <2>1. ASSUME NEW r \in Runs PROVE Len(opened[r]) <= Len(Inputs(r))
    BY <1>1, <1>2, RunNames
  <2>2. QED
    BY <1>2, <2>1 DEF Progress
<1>10. DiskBehind
  BY <1>2 DEF DiskBehind
<1>11. QED
  BY <1>1, <1>5, <1>6, <1>7, <1>8, <1>9, <1>10 DEF PublicationInv

LEMMA CheckInv == ASSUME PublicationInv, NEW r \in Runs, Check(r) PROVE PublicationInv'
<1>1. /\ pc[r] = "check" /\ pc' \in [Runs -> Steps]
      /\ pc'[r] \in {"open", "failed"}
      /\ pc'[r] = "open" => \A i \in DOMAIN Inputs(r) : ~IsSameFile(Inputs(r)[i], Output(r))
      /\ \A q \in Runs \ {r} : pc'[q] = pc[q]
      /\ UNCHANGED <<job, opened, dir, disk, whole, synced, rank>>
  BY DEF Check, PublicationInv, PublicationTypeOK, Steps
<1>2. /\ Protected' = Protected
      /\ \A q : Output(q)' = Output(q) /\ Partial(q)' = Partial(q) /\ Inputs(q)' = Inputs(q)
  BY <1>1, SameJobs
<1>3. PublicationTypeOK'
  BY <1>1 DEF PublicationInv, PublicationTypeOK
<1>4. OutputsWhole' /\ InputsWhole' /\ SuccessIsDurable'
  BY <1>1, <1>2 DEF PublicationInv, OutputsWhole, InputsWhole, SuccessIsDurable
<1>5. PartialOwned'
  BY <1>1, <1>2 DEF PublicationInv, PartialOwned, Writing
<1>6. LinksHeld' /\ Progress' /\ DiskBehind'
  BY <1>1, <1>2 DEF PublicationInv, LinksHeld, Progress, DiskBehind
<1>7. CheckedInputs'
  <2>1. ASSUME NEW i \in DOMAIN Inputs(r), pc'[r] = "open"
        PROVE  Inputs(r)[i] # Output(r) /\ dir[Inputs(r)[i]] # Output(r)
    <3> DEFINE n == Inputs(r)[i]
    <3>1. n \in Names /\ Output(r) \in Names
      BY RunNames DEF PublicationInv
    <3>2. n # Output(r) /\ ~(Resolved(n) # None /\ Canonical(n) = Output(r))
      BY <1>1, <2>1 DEF IsSameFile
    <3>3. dir[n] \in Names => Canonical(n) = dir[n] /\ Resolved(n) # None
      BY <3>1, Apart DEF PublicationInv, LinksHeld, Canonical, Resolved
    <3>4. QED
      BY <3>1, <3>2, <3>3
  <2>2. QED
    BY <1>1, <1>2, <2>1 DEF PublicationInv, CheckedInputs
<1>8. QED
  BY <1>3, <1>4, <1>5, <1>6, <1>7 DEF PublicationInv

LEMMA OpenInv == ASSUME PublicationInv, NEW r \in Runs, Open(r) PROVE PublicationInv'
<1> DEFINE m == Len(opened[r]) + 1
           file == Resolved(Inputs(r)[m])
<1>1. /\ pc[r] = "open" /\ pc' \in [Runs -> Steps]
      /\ pc'[r] \in {"open", "create", "failed"}
      /\ \A q \in Runs \ {r} : pc'[q] = pc[q]
      /\ UNCHANGED <<job, dir, disk, whole, synced, rank>>
      /\ \/ opened' = opened
         \/ /\ Len(opened[r]) # Len(Inputs(r)) /\ file # None
            /\ opened' = [opened EXCEPT ![r] = Append(@, file)]
  BY DEF Open, PublicationInv, PublicationTypeOK, Steps
<1>2. /\ Protected' = Protected
      /\ \A q : Output(q)' = Output(q) /\ Partial(q)' = Partial(q) /\ Inputs(q)' = Inputs(q)
  BY <1>1, SameJobs
<1>3. Inputs(r) \in Seq(Names) /\ opened[r] \in Seq(Files) /\ Len(opened[r]) <= Len(Inputs(r))
  BY RunNames DEF PublicationInv, PublicationTypeOK, Progress
<1>4. ASSUME Len(opened[r]) # Len(Inputs(r)), file # None
      PROVE  /\ m \in DOMAIN Inputs(r)
             /\ file \in Files
             /\ Inputs(r)[m] \notin Partials => file \in whole \cap synced
  <2>1. m \in DOMAIN Inputs(r) /\ Inputs(r)[m] \in Names
    BY <1>3, <1>4
  <2> DEFINE n == Inputs(r)[m]
  <2>2. CASE dir[n] \in Names
    <3>1. dir[n] \notin Partials /\ dir[dir[n]] \in Files /\ file = dir[dir[n]]
      BY <2>1, <2>2 DEF PublicationInv, LinksHeld, Canonical, Resolved
    <3>2. QED
      BY <2>1, <2>2, <3>1 DEF PublicationInv, OutputsWhole
  <2>3. CASE dir[n] \notin Names
    <3>1. file = dir[n]
      BY <2>3 DEF Canonical, Resolved
    <3>2. file \in Files
      BY <1>4, <2>1, <2>3, <3>1 DEF PublicationInv, PublicationTypeOK, Entries
    <3>3. QED
      BY <2>1, <3>1, <3>2 DEF PublicationInv, OutputsWhole
  <2>4. QED
    BY <2>2, <2>3
<1> HIDE DEF file
<1>5. \A q \in Runs : /\ opened'[q] \in Seq(Files)
                      /\ Len(opened'[q]) <= Len(Inputs(q))
                      /\ pc'[q] # "failed" => \A i \in DOMAIN opened'[q] :
                            Inputs(q)[i] \notin Partials => opened'[q][i] \in whole \cap synced
  <2>1. ASSUME NEW q \in Runs
        PROVE  /\ opened[q] \in Seq(Files)
               /\ Len(opened[q]) <= Len(Inputs(q))
               /\ pc'[q] # "failed" => \A i \in DOMAIN opened[q] :
                     Inputs(q)[i] \notin Partials => opened[q][i] \in whole \cap synced
    <3>1. pc'[q] # "failed" => pc[q] # "failed"
      BY <1>1
    <3>2. QED
      BY <3>1 DEF PublicationInv, PublicationTypeOK, Progress, InputsWhole
  <2>2. CASE opened' = opened
    BY <2>1, <2>2
  <2>3. CASE opened' = [opened EXCEPT ![r] = Append(@, file)]
             /\ Len(opened[r]) # Len(Inputs(r)) /\ file # None
    <3>1. opened'[r] = Append(opened[r], file) /\ \A q \in Runs \ {r} : opened'[q] = opened[q]
      BY <2>3 DEF PublicationInv, PublicationTypeOK
    <3>2. /\ opened'[r] \in Seq(Files)
          /\ Len(opened'[r]) = m
          /\ DOMAIN opened'[r] = DOMAIN opened[r] \cup {m}
          /\ \A i \in DOMAIN opened[r] : opened'[r][i] = opened[r][i]
          /\ opened'[r][m] = file
      BY <1>3, <1>4, <2>3, <3>1
    <3>3. Len(opened'[r]) <= Len(Inputs(r))
      BY <1>3, <1>4, <2>3, <3>2
    <3>4. QED
      BY <1>4, <2>1, <2>3, <3>1, <3>2, <3>3
  <2>4. QED
    BY <1>1, <2>2, <2>3
<1>6. PublicationTypeOK'
  <2>1. opened' \in [Runs -> Seq(Files)]
    BY <1>1, <1>5 DEF PublicationInv, PublicationTypeOK
  <2>2. QED
    BY <1>1, <2>1 DEF PublicationInv, PublicationTypeOK
<1>7. OutputsWhole' /\ SuccessIsDurable'
  BY <1>1, <1>2 DEF PublicationInv, OutputsWhole, SuccessIsDurable
<1>8. InputsWhole'
  BY <1>1, <1>2, <1>5 DEF InputsWhole
<1>9. PartialOwned'
  BY <1>1, <1>2 DEF PublicationInv, PartialOwned, Writing
<1>10. LinksHeld' /\ DiskBehind'
  BY <1>1, <1>2 DEF PublicationInv, LinksHeld, DiskBehind
<1>11. Progress'
  BY <1>1, <1>2, <1>5 DEF PublicationInv, Progress
<1>12. CheckedInputs'
  BY <1>1, <1>2 DEF PublicationInv, CheckedInputs
<1>13. QED
  BY <1>6, <1>7, <1>8, <1>9, <1>10, <1>11, <1>12 DEF PublicationInv

LEMMA CreateInv == ASSUME PublicationInv, NEW r \in Runs, Create(r) PROVE PublicationInv'
<1>1. /\ pc[r] = "create" /\ pc' \in [Runs -> Steps]
      /\ \A q \in Runs \ {r} : pc'[q] = pc[q]
      /\ UNCHANGED <<job, opened, disk, whole, synced, rank>>
      /\ \/ pc'[r] = "failed" /\ dir' = dir
         \/ /\ pc'[r] = "write" /\ dir[Partial(r)] = None
            /\ dir' = [dir EXCEPT ![Partial(r)] = r]
  BY DEF Create, Vacant, PublicationInv, PublicationTypeOK, Steps
<1>2. /\ Protected' = Protected
      /\ \A q : Output(q)' = Output(q) /\ Partial(q)' = Partial(q) /\ Inputs(q)' = Inputs(q)
  BY <1>1, SameJobs
<1>3. /\ \A q \in Runs : Output(q) \in Names \ Partials /\ Partial(q) \in Partials
      /\ Partial(r) \in Names
      /\ r \in Files /\ r \notin Names /\ r # None
  BY RunNames, Apart DEF PublicationInv
<1>4. /\ \A n \in Names \ {Partial(r)} : dir'[n] = dir[n]
      /\ dir'[Partial(r)] \in {dir[Partial(r)], r}
      /\ dir' \in [Names -> Entries]
  BY <1>1, <1>3 DEF PublicationInv, PublicationTypeOK, Entries
<1>5. PublicationTypeOK'
  BY <1>1, <1>4 DEF PublicationInv, PublicationTypeOK
<1>6. OutputsWhole' /\ InputsWhole'
  BY <1>1, <1>2, <1>3, <1>4 DEF PublicationInv, OutputsWhole, InputsWhole
<1>7. SuccessIsDurable'
  BY <1>1, <1>2, <1>3, <1>4 DEF PublicationInv, SuccessIsDurable
<1>8. PartialOwned'
  <2>1. ASSUME NEW q \in Runs, Writing(q)' PROVE dir'[Partial(q)] = q
    <3>1. CASE q = r
      BY <1>1, <1>3, <2>1, <3>1 DEF PublicationInv, PublicationTypeOK, Writing
    <3>2. CASE q # r
      <4>1. dir[Partial(q)] = q /\ q # None
        BY <1>1, <2>1, <3>2, Apart DEF PublicationInv, PartialOwned, Writing
      <4>2. CASE dir' = dir
        BY <4>1, <4>2
      <4>3. CASE dir[Partial(r)] = None
        BY <1>3, <1>4, <4>1, <4>3, PartialsAreNames
      <4>4. QED
        BY <1>1, <4>2, <4>3
    <3>3. QED
      BY <3>1, <3>2
  <2>2. ASSUME NEW q \in Runs, Writing(q)' \/ pc'[q] \in {"check", "open", "create"},
               NEW n \in Names \ Partials
        PROVE  dir'[n] # q /\ disk'[n] # q
    BY <1>1, <1>3, <1>4, <2>2 DEF PublicationInv, PartialOwned, Writing
  <2>3. QED
    BY <1>1, <1>2, <2>1, <2>2 DEF PartialOwned
<1>9. LinksHeld'
  <2>1. ASSUME NEW n \in Names PROVE dir'[n] \in Names => dir'[n] = dir[n]
    BY <1>3, <1>4
  <2>2. \A n \in Names \ Partials : dir'[n] = dir[n]
    BY <1>3, <1>4
  <2>3. QED
    BY <1>1, <2>1, <2>2 DEF PublicationInv, LinksHeld
<1>10. Progress' /\ DiskBehind'
  BY <1>1, <1>2, <1>3, <1>4 DEF PublicationInv, Progress, DiskBehind
<1>11. CheckedInputs'
  <2>1. ASSUME NEW q \in Runs, pc'[q] \notin {"check", "done", "failed"},
               NEW i \in DOMAIN Inputs(q)
        PROVE  /\ Inputs(q)[i] # Output(q)
               /\ dir'[Inputs(q)[i]] # Output(q)
    <3>1. pc[q] \notin {"check", "done", "failed"}
      BY <1>1, <2>1
    <3>2. Inputs(q)[i] # Output(q) /\ dir[Inputs(q)[i]] # Output(q)
      BY <2>1, <3>1 DEF PublicationInv, CheckedInputs
    <3>3. Inputs(q)[i] \in Names /\ Output(q) # r
      BY <1>3, RunNames DEF PublicationInv
    <3>4. QED
      BY <1>4, <3>2, <3>3
  <2>2. QED
    BY <1>1, <1>2, <2>1 DEF CheckedInputs
<1>12. QED
  BY <1>5, <1>6, <1>7, <1>8, <1>9, <1>10, <1>11 DEF PublicationInv

\* A run that fails relies on nothing any more, and neither does one that writes
\* or syncs its file rely on less.
LEMMA FileInv == ASSUME PublicationInv, NEW r \in Runs, Write(r) \/ Sync(r) \/ Fail(r) PROVE PublicationInv'
<1>1. /\ pc' \in [Runs -> Steps]
      /\ \A q \in Runs \ {r} : pc'[q] = pc[q]
      /\ UNCHANGED <<job, opened, dir, disk, rank>>
      /\ \/ /\ pc[r] = "write" /\ pc'[r] = "sync"
            /\ whole' = whole \cup {r} /\ synced' = synced
         \/ /\ pc[r] = "sync" /\ pc'[r] = "rename"
            /\ whole' = whole /\ synced' = synced \cup {r}
         \/ /\ pc[r] \notin {"done", "failed"} /\ pc'[r] = "failed"
            /\ UNCHANGED <<whole, synced>>
  BY DEF Write, Sync, Fail, PublicationInv, PublicationTypeOK, Steps
<1>2. /\ Protected' = Protected
      /\ \A q : Output(q)' = Output(q) /\ Partial(q)' = Partial(q) /\ Inputs(q)' = Inputs(q)
  BY <1>1, SameJobs
<1>3. /\ whole \subseteq whole' /\ synced \subseteq synced' /\ r \in Files
      /\ whole' \subseteq whole \cup {r} /\ synced' \subseteq synced \cup {r}
      /\ synced' \subseteq whole'
  BY <1>1, Apart DEF PublicationInv, Progress
<1>4. PublicationTypeOK'
  BY <1>1, <1>3 DEF PublicationInv, PublicationTypeOK
<1>5. OutputsWhole'
  BY <1>1, <1>3 DEF PublicationInv, OutputsWhole
<1>6. InputsWhole'
  <2>1. \A q \in Runs : pc'[q] # "failed" => pc[q] # "failed"
    BY <1>1
  <2>2. QED
    BY <1>1, <1>2, <1>3, <2>1 DEF PublicationInv, InputsWhole
<1>7. SuccessIsDurable'
  <2>1. \A q \in Runs : pc'[q] = "done" => pc[q] = "done"
    BY <1>1
  <2>2. QED
    BY <1>1, <1>2, <2>1 DEF PublicationInv, SuccessIsDurable
<1>8. PartialOwned'
  BY <1>1, <1>2 DEF PublicationInv, PartialOwned, Writing
<1>9. LinksHeld' /\ DiskBehind'
  BY <1>1, <1>2 DEF PublicationInv, LinksHeld, DiskBehind
<1>10. Progress'
  <2>1. ASSUME NEW q \in Runs
        PROVE  /\ pc'[q] \in {"sync", "rename", "syncdir"} => q \in whole'
               /\ pc'[q] \in {"rename", "syncdir"} => q \in synced'
               /\ pc'[q] = "syncdir" => pc[q] = "syncdir"
    BY <1>1, <1>3 DEF PublicationInv, Progress
  <2>2. QED
    BY <1>1, <1>2, <1>3, <2>1 DEF PublicationInv, Progress
<1>11. CheckedInputs'
  <2>1. \A q \in Runs : pc'[q] \notin {"check", "done", "failed"} =>
                           pc[q] \notin {"check", "done", "failed"}
    BY <1>1
  <2>2. QED
    BY <1>1, <1>2, <2>1 DEF PublicationInv, CheckedInputs
<1>12. QED
  BY <1>4, <1>5, <1>6, <1>7, <1>8, <1>9, <1>10, <1>11 DEF PublicationInv

\* What a publication changes.
LEMMA RenameEffect ==
  ASSUME PublicationInv, NEW r \in Runs, Rename(r), pc'[r] # "failed"
  PROVE  /\ MayReplace(r)
         /\ pc[r] = "rename" /\ pc'[r] = "syncdir"
         /\ dir' \in [Names -> Entries]
         /\ dir'[Output(r)] = r /\ dir'[Partial(r)] = None
         /\ \A n \in Names \ {Output(r), Partial(r)} : dir'[n] = dir[n]
         /\ rank' \in [Files -> Nat]
         /\ rank'[r] > 0
         /\ \A f \in Files \ {r} : rank'[f] = rank[f]
         /\ \A f \in Files : rank'[f] <= rank'[r] /\ rank[f] <= rank'[f]
<1>1. /\ MayReplace(r) /\ pc[r] = "rename" /\ pc'[r] = "syncdir"
      /\ dir' = [dir EXCEPT ![Output(r)] = dir[Partial(r)], ![Partial(r)] = None]
  BY DEF Rename, PublicationInv, PublicationTypeOK
<1>2. PICK k \in {rank[f] : f \in Files} : /\ \A f \in Files : rank[f] <= k
                                           /\ rank' = [rank EXCEPT ![r] = k + 1]
  BY <1>1 DEF Rename
<1>3. k \in Nat /\ rank \in [Files -> Nat] /\ r \in Files
  BY <1>2, Apart DEF PublicationInv, PublicationTypeOK
<1>4. /\ rank' \in [Files -> Nat] /\ rank'[r] = k + 1
      /\ \A f \in Files \ {r} : rank'[f] = rank[f]
  BY <1>2, <1>3
<1>5. rank'[r] > 0 /\ \A f \in Files : rank'[f] <= rank'[r] /\ rank[f] <= rank'[f]
  BY <1>2, <1>3, <1>4
<1>6. dir[Partial(r)] = r
  BY <1>1 DEF PublicationInv, PartialOwned, Writing
<1>7. /\ Output(r) \in Names /\ Partial(r) \in Names /\ Partial(r) # Output(r)
      /\ dir \in [Names -> Entries] /\ r \in Entries
  BY Apart, RunNames DEF PublicationInv, PublicationTypeOK, Entries
<1>8. QED
  BY <1>1, <1>4, <1>5, <1>6, <1>7 DEF Entries

LEMMA RenameInv == ASSUME PublicationInv, NEW r \in Runs, Rename(r) PROVE PublicationInv'
<1>1. CASE pc'[r] = "failed"
  <2>1. Fail(r)
    BY <1>1 DEF Rename, Fail, PublicationInv, PublicationTypeOK
  <2>2. QED
    BY <2>1, FileInv
<1>2. CASE pc'[r] # "failed"
  <2> DEFINE o == Output(r)
             p == Partial(r)
  <2>1. /\ MayReplace(r)
        /\ pc[r] = "rename" /\ pc'[r] = "syncdir"
        /\ dir' \in [Names -> Entries]
        /\ dir'[o] = r /\ dir'[p] = None
        /\ \A n \in Names \ {o, p} : dir'[n] = dir[n]
        /\ rank' \in [Files -> Nat]
        /\ rank'[r] > 0
        /\ \A f \in Files \ {r} : rank'[f] = rank[f]
        /\ \A f \in Files : rank'[f] <= rank'[r] /\ rank[f] <= rank'[f]
    BY <1>2, RenameEffect
  <2>2. /\ pc' \in [Runs -> Steps]
        /\ \A q \in Runs \ {r} : pc'[q] = pc[q]
        /\ UNCHANGED <<job, opened, disk, whole, synced>>
    BY DEF Rename, PublicationInv, PublicationTypeOK, Steps
  <2>3. /\ Protected' = Protected
        /\ \A q : Output(q)' = Output(q) /\ Partial(q)' = Partial(q) /\ Inputs(q)' = Inputs(q)
    BY <2>2, SameJobs
  <2>4. /\ \A q \in Runs : Output(q) \in Names \ Partials /\ Partial(q) \in Partials
        /\ p \in Names /\ o \in Names /\ o \notin Partials
        /\ r \in Files /\ r \notin Names /\ r # None
        /\ r \in whole /\ r \in synced
    BY <2>1, RunNames, Apart DEF PublicationInv, Progress
  <2> HIDE DEF o, p
  <2>5. /\ \A n \in Names \ Partials : dir'[n] = IF n = o THEN r ELSE dir[n]
        /\ \A n \in Names : dir'[n] \in {r, None, dir[n]}
    BY <2>1, <2>4 DEF p
  <2>6. PublicationTypeOK'
    BY <2>1, <2>2 DEF PublicationInv, PublicationTypeOK
  <2>7. OutputsWhole' /\ InputsWhole'
    <3>1. OutputsWhole'
      BY <2>2, <2>4, <2>5 DEF PublicationInv, OutputsWhole
    <3>2. \A q \in Runs : pc'[q] # "failed" => pc[q] # "failed"
      BY <2>1, <2>2
    <3>3. QED
      BY <2>2, <2>3, <3>1, <3>2 DEF PublicationInv, InputsWhole
  <2>8. ASSUME NEW q \in Runs, q # r,
               dir[Output(q)] \in Files, rank[dir[Output(q)]] >= rank[q]
        PROVE  dir'[Output(q)] \in Files /\ rank'[dir'[Output(q)]] >= rank'[q]
    <3>1. rank'[q] = rank[q] /\ q \in Files /\ rank[q] \in Nat
      BY <2>1, <2>8, Apart DEF PublicationInv, PublicationTypeOK
    <3>2. CASE Output(q) = o
      BY <2>1, <2>4, <3>1, <3>2
    <3>3. CASE Output(q) # o
      <4>1. dir'[Output(q)] = dir[Output(q)]
        BY <2>4, <2>5, <3>3
      <4>2. rank'[dir[Output(q)]] >= rank[dir[Output(q)]]
        BY <2>1, <2>8
      <4>3. rank[dir[Output(q)]] \in Nat /\ rank'[dir[Output(q)]] \in Nat
        BY <2>1, <2>8 DEF PublicationInv, PublicationTypeOK
      <4>4. QED
        BY <2>8, <3>1, <4>1, <4>2, <4>3
    <3>4. QED
      BY <3>2, <3>3
  <2>9. SuccessIsDurable'
    <3>1. ASSUME NEW q \in Runs, pc'[q] = "done"
          PROVE  /\ dir'[Output(q)] \in Files /\ rank'[dir'[Output(q)]] >= rank'[q]
                 /\ disk'[Output(q)] \in Files /\ rank'[disk'[Output(q)]] >= rank'[q]
                 /\ rank'[q] > 0
      <4>1. q # r /\ pc[q] = "done" /\ q \in Files
        BY <2>1, <2>2, <3>1, Apart
      <4>2. /\ dir[Output(q)] \in Files /\ rank[dir[Output(q)]] >= rank[q]
            /\ disk[Output(q)] \in Files /\ rank[disk[Output(q)]] >= rank[q]
            /\ rank[q] > 0
        BY <4>1 DEF PublicationInv, SuccessIsDurable
      <4>3. rank'[q] = rank[q] /\ rank[q] \in Nat
        BY <2>1, <4>1 DEF PublicationInv, PublicationTypeOK
      <4>4. /\ rank'[disk[Output(q)]] >= rank[disk[Output(q)]]
            /\ rank'[disk[Output(q)]] \in Nat /\ rank[disk[Output(q)]] \in Nat
        BY <2>1, <4>2 DEF PublicationInv, PublicationTypeOK
      <4>5. QED
        BY <2>2, <2>8, <4>1, <4>2, <4>3, <4>4
    <3>2. QED
      BY <2>3, <3>1 DEF SuccessIsDurable
  <2>10. PartialOwned'
    <3>1. ASSUME NEW q \in Runs, Writing(q)' PROVE dir'[Partial(q)] = q
      <4>1. q # r /\ Writing(q) /\ dir[Partial(q)] = q
        BY <2>1, <2>2, <3>1 DEF PublicationInv, PartialOwned, Writing
      <4>2. dir[p] = r
        BY <2>1 DEF PublicationInv, PartialOwned, Writing, p
      <4>3. Partial(q) \in Names \ {o, p}
        BY <2>4, <4>1, <4>2, PartialsAreNames
      <4>4. QED
        BY <2>1, <4>1, <4>3
    <3>2. ASSUME NEW q \in Runs, Writing(q)' \/ pc'[q] \in {"check", "open", "create"},
                 NEW n \in Names \ Partials
          PROVE  dir'[n] # q /\ disk'[n] # q
      <4>1. q # r /\ (Writing(q) \/ pc[q] \in {"check", "open", "create"})
        BY <2>1, <2>2, <3>2 DEF Writing
      <4>2. dir[n] # q /\ disk[n] # q
        BY <4>1 DEF PublicationInv, PartialOwned
      <4>3. QED
        BY <2>2, <2>5, <4>1, <4>2
    <3>3. QED
      BY <2>3, <3>1, <3>2 DEF PartialOwned
  <2>11. LinksHeld'
    <3>1. ASSUME NEW n \in Names, dir'[n] \in Names
          PROVE  dir'[n] \notin Partials /\ dir'[dir'[n]] \in Files /\ disk'[dir'[n]] \in Files
      <4>1. dir'[n] = dir[n]
        BY <2>4, <2>5, <3>1, Apart
      <4>2. dir[n] \notin Partials /\ dir[dir[n]] \in Files /\ disk[dir[n]] \in Files
        BY <3>1, <4>1 DEF PublicationInv, LinksHeld
      <4>3. QED
        BY <2>2, <2>4, <2>5, <3>1, <4>1, <4>2
    <3>2. ASSUME NEW n \in Names, disk'[n] \in Names
          PROVE  disk'[n] \notin Partials /\ dir'[disk'[n]] \in Files /\ disk'[disk'[n]] \in Files
      <4>1. disk[n] \notin Partials /\ dir[disk[n]] \in Files /\ disk[disk[n]] \in Files
        BY <2>2, <3>2 DEF PublicationInv, LinksHeld
      <4>2. QED
        BY <2>2, <2>4, <2>5, <3>2, <4>1
    <3>3. QED
      BY <3>1, <3>2 DEF LinksHeld
  <2>12. Progress'
    <3>1. ASSUME NEW q \in Runs, pc'[q] = "syncdir"
          PROVE  dir'[Output(q)] \in Files /\ rank'[dir'[Output(q)]] >= rank'[q] /\ rank'[q] > 0
      <4>1. CASE q = r
        <5>1. rank'[r] \in Nat
          BY <2>1, <2>4
        <5>2. QED
          BY <2>1, <2>4, <4>1, <5>1 DEF o
      <4>2. CASE q # r
        <5>1. /\ pc[q] = "syncdir" /\ q \in Files
              /\ rank'[q] = rank[q]
          BY <2>1, <2>2, <3>1, <4>2, Apart
        <5>2. dir[Output(q)] \in Files /\ rank[dir[Output(q)]] >= rank[q] /\ rank[q] > 0
          BY <5>1 DEF PublicationInv, Progress
        <5>3. QED
          BY <2>8, <4>2, <5>1, <5>2
      <4>3. QED
        BY <4>1, <4>2
    <3>2. ASSUME NEW q \in Runs
          PROVE  /\ pc'[q] \in {"sync", "rename", "syncdir"} => q \in whole'
                 /\ pc'[q] \in {"rename", "syncdir"} => q \in synced'
                 /\ Len(opened'[q]) <= Len(Inputs(q))
      BY <2>1, <2>2 DEF PublicationInv, Progress
    <3>3. synced' \subseteq whole'
      BY <2>2 DEF PublicationInv, Progress
    <3>4. QED
      BY <2>3, <3>1, <3>2, <3>3 DEF Progress
  <2>13. DiskBehind'
    <3>1. ASSUME NEW n \in Names \ Partials, disk[n] # None
          PROVE  /\ dir'[n] # None
                 /\ n \in Protected => dir'[n] = disk[n]
                 /\ disk[n] \in Files => dir'[n] \in Files /\ rank'[dir'[n]] >= rank'[disk[n]]
      <4>1. /\ dir[n] # None
            /\ n \in Protected => dir[n] = disk[n]
            /\ disk[n] \in Files => dir[n] \in Files /\ rank[dir[n]] >= rank[disk[n]]
        BY <3>1 DEF PublicationInv, DiskBehind
      <4>2. disk[n] # r
        BY <2>1, <3>1 DEF PublicationInv, PartialOwned, Writing
      <4>3. disk[n] \in Files => rank'[disk[n]] = rank[disk[n]] /\ rank[disk[n]] \in Nat
        BY <2>1, <4>2 DEF PublicationInv, PublicationTypeOK
      <4>4. CASE n = o
        <5>1. n \notin Protected
          BY <2>1, <4>1, <4>4 DEF Protected, MayReplace, o
        <5>2. disk[n] \in Files => rank'[disk[n]] <= rank'[r]
          BY <2>1
        <5>3. disk[n] \in Files => rank'[r] \in Nat /\ rank'[disk[n]] \in Nat
          BY <2>1, <2>4
        <5>4. QED
          BY <2>1, <2>4, <4>4, <5>1, <5>2, <5>3
      <4>5. CASE n # o
        <5>1. dir'[n] = dir[n]
          BY <2>5, <4>5
        <5>2. dir[n] \in Files => /\ rank'[dir[n]] >= rank[dir[n]]
                                  /\ rank'[dir[n]] \in Nat /\ rank[dir[n]] \in Nat
          BY <2>1 DEF PublicationInv, PublicationTypeOK
        <5>3. QED
          BY <4>1, <4>3, <5>1, <5>2
      <4>6. QED
        BY <4>4, <4>5
    <3>2. QED
      BY <2>2, <2>3, <3>1 DEF DiskBehind
  <2>14. CheckedInputs'
    <3>1. ASSUME NEW q \in Runs, pc'[q] \notin {"check", "done", "failed"},
                 NEW i \in DOMAIN Inputs(q)
          PROVE  /\ Inputs(q)[i] # Output(q)
                 /\ dir'[Inputs(q)[i]] # Output(q)
      <4>1. pc[q] \notin {"check", "done", "failed"}
        BY <2>1, <2>2, <3>1
      <4>2. Inputs(q)[i] # Output(q) /\ dir[Inputs(q)[i]] # Output(q)
        BY <3>1, <4>1 DEF PublicationInv, CheckedInputs
      <4>3. Inputs(q)[i] \in Names /\ Output(q) # r /\ Output(q) # None
        BY <2>4, RunNames, Apart DEF PublicationInv
      <4>4. QED
        BY <2>5, <4>2, <4>3
    <3>2. QED
      BY <2>2, <2>3, <3>1 DEF CheckedInputs
  <2>15. QED
    BY <2>6, <2>7, <2>9, <2>10, <2>11, <2>12, <2>13, <2>14 DEF PublicationInv
<1>3. QED
  BY <1>1, <1>2

\* The directory on disk becomes the one the names have.
LEMMA SyncDirectoryInv ==
  ASSUME PublicationInv, (\E r \in Runs : SyncDirectory(r)) \/ WriteBack
  PROVE  PublicationInv'
<1>1. /\ disk' = dir
      /\ UNCHANGED <<job, opened, dir, whole, synced, rank>>
      /\ pc' \in [Runs -> Steps]
      /\ \A q \in Runs : pc'[q] = pc[q] \/ (pc[q] = "syncdir" /\ pc'[q] = "done")
  <2>1. pc \in [Runs -> Steps]
    BY DEF PublicationInv, PublicationTypeOK
  <2>2. ASSUME NEW r \in Runs, SyncDirectory(r)
        PROVE  /\ pc' \in [Runs -> Steps]
               /\ \A q \in Runs : pc'[q] = pc[q] \/ (pc[q] = "syncdir" /\ pc'[q] = "done")
    <3>1. pc[r] = "syncdir" /\ pc' = [pc EXCEPT ![r] = "done"]
      BY <2>2 DEF SyncDirectory
    <3>2. "done" \in Steps
      BY DEF Steps
    <3>3. QED
      BY <2>1, <3>1, <3>2
  <2>3. CASE WriteBack
    BY <2>1, <2>3 DEF WriteBack
  <2>4. CASE \E r \in Runs : SyncDirectory(r)
    <3>1. /\ disk' = dir
          /\ UNCHANGED <<job, opened, dir, whole, synced, rank>>
      BY <2>4 DEF SyncDirectory, WrittenBack
    <3>2. QED
      BY <2>2, <2>4, <3>1
  <2>5. QED
    BY <2>3, <2>4
<1>2. /\ Protected' = Protected
      /\ \A q : Output(q)' = Output(q) /\ Partial(q)' = Partial(q) /\ Inputs(q)' = Inputs(q)
  BY <1>1, SameJobs
<1>3. PublicationTypeOK' /\ OutputsWhole'
  BY <1>1 DEF PublicationInv, PublicationTypeOK, OutputsWhole
<1>4. InputsWhole'
  BY <1>1, <1>2 DEF PublicationInv, InputsWhole
<1>5. SuccessIsDurable'
  BY <1>1, <1>2 DEF PublicationInv, SuccessIsDurable, Progress
<1>6. PartialOwned'
  BY <1>1, <1>2 DEF PublicationInv, PartialOwned, Writing
<1>7. LinksHeld' /\ Progress'
  BY <1>1, <1>2 DEF PublicationInv, LinksHeld, Progress
<1>8. DiskBehind'
  <2>1. \A f \in Files : rank[f] \in Nat
    BY DEF PublicationInv, PublicationTypeOK
  <2>2. QED
    BY <1>1, <1>2, <2>1 DEF PublicationInv, DiskBehind
<1>9. CheckedInputs'
  BY <1>1, <1>2 DEF PublicationInv, CheckedInputs
<1>10. QED
  BY <1>3, <1>4, <1>5, <1>6, <1>7, <1>8, <1>9 DEF PublicationInv

LEMMA DiscardInv == ASSUME PublicationInv, NEW m \in Partials, Discard(m) PROVE PublicationInv'
<1>1. /\ UNCHANGED <<job, pc, opened, disk, whole, synced, rank>>
      /\ dir' = [dir EXCEPT ![m] = None]
      /\ \A r \in Runs : Partial(r) = m => ~Writing(r)
  BY DEF Discard
<1>2. /\ Protected' = Protected
      /\ \A q : Output(q)' = Output(q) /\ Partial(q)' = Partial(q) /\ Inputs(q)' = Inputs(q)
      /\ \A q : Writing(q)' <=> Writing(q)
  BY <1>1, SameJobs DEF Writing
<1>3. /\ dir' \in [Names -> Entries]
      /\ dir'[m] = None
      /\ \A n \in Names \ {m} : dir'[n] = dir[n]
  BY <1>1, PartialsAreNames DEF PublicationInv, PublicationTypeOK, Entries
<1>4. \A q \in Runs : Output(q) \in Names \ Partials /\ Partial(q) \in Names
  BY RunNames DEF PublicationInv
<1>5. PublicationTypeOK'
  BY <1>1, <1>3 DEF PublicationInv, PublicationTypeOK
<1>6. OutputsWhole' /\ InputsWhole'
  BY <1>1, <1>2, <1>3 DEF PublicationInv, OutputsWhole, InputsWhole
<1>7. SuccessIsDurable' /\ Progress'
  BY <1>1, <1>2, <1>3, <1>4 DEF PublicationInv, SuccessIsDurable, Progress
<1>8. PartialOwned'
  BY <1>1, <1>2, <1>3, <1>4 DEF PublicationInv, PartialOwned
<1>9. LinksHeld'
  BY <1>1, <1>3, Apart DEF PublicationInv, LinksHeld
<1>10. DiskBehind'
  BY <1>1, <1>2, <1>3 DEF PublicationInv, DiskBehind
<1>11. CheckedInputs'
  <2>1. ASSUME NEW q \in Runs, pc[q] \notin {"check", "done", "failed"},
               NEW i \in DOMAIN Inputs(q)
        PROVE  /\ Inputs(q)[i] # Output(q)
               /\ dir'[Inputs(q)[i]] # Output(q)
    <3>1. Inputs(q)[i] \in Names /\ Output(q) # None
      BY <1>4, RunNames, Apart DEF PublicationInv
    <3>2. QED
      BY <1>3, <2>1, <3>1 DEF PublicationInv, CheckedInputs
  <2>2. QED
    BY <1>1, <1>2, <2>1 DEF CheckedInputs
<1>12. QED
  BY <1>5, <1>6, <1>7, <1>8, <1>9, <1>10, <1>11 DEF PublicationInv

LEMMA PowerLossInv == ASSUME PublicationInv, PowerLoss PROVE PublicationInv'
<1>1. /\ UNCHANGED <<job, opened, disk, synced, rank>>
      /\ dir' = disk
      /\ whole' = whole \cap synced
      /\ pc' \in [Runs -> Steps]
      /\ \A q \in Runs : pc'[q] = "failed" \/ (pc'[q] = "done" /\ pc[q] = "done")
  <2>1. pc' = [q \in Runs |-> IF pc[q] = "done" THEN "done" ELSE "failed"]
    BY DEF PowerLoss
  <2>2. /\ pc' \in [Runs -> Steps]
        /\ \A q \in Runs : pc'[q] = "failed" \/ (pc'[q] = "done" /\ pc[q] = "done")
    <3>1. "done" \in Steps /\ "failed" \in Steps
      BY DEF Steps
    <3>2. QED
      BY <2>1, <3>1
  <2>3. QED
    BY <2>2 DEF PowerLoss
<1>2. /\ Protected' = Protected
      /\ \A q : Output(q)' = Output(q) /\ Partial(q)' = Partial(q) /\ Inputs(q)' = Inputs(q)
  BY <1>1, SameJobs
<1>3. whole' \cap synced' = whole \cap synced /\ synced' \subseteq whole'
  BY <1>1 DEF PublicationInv, Progress
<1>4. PublicationTypeOK'
  BY <1>1 DEF PublicationInv, PublicationTypeOK
<1>5. OutputsWhole'
  BY <1>1, <1>3 DEF PublicationInv, OutputsWhole
<1>6. InputsWhole'
  BY <1>1, <1>2, <1>3 DEF PublicationInv, InputsWhole
<1>7. SuccessIsDurable'
  BY <1>1, <1>2 DEF PublicationInv, SuccessIsDurable
<1>8. PartialOwned' /\ CheckedInputs'
  BY <1>1 DEF PartialOwned, Writing, CheckedInputs
<1>9. LinksHeld'
  BY <1>1 DEF PublicationInv, LinksHeld
<1>10. Progress'
  BY <1>1, <1>2, <1>3 DEF PublicationInv, Progress
<1>11. DiskBehind'
  <2>1. \A f \in Files : rank[f] \in Nat
    BY DEF PublicationInv, PublicationTypeOK
  <2>2. QED
    BY <1>1, <1>2, <2>1 DEF DiskBehind
<1>12. QED
  BY <1>4, <1>5, <1>6, <1>7, <1>8, <1>9, <1>10, <1>11 DEF PublicationInv

LEMMA PublicationStutterInv == ASSUME PublicationInv, UNCHANGED publicationVars PROVE PublicationInv'
<1>1. UNCHANGED <<job, pc, opened, dir, disk, whole, synced, rank>>
  BY DEF publicationVars
<1>2. /\ Protected' = Protected
      /\ \A q : Output(q)' = Output(q) /\ Partial(q)' = Partial(q) /\ Inputs(q)' = Inputs(q)
      /\ \A q : Writing(q)' <=> Writing(q)
  BY <1>1, SameJobs DEF Writing
<1>3. PublicationTypeOK' /\ OutputsWhole' /\ InputsWhole'
  BY <1>1, <1>2 DEF PublicationInv, PublicationTypeOK, OutputsWhole, InputsWhole
<1>4. SuccessIsDurable' /\ PartialOwned' /\ LinksHeld'
  BY <1>1, <1>2 DEF PublicationInv, SuccessIsDurable, PartialOwned, LinksHeld
<1>5. Progress' /\ DiskBehind' /\ CheckedInputs'
  BY <1>1, <1>2 DEF PublicationInv, Progress, DiskBehind, CheckedInputs
<1>6. QED
  BY <1>3, <1>4, <1>5 DEF PublicationInv

\* PublicationInv: a run's partial file is its own until it is moved into place, only whole
\* and synced files are, and the directory on disk is one the names had
\* (file.rs, transform; collection.rs, new_for_path and finish_to_path).
THEOREM PublicationInvariant == PublicationSpec => []PublicationInv
<1>1. PublicationInv /\ [PublicationNext]_publicationVars => PublicationInv'
  BY CheckInv, OpenInv, CreateInv, FileInv, RenameInv, SyncDirectoryInv, DiscardInv,
     PowerLossInv, PublicationStutterInv DEF PublicationNext, RunStep
<1>2. QED
  BY <1>1, PublicationInitInv, PTL DEF PublicationSpec

\* OutputsWhole: whatever runs do at the same time, and wherever they or the power
\* fail, no output is ever half written (file.rs, transform).
THEOREM OutputsAreWhole == PublicationSpec => []OutputsWhole
<1>1. PublicationInv => OutputsWhole
  BY DEF PublicationInv
<1>2. QED
  BY <1>1, PublicationInvariant, PTL

\* InputsWhole: a run reads whole files, also of names that other runs replace
\* (file.rs, transform).
THEOREM InputsAreWhole == PublicationSpec => []InputsWhole
<1>1. PublicationInv => InputsWhole
  BY DEF PublicationInv
<1>2. QED
  BY <1>1, PublicationInvariant, PTL

\* SuccessIsDurable: what a run that returned success published, or what was
\* published after it, survives a power failure (file.rs, transform).
THEOREM SuccessSurvives == PublicationSpec => []SuccessIsDurable
<1>1. PublicationInv => SuccessIsDurable
  BY DEF PublicationInv
<1>2. QED
  BY <1>1, PublicationInvariant, PTL

\* ArchivesNotReplaced: an archive on disk is never replaced by another collection
\* (collection.rs, finish_to_path).
THEOREM ArchivesStay == PublicationSpec => ArchivesNotReplaced
<1>1. ASSUME PublicationInv, [PublicationNext]_publicationVars,
             NEW n \in Protected, disk[n] # None
      PROVE  disk'[n] = disk[n]
  <2>1. disk' \in {disk, dir}
    BY <1>1 DEF PublicationNext, RunStep, Check, Open, Create, Write, Sync, Rename, SyncDirectory, WrittenBack,
                Fail, Discard, WriteBack, PowerLoss, publicationVars
  <2>2. dir[n] = disk[n]
    BY <1>1 DEF PublicationInv, DiskBehind, Protected
  <2>3. QED
    BY <2>1, <2>2
<1>2. PublicationInv /\ [PublicationNext]_publicationVars =>
        [\A n \in Protected : disk[n] # None => disk'[n] = disk[n]]_publicationVars
  BY <1>1
<1>3. QED
  BY <1>2, PublicationInvariant, PTL DEF PublicationSpec, ArchivesNotReplaced

\* OwnInputsKept: a run never replaces one of its own inputs, whatever other name
\* it has (file.rs, transform and is_same_file).
THEOREM OwnInputsStay == PublicationSpec => OwnInputsKept
<1>1. ASSUME PublicationInv, [PublicationNext]_publicationVars, NEW r \in Runs, pc[r] = "rename", pc'[r] = "syncdir",
             NEW i \in DOMAIN Inputs(r), Inputs(r)[i] \notin Partials
      PROVE  Resolved(Inputs(r)[i])' = Resolved(Inputs(r)[i])
  <2> DEFINE n == Inputs(r)[i]
             c == Canonical(n)
  <2>1. Rename(r)
    <3>1. PICK q \in Runs : RunStep(q) /\ pc'[r] # pc[r]
      BY <1>1 DEF PublicationNext, publicationVars, Discard, WriteBack, PowerLoss
    <3>2. pc \in [Runs -> Steps]
      BY <1>1 DEF PublicationInv, PublicationTypeOK
    <3>3. q = r
      BY <3>1, <3>2 DEF RunStep, Check, Open, Create, Write, Sync, Rename, SyncDirectory, Fail
    <3>4. QED
      BY <1>1, <3>1, <3>2, <3>3 DEF RunStep, Check, Open, Create, Write, Sync, SyncDirectory, Fail
  <2>2. \A m \in Names \ {Output(r), Partial(r)} : dir'[m] = dir[m]
    BY <1>1, <2>1, RenameEffect
  <2>3. n \in Names /\ n # Output(r) /\ n \notin Partials /\ Partial(r) \in Partials
    BY <1>1, RunNames DEF PublicationInv, CheckedInputs
  <2>4. dir[n] # Output(r)
    BY <1>1 DEF PublicationInv, CheckedInputs
  <2>5. dir'[n] = dir[n]
    BY <2>2, <2>3
  <2>6. c \in Names \ {Output(r), Partial(r)}
    <3>1. c \in Names /\ c # Output(r) /\ c \notin Partials
      BY <1>1, <2>3, <2>4 DEF PublicationInv, LinksHeld, Canonical
    <3>2. QED
      BY <2>3, <3>1
  <2>7. Inputs(r)' = Inputs(r)
    BY <2>1, SameJobs DEF Rename
  <2>8. Resolved(n)' = dir'[c]
    BY <2>5, <2>7 DEF Resolved, Canonical
  <2>9. QED
    BY <2>2, <2>6, <2>8 DEF Resolved
<1>2. PublicationInv /\ [PublicationNext]_publicationVars =>
        [\A r \in Runs : pc[r] = "rename" /\ pc'[r] = "syncdir" =>
            \A i \in DOMAIN Inputs(r) :
                Inputs(r)[i] \notin Partials =>
                    Resolved(Inputs(r)[i])' = Resolved(Inputs(r)[i])]_publicationVars
  BY <1>1
<1>3. QED
  BY <1>2, PublicationInvariant, PTL DEF PublicationSpec, OwnInputsKept

\* NothingTakenAway: no publication replaces an archive on disk or its own input
\* (file.rs, transform; collection.rs, finish_to_path).
THEOREM NothingIsTakenAway == PublicationSpec => NothingTakenAway
<1>. QED
  BY ArchivesStay, OwnInputsStay DEF NothingTakenAway

-----------------------------------------------------------------------------
(* The writer.                                                             *)

LEMMA UnitsOfRecord ==
  ASSUME NEW n \in Nat, NEW record \in StoredRecords, gzip \in BOOLEAN
  PROVE  LET units == UnitsOf(n, record)
         IN  /\ units \in Seq(Units)
             /\ \A k \in DOMAIN units : units[k][1] = n
             /\ \A i \in 1 .. record.size : \E k \in DOMAIN units : units[k] = <<n, i>>
<1> DEFINE plain == [i \in 1 .. record.size |-> <<n, i>>]
           first == <<<<n, 0>>>>
           last == <<Trailer(n, record)>>
<1>1. record.size \in Nat
  BY WriterAssumption
<1>2. /\ plain \in Seq(Units) /\ Len(plain) = record.size /\ DOMAIN plain = 1 .. record.size
      /\ \A i \in 1 .. record.size : plain[i] = <<n, i>>
  BY <1>1 DEF Units
<1>3. /\ first \in Seq(Units) /\ Len(first) = 1 /\ first[1] = <<n, 0>>
      /\ last \in Seq(Units) /\ Len(last) = 1 /\ last[1] = <<n, record.size + 1>>
  BY <1>1 DEF Units, Trailer
<1>4. UnitsOf(n, record) = IF gzip THEN first \o plain \o last ELSE plain
  BY DEF UnitsOf
<1> HIDE DEF plain, first, last
<1>5. /\ first \o plain \in Seq(Units) /\ Len(first \o plain) = 1 + record.size
      /\ \A k \in 1 .. 1 + record.size :
           (first \o plain)[k] = IF k <= 1 THEN first[k] ELSE plain[k - 1]
  <2>1. /\ first \o plain \in Seq(Units) /\ Len(first \o plain) = Len(first) + Len(plain)
        /\ \A k \in 1 .. Len(first) + Len(plain) :
             (first \o plain)[k] = IF k <= Len(first) THEN first[k] ELSE plain[k - Len(first)]
    BY <1>2, <1>3, ConcatProperties
  <2>2. QED
    BY <1>2, <1>3, <2>1
<1>6. /\ first \o plain \o last \in Seq(Units) /\ Len(first \o plain \o last) = 2 + record.size
      /\ \A k \in 1 .. 2 + record.size :
           (first \o plain \o last)[k] =
             IF k <= 1 + record.size THEN (first \o plain)[k] ELSE last[k - (1 + record.size)]
  <2> DEFINE most == first \o plain
  <2>1. most \in Seq(Units) /\ Len(most) = 1 + record.size
    BY <1>5
  <2> HIDE DEF most
  <2>2. /\ most \o last \in Seq(Units) /\ Len(most \o last) = Len(most) + Len(last)
        /\ \A k \in 1 .. Len(most) + Len(last) :
             (most \o last)[k] = IF k <= Len(most) THEN most[k] ELSE last[k - Len(most)]
    BY <1>3, <2>1, ConcatProperties
  <2>3. Len(most) + Len(last) = 2 + record.size
    BY <1>1, <1>3, <2>1
  <2>4. QED
    BY <2>1, <2>2, <2>3 DEF most
<1>7. CASE ~gzip
  <2>1. UnitsOf(n, record) = plain
    BY <1>4, <1>7
  <2>2. \A k \in DOMAIN plain : plain[k][1] = n
    BY <1>2
  <2>3. QED
    BY <1>2, <2>1, <2>2
<1>8. CASE gzip
  <2> DEFINE most == first \o plain
             units == most \o last
  <2>1. units \in Seq(Units) /\ DOMAIN units = 1 .. 2 + record.size /\ units = UnitsOf(n, record)
    BY <1>1, <1>4, <1>6, <1>8, LenProperties
  <2>2. /\ \A k \in 1 .. 1 + record.size : units[k] = most[k]
        /\ units[2 + record.size] = last[1]
    <3>1. ASSUME NEW k \in 1 .. 1 + record.size PROVE units[k] = most[k]
      <4>1. k \in 1 .. 2 + record.size /\ k <= 1 + record.size
        BY <1>1
      <4>2. QED
        BY <1>6, <4>1
    <3>2. /\ 2 + record.size \in 1 .. 2 + record.size /\ ~(2 + record.size <= 1 + record.size)
          /\ 2 + record.size - (1 + record.size) = 1
      BY <1>1
    <3>3. units[2 + record.size] = last[2 + record.size - (1 + record.size)]
      <4>1. \A k \in 1 .. 2 + record.size :
              ~(k <= 1 + record.size) => units[k] = last[k - (1 + record.size)]
        BY <1>6
      <4> HIDE DEF units, most, last
      <4>2. QED
        BY <1>1, <3>2, <4>1
    <3>4. QED
      BY <3>1, <3>2, <3>3
  <2>3. most[1] = first[1] /\ \A i \in 1 .. record.size : most[i + 1] = plain[i]
    BY <1>1, <1>5
  <2> HIDE DEF most, units
  <2>4. \A i \in 1 .. record.size : i + 1 \in DOMAIN units /\ units[i + 1] = <<n, i>>
    <3> SUFFICES ASSUME NEW i \in 1 .. record.size
                 PROVE  i + 1 \in DOMAIN units /\ units[i + 1] = <<n, i>>
      OBVIOUS
    <3>1. i + 1 \in 1 .. 1 + record.size /\ i + 1 \in DOMAIN units
      BY <1>1, <2>1
    <3>2. units[i + 1] = plain[i]
      BY <2>2, <2>3, <3>1
    <3>3. QED
      BY <1>2, <3>1, <3>2
  <2>5. units[1] = <<n, 0>> /\ units[2 + record.size] = <<n, record.size + 1>>
    BY <1>1, <1>3, <2>2, <2>3
  <2>6. \A k \in DOMAIN units : units[k][1] = n
    <3> SUFFICES ASSUME NEW k \in DOMAIN units PROVE units[k][1] = n
      OBVIOUS
    <3>1. k = 1 \/ k = 2 + record.size \/ (k - 1 \in 1 .. record.size /\ k = (k - 1) + 1)
      BY <1>1, <2>1
    <3>2. CASE k = 1
      BY <2>5, <3>2
    <3>3. CASE k = 2 + record.size
      BY <2>5, <3>3
    <3>4. CASE k - 1 \in 1 .. record.size /\ k = (k - 1) + 1
      <4>1. units[k] = <<n, k - 1>>
        BY <2>4, <3>4
      <4>2. QED
        BY <4>1
    <3>5. QED
      BY <3>1, <3>2, <3>3, <3>4
  <2>7. QED
    BY <2>1, <2>4, <2>6
<1>9. QED
  BY <1>7, <1>8

\* A sequence is any part of its beginning and the rest.
LEMMA Parts ==
  ASSUME NEW S, NEW s \in Seq(S), NEW n \in 0 .. Len(s)
  PROVE  /\ SubSeq(s, 1, n) \in Seq(S) /\ SubSeq(s, n + 1, Len(s)) \in Seq(S)
         /\ Len(SubSeq(s, 1, n)) = n /\ Len(SubSeq(s, n + 1, Len(s))) = Len(s) - n
         /\ \A k \in 1 .. n : SubSeq(s, 1, n)[k] = s[k]
         /\ \A k \in 1 .. Len(s) - n : SubSeq(s, n + 1, Len(s))[k] = s[k + n]
         /\ SubSeq(s, 1, n) \o SubSeq(s, n + 1, Len(s)) = s
<1>1. Len(s) \in Nat /\ n \in Nat /\ n <= Len(s) /\ \A k \in 1 .. Len(s) : s[k] \in S
  BY LenProperties, ElementOfSeq
<1>2. /\ SubSeq(s, 1, n) \in Seq(S) /\ Len(SubSeq(s, 1, n)) = IF 1 <= n THEN n - 1 + 1 ELSE 0
      /\ \A k \in 1 .. n - 1 + 1 : SubSeq(s, 1, n)[k] = s[1 + k - 1]
  BY <1>1, SubSeqProperties
<1>3. /\ SubSeq(s, n + 1, Len(s)) \in Seq(S)
      /\ Len(SubSeq(s, n + 1, Len(s))) = IF n + 1 <= Len(s) THEN Len(s) - (n + 1) + 1 ELSE 0
      /\ \A k \in 1 .. Len(s) - (n + 1) + 1 : SubSeq(s, n + 1, Len(s))[k] = s[n + 1 + k - 1]
  <2>1. n + 1 \in Int /\ Len(s) \in Int /\ \A k \in n + 1 .. Len(s) : s[k] \in S
    BY <1>1
  <2> HIDE DEF Seq
  <2>2. QED
    BY <2>1, SubSeqProperties
<1>4. SubSeq(s, 1, n) \o SubSeq(s, n + 1, Len(s)) = SubSeq(s, 1, Len(s))
  <2>1. /\ 1 \in 1 .. Len(s) + 1 /\ n \in 1 - 1 .. Len(s) /\ Len(s) \in n .. Len(s)
    BY <1>1
  <2>2. QED
    BY <2>1, ConcatAdjacentSubSeq
<1>5. SubSeq(s, 1, Len(s)) = s
  BY SubSeqFull
<1>6. Len(SubSeq(s, 1, n)) = n /\ \A k \in 1 .. n : SubSeq(s, 1, n)[k] = s[k]
  BY <1>1, <1>2
<1>7. Len(SubSeq(s, n + 1, Len(s))) = Len(s) - n
  BY <1>1, <1>3
<1>8. ASSUME NEW k \in 1 .. Len(s) - n PROVE SubSeq(s, n + 1, Len(s))[k] = s[k + n]
  <2>1. k \in 1 .. Len(s) - (n + 1) + 1 /\ n + 1 + k - 1 = k + n
    BY <1>1
  <2>2. QED
    BY <1>3, <2>1
<1>9. QED
  BY <1>2, <1>3, <1>4, <1>5, <1>6, <1>7, <1>8

\* What a sink holds already stays where it is.
LEMMA HeldStays ==
  ASSUME NEW S, NEW s \in Seq(S), NEW t \in Seq(S),
         NEW m \in Nat, NEW n \in Nat, m + n <= Len(s)
  PROVE  SubSeq(s \o t, m + 1, m + n) = SubSeq(s, m + 1, m + n)
<1>1. CASE n = 0
  BY <1>1, SubSeqEmpty
<1>2. CASE n # 0
  <2>1. m + 1 \in 1 .. Len(s) /\ m + n \in 1 .. Len(s)
    BY <1>2, LenProperties
  <2>2. QED
    BY <2>1, SubSeqOfConcat1
<1>3. QED
  BY <1>1, <1>2

LEMMA WriterInitInv == WriterInit => WriterInv
<1> SUFFICES ASSUME WriterInit PROVE WriterInv
  OBVIOUS
<1>1. CASE sink = << >> /\ position = 0
  <2>1. WriterTypeOK
    BY <1>1 DEF WriterInit, WriterTypeOK
  <2>2. QED
    BY <1>1, <2>1 DEF WriterInit, WriterInv, Tapped, BehindPosition, WrittenFramesExact, Idle
<1>2. CASE sink = << <<0, 1>>, <<0, 2>> >> /\ position = 2
  <2>1. sink \in Seq(Units) /\ Len(sink) = 2 /\ \A k \in DOMAIN sink : sink[k][1] = 0 /\ k <= 2
    BY <1>2 DEF Units
  <2>2. stored = << >> /\ store = << >> /\ Len(stored) = 0 /\ DOMAIN stored = {}
    BY DEF WriterInit
  <2>3. WriterTypeOK
    BY <1>2, <2>1 DEF WriterInit, WriterTypeOK
  <2>4. BehindPosition
    BY <1>2, <2>1, <2>2 DEF BehindPosition
  <2>5. QED
    BY <1>2, <2>1, <2>2, <2>3, <2>4 DEF WriterInv, Tapped, WrittenFramesExact, Idle
<1>3. QED
  BY <1>1, <1>2 DEF WriterInit

LEMMA WriterStutterInv ==
  ASSUME WriterInv, UNCHANGED writerVars
  PROVE  WriterInv'
<1>1. UNCHANGED <<sink, position, gzip, store, stored, failures>>
  BY DEF writerVars
<1>2. WriterTypeOK' /\ Tapped' /\ BehindPosition'
  BY <1>1 DEF WriterInv, WriterTypeOK, Tapped, BehindPosition, Idle, UnitsOf, Trailer
<1>3. WrittenFramesExact'
  BY <1>1 DEF WriterInv, WrittenFramesExact, FrameExact, HeldIn, Idle
<1>4. QED
  BY <1>2, <1>3 DEF WriterInv

\* A record refused leaves nothing; one begun has nothing behind it yet.
LEMMA WriteRecordInv ==
  ASSUME WriterInv, WriteRecord
  PROVE  WriterInv'
<1> DEFINE n == Len(stored) + 1
<1>1. /\ sink \in Seq(Units) /\ position \in Nat /\ gzip \in BOOLEAN /\ failures \in Nat
      /\ Len(stored) \in Nat /\ Len(sink) \in Nat /\ DOMAIN stored = 1 .. Len(stored)
      /\ DOMAIN sink = 1 .. Len(sink)
      /\ store = << >> /\ position = Len(sink)
      /\ stored \in Seq([record : StoredRecords, frame : Seq(Frames)])
  BY DEF WriteRecord, WriterInv, WriterTypeOK, BehindPosition, Idle
<1>2. UNCHANGED <<sink, position, gzip, failures>>
  BY DEF WriteRecord
<1>3. \A k \in DOMAIN sink : sink[k][1] <= Len(stored) /\ sink[k] \in Units
  BY <1>1 DEF WriterInv, BehindPosition
<1>4. \A k \in DOMAIN sink : sink[k][1] # n
  BY <1>1, <1>3 DEF Units
<1>5. PICK record \in StoredRecords :
        \/ Begin(record) /\ UNCHANGED stored
        \/ /\ ~record.valid
           /\ stored' = Append(stored, [record |-> record, frame |-> << >>])
           /\ UNCHANGED store
  BY DEF WriteRecord
<1>6. CASE Begin(record) /\ UNCHANGED stored
  <2> DEFINE s == [record |-> record, todo |-> UnitsOf(n, record), tapped |-> << >>,
                   failed |-> FALSE, closing |-> FALSE]
             units == UnitsOf(n, record)
  <2>1. n \in Nat /\ record.valid /\ store' = <<s>>
    BY <1>1, <1>6 DEF Begin
  <2>2. units \in Seq(Units) /\ \A k \in DOMAIN units : units[k][1] = n
    BY <1>1, <2>1, UnitsOfRecord
  <2>3. \A m : UnitsOf(m, record)' = UnitsOf(m, record)
    BY <1>2 DEF UnitsOf, Trailer
  <2> HIDE DEF units
  <2>4. s \in Stores /\ << >> \in Seq(Units)
    BY <2>2 DEF Stores, units
  <2>5. ~Idle' /\ store'[1] = s /\ Len(store') = 1 /\ store' \in Seq(Stores)
    <3> HIDE DEF s
    <3>1. QED
      BY <2>1, <2>4 DEF Idle
  <2>6. WriterTypeOK'
    BY <1>1, <1>2, <1>6, <2>5 DEF WriterTypeOK
  <2>7. Tapped'
    <3>1. SubSeq(sink, position + 1, Len(sink)) = << >>
      BY <1>1, SubSeqEmpty
    <3>2. << >> \o units = units
      BY <2>2, ConcatEmptySeq
    <3>3. s.record = record /\ s.todo = units /\ s.tapped = << >>
      BY DEF units
    <3>4. Len(stored') + 1 = n /\ UNCHANGED <<sink, position>>
      BY <1>2, <1>6
    <3>5. UnitsOf(n, record) = units
      BY DEF units
    <3> HIDE DEF s, n
    <3>6. QED
      BY <2>1, <2>2, <2>3, <2>5, <3>1, <3>2, <3>3, <3>4, <3>5 DEF Tapped
  <2>8. BehindPosition'
    BY <1>1, <1>2, <1>6, <2>5 DEF BehindPosition, WriterInv
  <2>9. WrittenFramesExact'
    <3>1. \A m, f : FrameExact(m, f)' <=> FrameExact(m, f)
      BY <1>2, <1>6 DEF FrameExact, HeldIn
    <3>2. QED
      BY <1>2, <1>6, <2>5, <3>1 DEF WriterInv, WrittenFramesExact
  <2>10. QED
    BY <2>6, <2>7, <2>8, <2>9 DEF WriterInv
<1>7. CASE /\ ~record.valid
           /\ stored' = Append(stored, [record |-> record, frame |-> << >>])
           /\ UNCHANGED store
  <2> DEFINE e == [record |-> record, frame |-> << >>]
  <2>1. e \in [record : StoredRecords, frame : Seq(Frames)] /\ e.frame = << >> /\ ~e.record.valid
    BY <1>7
  <2>2. stored' = Append(stored, e) /\ UNCHANGED store
    BY <1>7
  <2> HIDE DEF e
  <2>3. /\ stored' \in Seq([record : StoredRecords, frame : Seq(Frames)])
        /\ Len(stored') = n /\ DOMAIN stored' = 1 .. n
        /\ \A m \in DOMAIN stored : stored'[m] = stored[m]
        /\ stored'[n] = e
    BY <1>1, <2>1, <2>2, AppendProperties
  <2>4. \A m \in DOMAIN stored' : m \in DOMAIN stored \/ m = n
    BY <1>1, <2>3
  <2>5. Idle' /\ Idle
    BY <1>1, <2>2 DEF Idle
  <2>6. WriterTypeOK'
    BY <1>1, <1>2, <2>2, <2>3 DEF WriterTypeOK
  <2>7. Tapped'
    BY <2>5 DEF Tapped
  <2>8. BehindPosition'
    <3>1. \A k \in DOMAIN sink : k <= position /\ sink[k][1] <= Len(stored')
      BY <1>1, <1>3, <2>3 DEF Units
    <3>2. \A m \in DOMAIN stored' : stored'[m].frame # << >> =>
            stored'[m].frame[1].offset + stored'[m].frame[1].length <= position
      BY <2>1, <2>3, <2>4 DEF WriterInv, BehindPosition
    <3>3. QED
      BY <1>1, <1>2, <3>1, <3>2 DEF BehindPosition
  <2>9. WrittenFramesExact'
    <3>1. ASSUME NEW m \in DOMAIN stored, stored[m].frame # << >>
          PROVE  FrameExact(m, stored[m].frame[1])'
      <4>1. FrameExact(m, stored[m].frame[1])
        BY <3>1 DEF WriterInv, WrittenFramesExact
      <4>2. QED
        BY <1>2, <2>3, <4>1 DEF FrameExact, HeldIn
    <3>2. QED
      BY <1>1, <1>2, <1>4, <2>1, <2>3, <2>4, <3>1 DEF WriterInv, WrittenFramesExact
  <2>10. QED
    BY <2>6, <2>7, <2>8, <2>9 DEF WriterInv
<1>8. QED
  BY <1>5, <1>6, <1>7

LEMMA PartsOfOne ==
  ASSUME NEW s \in Seq(Units), NEW n, \A k \in DOMAIN s : s[k][1] = n, NEW l \in 0 .. Len(s)
  PROVE  /\ \A k \in DOMAIN SubSeq(s, 1, l) : SubSeq(s, 1, l)[k][1] = n
         /\ \A k \in DOMAIN SubSeq(s, l + 1, Len(s)) : SubSeq(s, l + 1, Len(s))[k][1] = n
<1>1. DOMAIN s = 1 .. Len(s) /\ Len(s) \in Nat /\ l \in Nat /\ l <= Len(s)
  BY LenProperties
<1>2. /\ SubSeq(s, 1, l) \in Seq(Units) /\ SubSeq(s, l + 1, Len(s)) \in Seq(Units)
      /\ Len(SubSeq(s, 1, l)) = l /\ Len(SubSeq(s, l + 1, Len(s))) = Len(s) - l
      /\ \A k \in 1 .. l : SubSeq(s, 1, l)[k] = s[k]
      /\ \A k \in 1 .. Len(s) - l : SubSeq(s, l + 1, Len(s))[k] = s[k + l]
  BY Parts
<1>3. DOMAIN SubSeq(s, 1, l) = 1 .. l /\ DOMAIN SubSeq(s, l + 1, Len(s)) = 1 .. Len(s) - l
  BY <1>2, LenProperties
<1>4. ASSUME NEW k \in 1 .. l PROVE SubSeq(s, 1, l)[k][1] = n
  <2>1. k \in DOMAIN s
    BY <1>1
  <2>2. SubSeq(s, 1, l)[k] = s[k]
    BY <1>2
  <2>3. QED
    BY <2>1, <2>2
<1>5. ASSUME NEW k \in 1 .. Len(s) - l PROVE SubSeq(s, l + 1, Len(s))[k][1] = n
  <2>1. k + l \in DOMAIN s
    BY <1>1
  <2>2. SubSeq(s, l + 1, Len(s))[k] = s[k + l]
    BY <1>2
  <2>3. QED
    BY <2>1, <2>2
<1>6. QED
  BY <1>3, <1>4, <1>5

\* What follows is after what was there, and the rest from any place with it.
LEMMA Grows ==
  ASSUME NEW S, NEW s \in Seq(S), NEW t \in Seq(S)
  PROVE  /\ s \o t \in Seq(S) /\ Len(s \o t) = Len(s) + Len(t)
         /\ DOMAIN s \subseteq DOMAIN (s \o t)
         /\ \A k \in DOMAIN s : (s \o t)[k] = s[k]
         /\ \A k \in DOMAIN (s \o t) \ DOMAIN s :
              k > Len(s) /\ k - Len(s) \in DOMAIN t /\ (s \o t)[k] = t[k - Len(s)]
<1>1. /\ s \o t \in Seq(S) /\ Len(s \o t) = Len(s) + Len(t)
      /\ \A k \in 1 .. Len(s) + Len(t) :
           (s \o t)[k] = IF k <= Len(s) THEN s[k] ELSE t[k - Len(s)]
  BY ConcatProperties
<1>2. /\ Len(s) \in Nat /\ DOMAIN s = 1 .. Len(s) /\ Len(t) \in Nat /\ DOMAIN t = 1 .. Len(t)
      /\ DOMAIN (s \o t) = 1 .. Len(s) + Len(t)
  BY <1>1, LenProperties
<1> DEFINE both == s \o t
<1> HIDE DEF both
<1>3. ASSUME NEW k \in DOMAIN s PROVE k \in 1 .. Len(s) + Len(t) /\ k <= Len(s)
  BY <1>2
<1>4. ASSUME NEW k \in 1 .. Len(s) + Len(t), k \notin DOMAIN s
      PROVE  k > Len(s) /\ k - Len(s) \in DOMAIN t /\ ~(k <= Len(s))
  BY <1>2, <1>4
<1>5. QED
  BY <1>1, <1>2, <1>3, <1>4

LEMMA RestGrows ==
  ASSUME NEW S, NEW s \in Seq(S), NEW t \in Seq(S), NEW n \in 0 .. Len(s)
  PROVE  SubSeq(s \o t, n + 1, Len(s \o t)) = SubSeq(s, n + 1, Len(s)) \o t
<1> DEFINE both == s \o t
           rest == SubSeq(s, n + 1, Len(s))
           new == SubSeq(both, n + 1, Len(both))
<1>1. /\ Len(s) \in Nat /\ Len(t) \in Nat /\ n \in Nat /\ n <= Len(s)
  BY LenProperties
<1>2. /\ both \in Seq(S) /\ Len(both) = Len(s) + Len(t)
      /\ \A k \in 1 .. Len(s) + Len(t) : both[k] = IF k <= Len(s) THEN s[k] ELSE t[k - Len(s)]
  BY ConcatProperties
<1>3. /\ rest \in Seq(S) /\ Len(rest) = Len(s) - n
      /\ \A k \in 1 .. Len(s) - n : rest[k] = s[k + n]
  BY Parts
<1> HIDE DEF both, rest
<1>4. n \in 0 .. Len(both)
  BY <1>1, <1>2
<1>5. /\ new \in Seq(S) /\ Len(new) = Len(both) - n
      /\ \A k \in 1 .. Len(both) - n : new[k] = both[k + n]
  BY <1>2, <1>4, Parts
<1> HIDE DEF new
<1>6. /\ rest \o t \in Seq(S) /\ Len(rest \o t) = Len(rest) + Len(t)
      /\ \A k \in 1 .. Len(rest) + Len(t) :
           (rest \o t)[k] = IF k <= Len(rest) THEN rest[k] ELSE t[k - Len(rest)]
  BY <1>3, ConcatProperties
<1>7. Len(new) = Len(rest \o t)
  BY <1>1, <1>2, <1>3, <1>5, <1>6
<1>8. ASSUME NEW k \in 1 .. Len(new) PROVE new[k] = (rest \o t)[k]
  <2>1. k \in 1 .. Len(both) - n /\ k \in 1 .. Len(rest) + Len(t) /\ k + n \in 1 .. Len(s) + Len(t)
    BY <1>1, <1>2, <1>3, <1>5, <1>6
  <2>2. new[k] = IF k + n <= Len(s) THEN s[k + n] ELSE t[k + n - Len(s)]
    BY <1>2, <1>5, <2>1
  <2>3. CASE k <= Len(rest)
    <3>1. k + n <= Len(s) /\ k \in 1 .. Len(s) - n
      BY <1>1, <1>3, <2>1, <2>3
    <3>2. QED
      BY <1>3, <1>6, <2>1, <2>2, <2>3, <3>1
  <2>4. CASE ~(k <= Len(rest))
    <3>1. ~(k + n <= Len(s)) /\ k + n - Len(s) = k - Len(rest)
      BY <1>1, <1>3, <2>1, <2>4
    <3>2. QED
      BY <1>6, <2>1, <2>2, <2>4, <3>1
  <2>5. QED
    BY <2>3, <2>4
<1>9. new = rest \o t
  BY <1>5, <1>6, <1>7, <1>8, SeqEqual
<1>10. QED
  BY <1>9 DEF new, rest, both

\* The write in progress.
LEMMA Underway ==
  ASSUME WriterInv, ~Idle
  PROVE  \E s \in Stores, n \in Nat :
           /\ s = store[1] /\ n = Len(stored) + 1 /\ store = <<s>>
           /\ n \notin DOMAIN stored
           /\ s.record \in StoredRecords /\ s.todo \in Seq(Units) /\ s.tapped \in Seq(Units)
           /\ s.failed \in BOOLEAN /\ s.closing \in BOOLEAN
           /\ s.record.valid /\ s.tapped = SubSeq(sink, position + 1, Len(sink))
           /\ \A k \in DOMAIN s.todo : s.todo[k][1] = n
           /\ ~s.failed => s.tapped \o s.todo = UnitsOf(n, s.record)
<1>1. store \in Seq(Stores) /\ Len(store) <= 1 /\ store # << >>
  BY DEF WriterInv, WriterTypeOK, Idle
<1>2. Len(store) = 1 /\ store[1] \in Stores
  <2>1. Len(store) \in Nat /\ Len(store) # 0
    BY <1>1, EmptySeq
  <2>2. ASSUME NEW l \in Nat, l # 0, l <= 1 PROVE l = 1
    BY <2>2
  <2>3. Len(store) = 1
    BY <1>1, <2>1, <2>2
  <2>4. QED
    BY <1>1, <2>3, ElementOfSeq
<1>3. store = <<store[1]>>
  BY <1>1, <1>2
<1>4. Len(stored) \in Nat /\ DOMAIN stored = 1 .. Len(stored)
  BY LenProperties DEF WriterInv, WriterTypeOK
<1>5. Len(stored) + 1 \in Nat /\ Len(stored) + 1 \notin DOMAIN stored
  BY <1>4
<1>6. PICK s \in Stores : s = store[1]
  BY <1>2
<1>7. /\ s.record \in StoredRecords /\ s.todo \in Seq(Units) /\ s.tapped \in Seq(Units)
      /\ s.failed \in BOOLEAN /\ s.closing \in BOOLEAN
  BY DEF Stores
<1>8. QED
  BY <1>3, <1>5, <1>6, <1>7 DEF WriterInv, Tapped

LEMMA WriterTypes ==
  ASSUME WriterInv
  PROVE  /\ sink \in Seq(Units) /\ Len(sink) \in Nat /\ DOMAIN sink = 1 .. Len(sink)
         /\ position \in 0 .. Len(sink) /\ gzip \in BOOLEAN /\ failures \in Nat
         /\ stored \in Seq([record : StoredRecords, frame : Seq(Frames)])
         /\ Len(stored) \in Nat /\ DOMAIN stored = 1 .. Len(stored)
BY LenProperties DEF WriterInv, WriterTypeOK, BehindPosition

\* The frames taken so far stay exact while the sink takes what belongs to no
\* write that has ended.
LEMMA FramesStay ==
  ASSUME WriterInv, NEW m \in DOMAIN stored, NEW units \in Seq(Units),
         \A k \in DOMAIN units : units[k][1] # m,
         sink' = sink \o units, stored'[m] = stored[m]
  PROVE  /\ stored[m].frame # << >> => FrameExact(m, stored[m].frame[1])'
         /\ ~stored[m].record.valid => \A k \in DOMAIN sink' : sink'[k][1] # m
<1>1. /\ sink \in Seq(Units) /\ Len(sink) \in Nat /\ DOMAIN sink = 1 .. Len(sink)
      /\ position \in 0 .. Len(sink)
      /\ stored \in Seq([record : StoredRecords, frame : Seq(Frames)])
  BY WriterTypes
<1>2. /\ DOMAIN sink \subseteq DOMAIN sink'
      /\ \A k \in DOMAIN sink : sink'[k] = sink[k]
      /\ \A k \in DOMAIN sink' \ DOMAIN sink :
           k > Len(sink) /\ k - Len(sink) \in DOMAIN units /\ sink'[k] = units[k - Len(sink)]
  BY <1>1, Grows
<1>3. \A k \in DOMAIN sink' \ DOMAIN sink : k > Len(sink) /\ sink'[k][1] # m
  BY <1>2
<1>4. ASSUME stored[m].frame # << >> PROVE FrameExact(m, stored[m].frame[1])'
  <2>1. stored[m] \in [record : StoredRecords, frame : Seq(Frames)]
    BY <1>1, ElementOfSeq, LenProperties
  <2>2. PICK f \in Frames : f = stored[m].frame[1]
    <3>1. stored[m].frame \in Seq(Frames)
      BY <2>1
    <3>2. stored[m].frame[1] \in Frames
      BY <1>4, <3>1
    <3>3. QED
      BY <3>2
  <2>3. /\ f.digest = SubSeq(sink, f.offset + 1, f.offset + f.length)
        /\ \A k \in DOMAIN sink : sink[k][1] = m <=> (f.offset < k /\ k <= f.offset + f.length)
        /\ \A i \in 1 .. stored[m].record.size :
             \E k \in DOMAIN SubSeq(sink, f.offset + 1, f.offset + f.length) :
               SubSeq(sink, f.offset + 1, f.offset + f.length)[k] = <<m, i>>
    <3>1. FrameExact(m, stored[m].frame[1])
      BY <1>4 DEF WriterInv, WrittenFramesExact
    <3>2. FrameExact(m, f)
      BY <2>2, <3>1
    <3>3. QED
      BY <3>2 DEF FrameExact, HeldIn
  <2>4. f.offset \in Nat /\ f.length \in Nat /\ f.offset + f.length <= Len(sink)
    <3>1. f.offset + f.length <= position
      BY <1>4, <2>2 DEF WriterInv, BehindPosition
    <3>2. f.offset \in Nat /\ f.length \in Nat
      BY DEF Frames
    <3>3. QED
      BY <1>1, <3>1, <3>2
  <2>5. SubSeq(sink', f.offset + 1, f.offset + f.length) = SubSeq(sink, f.offset + 1, f.offset + f.length)
    BY <1>1, <2>4, HeldStays
  <2>6. \A k \in DOMAIN sink' : sink'[k][1] = m <=> (f.offset < k /\ k <= f.offset + f.length)
    <3>1. \A k \in DOMAIN sink' \ DOMAIN sink : sink'[k][1] # m /\ ~(k <= f.offset + f.length)
      <4>1. ASSUME NEW k \in DOMAIN sink', k > Len(sink) PROVE ~(k <= f.offset + f.length)
        <5>1. k \in Nat
          <6>1. sink' \in Seq(Units)
            BY <1>1, Grows
          <6>2. QED
            BY <6>1, LenProperties
        <5>2. QED
          BY <1>1, <2>4, <4>1, <5>1
      <4>2. QED
        BY <1>3, <4>1
    <3>2. QED
      BY <1>2, <2>3, <3>1
  <2>7. FrameExact(m, f)'
    BY <2>3, <2>5, <2>6 DEF FrameExact, HeldIn
  <2>8. \A g : g = f => (FrameExact(m, g)' <=> FrameExact(m, f)')
    OBVIOUS
  <2>9. QED
    BY <2>2, <2>7
<1>5. ASSUME ~stored[m].record.valid, NEW k \in DOMAIN sink' PROVE sink'[k][1] # m
  <2>1. CASE k \in DOMAIN sink
    BY <1>2, <1>5, <2>1 DEF WriterInv, WrittenFramesExact
  <2>2. CASE k \notin DOMAIN sink
    BY <1>3, <2>2
  <2>3. QED
    BY <2>1, <2>2
<1>6. QED
  BY <1>4, <1>5

LEMMA AcceptInv ==
  ASSUME WriterInv, Accept
  PROVE  WriterInv'
<1>1. ~Idle
  BY DEF Accept
<1>2. PICK s \in Stores, n \in Nat :
        /\ s = store[1] /\ n = Len(stored) + 1 /\ store = <<s>>
        /\ n \notin DOMAIN stored
        /\ s.record \in StoredRecords /\ s.todo \in Seq(Units) /\ s.tapped \in Seq(Units)
        /\ s.failed \in BOOLEAN /\ s.closing \in BOOLEAN
        /\ s.record.valid /\ s.tapped = SubSeq(sink, position + 1, Len(sink))
        /\ \A k \in DOMAIN s.todo : s.todo[k][1] = n
        /\ ~s.failed => s.tapped \o s.todo = UnitsOf(n, s.record)
  BY <1>1, Underway
<1>3. PICK l \in DOMAIN s.todo :
        /\ sink' = sink \o SubSeq(s.todo, 1, l)
        /\ store' = [store EXCEPT ![1].todo = SubSeq(@, l + 1, Len(@)),
                                  ![1].tapped = @ \o SubSeq(s.todo, 1, l)]
  BY <1>2 DEF Accept
<1> DEFINE units == SubSeq(s.todo, 1, l)
           rest == SubSeq(s.todo, l + 1, Len(s.todo))
           t == [s EXCEPT !.todo = rest, !.tapped = s.tapped \o units]
<1>4. UNCHANGED <<position, gzip, stored, failures>>
  BY DEF Accept
<1>5. /\ units \in Seq(Units) /\ rest \in Seq(Units) /\ units \o rest = s.todo
      /\ \A k \in DOMAIN units : units[k][1] = n
      /\ \A k \in DOMAIN rest : rest[k][1] = n
  <2> DEFINE todo == s.todo
  <2>1. todo \in Seq(Units) /\ \A k \in DOMAIN todo : todo[k][1] = n
    BY <1>2
  <2>2. l \in 0 .. Len(todo)
    BY <1>3, <2>1, LenProperties
  <2> HIDE DEF todo
  <2>3. /\ SubSeq(todo, 1, l) \in Seq(Units) /\ SubSeq(todo, l + 1, Len(todo)) \in Seq(Units)
        /\ SubSeq(todo, 1, l) \o SubSeq(todo, l + 1, Len(todo)) = todo
    BY <2>1, <2>2, Parts
  <2>4. /\ \A k \in DOMAIN SubSeq(todo, 1, l) : SubSeq(todo, 1, l)[k][1] = n
        /\ \A k \in DOMAIN SubSeq(todo, l + 1, Len(todo)) : SubSeq(todo, l + 1, Len(todo))[k][1] = n
    BY <2>1, <2>2, PartsOfOne
  <2>5. QED
    BY <2>3, <2>4 DEF todo
<1>6. sink' = sink \o units
  BY <1>3
<1>7. store' = <<t>>
  BY <1>2, <1>3
<1> HIDE DEF units, rest
<1>8. /\ t \in Stores
      /\ t.record = s.record /\ t.todo = rest /\ t.tapped = s.tapped \o units
      /\ t.failed = s.failed
  <2>1. s.tapped \o units \in Seq(Units)
    BY <1>2, <1>5, ConcatProperties
  <2>2. QED
    BY <1>5, <2>1 DEF Stores
<1> HIDE DEF t
<1>9. store' \in Seq(Stores) /\ Len(store') = 1 /\ store'[1] = t /\ ~Idle'
  BY <1>7, <1>8 DEF Idle
<1>10. /\ sink \in Seq(Units) /\ Len(sink) \in Nat /\ DOMAIN sink = 1 .. Len(sink)
       /\ position \in 0 .. Len(sink)
  BY WriterTypes
<1>11. /\ sink' \in Seq(Units) /\ Len(sink') = Len(sink) + Len(units)
       /\ \A k \in DOMAIN sink : sink'[k] = sink[k]
       /\ \A k \in DOMAIN sink' \ DOMAIN sink : k > Len(sink) /\ sink'[k][1] = n
  <2>1. /\ sink' \in Seq(Units) /\ Len(sink') = Len(sink) + Len(units)
        /\ \A k \in DOMAIN sink : sink'[k] = sink[k]
        /\ \A k \in DOMAIN sink' \ DOMAIN sink :
             k > Len(sink) /\ k - Len(sink) \in DOMAIN units /\ sink'[k] = units[k - Len(sink)]
    BY <1>5, <1>6, <1>10, Grows
  <2>2. QED
    BY <1>5, <2>1
<1>12. WriterTypeOK'
  BY <1>4, <1>9, <1>11 DEF WriterInv, WriterTypeOK
<1>13. Tapped'
  <2>1. s.tapped \o units = SubSeq(sink', position + 1, Len(sink'))
    <3>1. units \in Seq(Units)
      BY <1>5
    <3>2. SubSeq(sink \o units, position + 1, Len(sink \o units))
            = SubSeq(sink, position + 1, Len(sink)) \o units
      BY <1>10, <3>1, RestGrows
    <3>3. QED
      BY <1>2, <1>6, <3>2
  <2>2. (s.tapped \o units) \o rest = s.tapped \o s.todo
    <3> DEFINE tapped == s.tapped
    <3>1. tapped \in Seq(Units)
      BY <1>2
    <3>2. units \in Seq(Units) /\ rest \in Seq(Units)
      BY <1>5
    <3> HIDE DEF tapped
    <3>3. (tapped \o units) \o rest = tapped \o (units \o rest)
      BY <3>1, <3>2, ConcatAssociative
    <3>4. QED
      BY <1>5, <3>3 DEF tapped
  <2>3. \A m, record : UnitsOf(m, record)' = UnitsOf(m, record)
    BY <1>4 DEF UnitsOf, Trailer
  <2>4. Len(stored') + 1 = n /\ position' = position /\ t.record.valid
    BY <1>2, <1>4, <1>8
  <2>5. ~t.failed => t.tapped \o t.todo = UnitsOf(n, t.record)
    BY <1>2, <1>8, <2>2
  <2>6. t.tapped = SubSeq(sink', position' + 1, Len(sink'))
    BY <1>8, <2>1, <2>4
  <2>7. \A k \in DOMAIN t.todo : t.todo[k][1] = n
    BY <1>5, <1>8
  <2>8. QED
    BY <1>9, <2>3, <2>4, <2>5, <2>6, <2>7 DEF Tapped
<1>14. BehindPosition'
  <2>1. \A k \in DOMAIN sink :
          IF k <= position THEN sink[k][1] <= Len(stored) ELSE sink[k][1] = Len(stored) + 1
    BY DEF WriterInv, BehindPosition
  <2>2. ASSUME NEW k \in DOMAIN sink' \ DOMAIN sink PROVE ~(k <= position)
    <3>1. k \in Nat /\ k > Len(sink)
      BY <1>11, LenProperties
    <3>2. QED
      BY <1>10, <3>1
  <2>3. \A k \in DOMAIN sink' :
          IF k <= position THEN sink'[k][1] <= Len(stored) ELSE sink'[k][1] = Len(stored) + 1
    BY <1>2, <1>11, <2>1, <2>2
  <2>4. position <= Len(sink')
    <3>1. Len(units) \in Nat
      BY <1>5, LenProperties
    <3>2. QED
      BY <1>10, <1>11, <3>1
  <2>5. QED
    BY <1>4, <1>9, <2>3, <2>4 DEF WriterInv, BehindPosition
<1>15. WrittenFramesExact'
  <2>1. ASSUME NEW m \in DOMAIN stored
        PROVE  /\ stored[m].frame # << >> => FrameExact(m, stored[m].frame[1])'
               /\ ~stored[m].record.valid => \A k \in DOMAIN sink' : sink'[k][1] # m
    <3>1. \A k \in DOMAIN units : units[k][1] # m
      BY <1>2, <1>5
    <3>2. QED
      BY <1>4, <1>5, <1>6, <3>1, FramesStay
  <2>2. QED
    BY <1>4, <1>9, <2>1 DEF WrittenFramesExact
<1>16. QED
  BY <1>12, <1>13, <1>14, <1>15 DEF WriterInv

\* A failure takes nothing back; at most a trailer is still to come.
LEMMA FailWriteInv ==
  ASSUME WriterInv, FailWrite
  PROVE  WriterInv'
<1>1. ~Idle
  BY DEF FailWrite
<1>2. PICK s \in Stores, n \in Nat :
        /\ s = store[1] /\ n = Len(stored) + 1 /\ store = <<s>>
        /\ n \notin DOMAIN stored
        /\ s.record \in StoredRecords /\ s.todo \in Seq(Units) /\ s.tapped \in Seq(Units)
        /\ s.failed \in BOOLEAN /\ s.closing \in BOOLEAN
        /\ s.record.valid /\ s.tapped = SubSeq(sink, position + 1, Len(sink))
        /\ \A k \in DOMAIN s.todo : s.todo[k][1] = n
        /\ ~s.failed => s.tapped \o s.todo = UnitsOf(n, s.record)
  BY <1>1, Underway
<1>3. UNCHANGED <<sink, position, gzip, stored>> /\ failures' = failures + 1
  BY DEF FailWrite
<1>4. PICK t \in Stores :
        /\ store' = <<t>>
        /\ t.record = s.record /\ t.tapped = s.tapped /\ t.failed
        /\ \A k \in DOMAIN t.todo : t.todo[k][1] = n
  <2>1. CASE gzip /\ ~s.closing
    <3>1. PICK l \in 0 .. Len(s.todo) - 1 :
            store' = [store EXCEPT ![1].todo = SubSeq(@, 1, l) \o <<Trailer(n, s.record)>>,
                                   ![1].failed = TRUE, ![1].closing = TRUE]
      <4>1. \E l \in 0 .. (Len(store[1].todo) - 1) :
              store' = [store EXCEPT ![1].todo = SubSeq(@, 1, l) \o <<Trailer(Len(stored) + 1, store[1].record)>>,
                                     ![1].failed = TRUE, ![1].closing = TRUE]
        <5>1. gzip /\ ~store[1].closing
          BY <1>2, <2>1
        <5>2. QED
          BY <5>1 DEF FailWrite
      <4>2. QED
        BY <1>2, <4>1
    <3> DEFINE begun == SubSeq(s.todo, 1, l)
               end == <<Trailer(n, s.record)>>
               todo == begun \o end
               t == [s EXCEPT !.todo = todo, !.failed = TRUE, !.closing = TRUE]
    <3>2. begun \in Seq(Units) /\ \A k \in DOMAIN begun : begun[k][1] = n
      <4>1. l \in 0 .. Len(s.todo)
        BY <1>2, LenProperties
      <4>2. QED
        BY <1>2, <4>1, Parts, PartsOfOne
    <3>3. end \in Seq(Units) /\ \A k \in DOMAIN end : end[k][1] = n
      <4>1. s.record.size \in Nat
        BY <1>2, WriterAssumption
      <4>2. QED
        BY <4>1 DEF Units, Trailer
    <3>4. store' = <<t>>
      BY <1>2, <3>1
    <3> HIDE DEF begun, end
    <3>5. todo \in Seq(Units) /\ \A k \in DOMAIN todo : todo[k][1] = n
      <4>1. /\ todo \in Seq(Units) /\ Len(todo) = Len(begun) + Len(end)
            /\ \A k \in DOMAIN begun : todo[k] = begun[k]
            /\ \A k \in DOMAIN todo \ DOMAIN begun :
                 k > Len(begun) /\ k - Len(begun) \in DOMAIN end /\ todo[k] = end[k - Len(begun)]
        BY <3>2, <3>3, Grows
      <4>2. QED
        BY <3>2, <3>3, <4>1
    <3> HIDE DEF todo
    <3>6. /\ t \in Stores
          /\ t.record = s.record /\ t.tapped = s.tapped /\ t.failed /\ t.todo = todo
      BY <3>5 DEF Stores
    <3> HIDE DEF t
    <3>7. QED
      BY <3>4, <3>5, <3>6
  <2>2. CASE ~(gzip /\ ~s.closing)
    <3> DEFINE t == [s EXCEPT !.todo = << >>, !.failed = TRUE]
    <3>1. store' = <<t>>
      <4>1. ~(gzip /\ ~store[1].closing)
        BY <1>2, <2>2
      <4>2. store' = [store EXCEPT ![1].todo = << >>, ![1].failed = TRUE]
        BY <4>1 DEF FailWrite
      <4>3. QED
        BY <1>2, <4>2
    <3>2. /\ t \in Stores
          /\ t.record = s.record /\ t.tapped = s.tapped /\ t.failed /\ t.todo = << >>
      <4> DEFINE none == << >>
                 ended == [s EXCEPT !.todo = none, !.failed = TRUE]
      <4>1. none \in Seq(Units)
        OBVIOUS
      <4>2. t = ended
        OBVIOUS
      <4> HIDE DEF none, t
      <4>3. /\ ended \in Stores
            /\ ended.record = s.record /\ ended.tapped = s.tapped /\ ended.failed
            /\ ended.todo = none
        BY <4>1 DEF Stores
      <4>4. QED
        BY <4>2, <4>3 DEF none
    <3> HIDE DEF t
    <3>3. QED
      BY <3>1, <3>2
  <2>3. QED
    BY <2>1, <2>2
<1>5. store' \in Seq(Stores) /\ Len(store') = 1 /\ store'[1] = t /\ ~Idle'
  BY <1>4 DEF Idle
<1>6. WriterTypeOK'
  BY <1>3, <1>5 DEF WriterInv, WriterTypeOK
<1>7. Tapped'
  <2>1. Len(stored') + 1 = n /\ t.record.valid
    BY <1>2, <1>3, <1>4
  <2>2. t.tapped = SubSeq(sink', position' + 1, Len(sink'))
    BY <1>2, <1>3, <1>4
  <2>3. QED
    BY <1>4, <1>5, <2>1, <2>2 DEF Tapped
<1>8. BehindPosition'
  BY <1>3, <1>5 DEF WriterInv, BehindPosition
<1>9. WrittenFramesExact'
  <2>1. \A m, f : FrameExact(m, f)' <=> FrameExact(m, f)
    BY <1>3 DEF FrameExact, HeldIn
  <2>2. QED
    BY <1>3, <1>5, <2>1 DEF WriterInv, WrittenFramesExact
<1>10. QED
  BY <1>6, <1>7, <1>8, <1>9 DEF WriterInv

\* The next write of the same file begins where the file ends.
LEMMA ReopenInv ==
  ASSUME WriterInv, Reopen
  PROVE  WriterInv'
<1>1. /\ UNCHANGED <<sink, store, stored, failures>> /\ Idle /\ Idle'
      /\ position' = Len(sink) /\ gzip' \in BOOLEAN /\ position = Len(sink)
  BY DEF Reopen, Idle, WriterInv, BehindPosition
<1>2. WriterTypeOK'
  BY <1>1 DEF WriterInv, WriterTypeOK
<1>3. Tapped'
  BY <1>1 DEF Tapped
<1>4. BehindPosition'
  BY <1>1 DEF WriterInv, BehindPosition
<1>5. WrittenFramesExact'
  <2>1. \A m, f : FrameExact(m, f)' <=> FrameExact(m, f)
    BY <1>1 DEF FrameExact, HeldIn
  <2>2. QED
    BY <1>1, <2>1 DEF WriterInv, WrittenFramesExact
<1>6. QED
  BY <1>2, <1>3, <1>4, <1>5 DEF WriterInv

\* The write that ends is exact, and no write before it is disturbed.
LEMMA FinishWriteInv ==
  ASSUME WriterInv, FinishWrite
  PROVE  WriterInv'
<1>1. ~Idle
  BY DEF FinishWrite
<1>2. PICK s \in Stores, n \in Nat :
        /\ s = store[1] /\ n = Len(stored) + 1 /\ store = <<s>>
        /\ n \notin DOMAIN stored
        /\ s.record \in StoredRecords /\ s.todo \in Seq(Units) /\ s.tapped \in Seq(Units)
        /\ s.failed \in BOOLEAN /\ s.closing \in BOOLEAN
        /\ s.record.valid /\ s.tapped = SubSeq(sink, position + 1, Len(sink))
        /\ \A k \in DOMAIN s.todo : s.todo[k][1] = n
        /\ ~s.failed => s.tapped \o s.todo = UnitsOf(n, s.record)
  BY <1>1, Underway
<1>3. /\ sink \in Seq(Units) /\ Len(sink) \in Nat /\ DOMAIN sink = 1 .. Len(sink)
      /\ position \in 0 .. Len(sink) /\ gzip \in BOOLEAN
      /\ stored \in Seq([record : StoredRecords, frame : Seq(Frames)])
      /\ Len(stored) \in Nat /\ DOMAIN stored = 1 .. Len(stored)
  BY WriterTypes
<1> DEFINE end == Len(sink)
           taken == Len(s.tapped)
<1>f. PICK f, e :
        /\ f = [offset |-> position, length |-> Len(s.tapped), digest |-> s.tapped]
        /\ e = [record |-> s.record, frame |-> IF s.failed THEN << >> ELSE <<f>>]
  OBVIOUS
<1>4. /\ s.todo = << >> /\ store' = << >> /\ position' = position + Len(s.tapped)
      /\ stored' = Append(stored, e) /\ UNCHANGED <<sink, gzip, failures>>
  BY <1>f, <1>2 DEF FinishWrite, TakeFrame
<1>5. /\ end \in Nat /\ taken \in Nat /\ position \in Nat
      /\ position + taken = end
  <2>1. Len(SubSeq(sink, position + 1, Len(sink))) = Len(sink) - position
    BY <1>3, Parts
  <2>2. taken = end - position
    BY <1>2, <2>1
  <2>3. end \in Nat /\ position \in 0 .. end
    BY <1>3
  <2> HIDE DEF end, taken
  <2>4. QED
    BY <2>2, <2>3
<1>6. /\ f \in Frames /\ f.offset = position /\ f.length = taken /\ f.digest = s.tapped
  BY <1>f, <1>2, <1>5 DEF Frames
<1>7. /\ e \in [record : StoredRecords, frame : Seq(Frames)]
      /\ e.record = s.record
      /\ e.frame # << >> => ~s.failed /\ e.frame[1] = f
  BY <1>f, <1>2, <1>6
<1>8. /\ stored' \in Seq([record : StoredRecords, frame : Seq(Frames)])
      /\ Len(stored') = n /\ DOMAIN stored' = DOMAIN stored \cup {n}
      /\ \A m \in DOMAIN stored : stored'[m] = stored[m]
      /\ stored'[n] = e
  <2>1. /\ stored' \in Seq([record : StoredRecords, frame : Seq(Frames)])
        /\ Len(stored') = Len(stored) + 1
        /\ \A m \in 1 .. Len(stored) : stored'[m] = stored[m]
        /\ stored'[Len(stored) + 1] = e
    BY <1>3, <1>4, <1>7, AppendProperties
  <2>2. DOMAIN stored' = 1 .. Len(stored) + 1
    BY <2>1, LenProperties
  <2>3. 1 .. Len(stored) + 1 = 1 .. Len(stored) \cup {Len(stored) + 1}
    BY <1>3
  <2>4. QED
    BY <1>2, <1>3, <2>1, <2>2, <2>3
<1>9. Idle' /\ position' = Len(sink)
  BY <1>4, <1>5 DEF Idle
<1>10. WriterTypeOK'
  BY <1>3, <1>4, <1>8, <1>9 DEF WriterInv, WriterTypeOK
<1>11. Tapped'
  BY <1>9 DEF Tapped
<1>12. \A k \in DOMAIN sink :
         /\ k \in Nat /\ k <= end /\ sink[k][1] <= n
         /\ sink[k][1] = n <=> position < k
  <2>1. ASSUME NEW k \in DOMAIN sink
        PROVE  IF k <= position THEN sink[k][1] <= Len(stored) ELSE sink[k][1] = Len(stored) + 1
    BY DEF WriterInv, BehindPosition
  <2>2. ASSUME NEW k \in DOMAIN sink PROVE sink[k][1] \in Nat /\ k \in Nat /\ k <= Len(sink)
    <3>1. sink[k] \in Units
      BY <1>3, ElementOfSeq
    <3>2. QED
      BY <1>3, <3>1 DEF Units
  <2>3. QED
    BY <1>2, <1>3, <2>1, <2>2
<1>13. BehindPosition'
  <2>1. \A m \in DOMAIN stored' : stored'[m].frame # << >> =>
          stored'[m].frame[1].offset + stored'[m].frame[1].length <= position'
    <3>1. ASSUME NEW m \in DOMAIN stored, stored[m].frame # << >>
          PROVE  stored[m].frame[1].offset + stored[m].frame[1].length <= Len(sink)
      <4>1. stored[m].frame[1].offset + stored[m].frame[1].length <= position
        BY <3>1 DEF WriterInv, BehindPosition
      <4>2. stored[m].frame[1] \in Frames
        <5>1. stored[m] \in [record : StoredRecords, frame : Seq(Frames)]
          BY <1>3, ElementOfSeq
        <5>2. QED
          BY <3>1, <5>1
      <4>3. PICK g \in Frames : g = stored[m].frame[1]
        BY <4>2
      <4>4. g.offset \in Nat /\ g.length \in Nat
        BY DEF Frames
      <4>5. g.offset + g.length <= Len(sink)
        BY <1>3, <4>1, <4>3, <4>4
      <4>6. QED
        BY <4>3, <4>5
    <3>2. e.frame # << >> => e.frame[1].offset + e.frame[1].length <= Len(sink)
      <4>1. f.offset + f.length = end
        BY <1>5, <1>6
      <4>2. end <= end
        BY <1>5
      <4>3. QED
        BY <1>7, <4>1, <4>2
    <3>3. QED
      BY <1>8, <1>9, <3>1, <3>2
  <2>2. \A k \in DOMAIN sink' : k <= position' /\ sink'[k][1] <= Len(stored')
    <3>1. sink' = sink /\ Len(stored') = n /\ position' = end
      BY <1>4, <1>8, <1>9
    <3>2. QED
      BY <1>12, <3>1
  <2>3. position' <= Len(sink') /\ position' = Len(sink')
    BY <1>4, <1>5, <1>9
  <2>4. QED
    BY <2>1, <2>2, <2>3 DEF BehindPosition
<1>14. WrittenFramesExact'
  <2>1. \A m, g : m \in DOMAIN stored => (FrameExact(m, g)' <=> FrameExact(m, g))
    BY <1>4, <1>8 DEF FrameExact, HeldIn
  <2>2. ASSUME e.frame # << >> PROVE FrameExact(n, f)'
    <3>1. SubSeq(sink, f.offset + 1, f.offset + f.length) = s.tapped
      BY <1>2, <1>5, <1>6
    <3>2. \A k \in DOMAIN sink : sink[k][1] = n <=> (f.offset < k /\ k <= f.offset + f.length)
      <4>1. f.offset = position /\ f.offset + f.length = end
        BY <1>5, <1>6
      <4>2. QED
        BY <1>12, <4>1
    <3>3. s.tapped = UnitsOf(n, s.record)
      <4>1. s.tapped \in Seq(Units) /\ s.tapped \o << >> = UnitsOf(n, s.record)
        BY <1>2, <1>4, <1>7, <2>2
      <4>2. QED
        BY <4>1, ConcatEmptySeq
    <3>4. \A i \in 1 .. s.record.size : \E k \in DOMAIN s.tapped : s.tapped[k] = <<n, i>>
      <4>1. s.record \in StoredRecords /\ gzip \in BOOLEAN
        BY <1>2, <1>3
      <4>2. \A i \in 1 .. s.record.size :
              \E k \in DOMAIN UnitsOf(n, s.record) : UnitsOf(n, s.record)[k] = <<n, i>>
        BY <4>1, UnitsOfRecord
      <4>3. QED
        BY <3>3, <4>2
    <3>5. UNCHANGED sink /\ stored'[n].record = s.record
      BY <1>4, <1>7, <1>8
    <3>6. QED
      BY <1>6, <3>1, <3>2, <3>4, <3>5 DEF FrameExact, HeldIn
  <2>3. ASSUME NEW m \in DOMAIN stored'
        PROVE  /\ stored'[m].frame # << >> =>
                    \A g : g = stored'[m].frame[1] => FrameExact(m, g)'
               /\ ~stored'[m].record.valid => \A k \in DOMAIN sink' : sink'[k][1] # m
    <3>1. CASE m \in DOMAIN stored
      BY <1>4, <1>8, <2>1, <3>1 DEF WriterInv, WrittenFramesExact
    <3>2. CASE m = n
      <4>1. stored'[m] = e /\ e.record.valid
        BY <1>2, <1>7, <1>8, <3>2
      <4>2. e.frame # << >> => e.frame[1] = f
        BY <1>7
      <4>3. QED
        BY <2>2, <3>2, <4>1, <4>2
    <3>3. QED
      BY <1>8, <3>1, <3>2
  <2>4. QED
    BY <1>4, <1>9, <2>3 DEF WrittenFramesExact
<1>15. QED
  BY <1>10, <1>11, <1>13, <1>14 DEF WriterInv

\* The inductive invariant of the writer: what the tap has counted is what the
\* sink took of the write in progress, and behind the position is nothing of it
\* (write.rs, WarcWriter).
THEOREM WriterInvariant == WriterSpec => []WriterInv
<1>1. WriterInv /\ [WriterNext]_writerVars => WriterInv'
  BY WriterStutterInv, WriteRecordInv, AcceptInv, FailWriteInv, FinishWriteInv, ReopenInv
     DEF WriterNext
<1>2. QED
  BY <1>1, WriterInitInv, PTL DEF WriterSpec

\* WrittenFramesExact: whatever fails, for records of any size and any number of
\* them, the frame of a record that was written holds it whole and alone
\* (write.rs, WarcWriter::write).
THEOREM WriterFramesExact == WriterSpec => []WrittenFramesExact
<1>1. WriterInv => WrittenFramesExact
  BY DEF WriterInv
<1>2. QED
  BY <1>1, WriterInvariant, PTL

=============================================================================
