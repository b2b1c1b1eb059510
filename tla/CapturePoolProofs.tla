------------------------- MODULE CapturePoolProofs --------------------------
(***************************************************************************)
(* Proofs about CapturePool, for any finite set of workers and any number  *)
(* of URLs, and about the one-shot runs that use it or its sequential      *)
(* form; and about Reader, which shares no name with them, for any stream. *)
(* The argument about the pool is one inductive invariant, IInv.  Its      *)
(* heart is an accounting of captures: those dispatched and not completed  *)
(* are in the task channel, in a worker's hands or in the outcome channel, *)
(* so that idle, which the dispatcher only ever adds to and subtracts      *)
(* from, really is the number of workers with room to report.  The one     *)
(* about the reader is ReaderInv, whose parts say what the padding counted *)
(* and found, and that the octets read account for every record passed and *)
(* told; and, with it, PlacedInv: that the position MemberReader gives is  *)
(* that of the next octet, that the member a record is said to begin is    *)
(* one it begins but for blank lines, and that its placement stays exact   *)
(* as the padding after it is read ahead.                                  *)
(***************************************************************************)
EXTENDS OneShot, Reader, FiniteSetTheorems, WellFoundedInduction, TLAPS

USE CapturePoolAssumption

(***************************************************************************)
(* Facts about the constants, channels and the set of busy workers.        *)
(***************************************************************************)

\* There is at least one worker (concurrency.max(1) in the caller).
LEMMA ConcurrencyType == Concurrency \in Nat /\ Concurrency > 0
<1>1. Cardinality(Workers) \in Nat
  BY FS_CardinalityType
<1>2. Cardinality(Workers) # 0
  BY FS_EmptySet
<1>3. QED
  BY <1>1, <1>2 DEF Concurrency

\* Sending adds one element to a channel.
LEMMA InAppend ==
  ASSUME NEW S, NEW s \in Seq(S), NEW e \in S
  PROVE  /\ ToSet(Append(s, e)) = ToSet(s) \cup {e}
         /\ Append(s, e) \in Seq(S)
         /\ Len(Append(s, e)) = Len(s) + 1
<1>1. ToSet(Append(s, e)) \subseteq ToSet(s) \cup {e}
  BY DEF ToSet
<1>2. ToSet(s) \subseteq ToSet(Append(s, e))
  BY DEF ToSet
<1>3. e \in ToSet(Append(s, e))
  <2>1. Append(s, e)[Len(s) + 1] = e /\ Len(s) + 1 \in 1 .. Len(Append(s, e))
    OBVIOUS
  <2>2. QED
    BY <2>1 DEF ToSet
<1>4. QED
  BY <1>1, <1>2, <1>3

\* Receiving takes the head off a channel and leaves the rest.
LEMMA InTail ==
  ASSUME NEW S, NEW s \in Seq(S), s # <<>>
  PROVE  /\ ToSet(s) = ToSet(Tail(s)) \cup {Head(s)}
         /\ Head(s) \in S
         /\ Tail(s) \in Seq(S)
         /\ Len(Tail(s)) = Len(s) - 1
<1>1. /\ Len(s) \in Nat /\ Len(s) > 0
      /\ Len(Tail(s)) = Len(s) - 1
      /\ \A k \in 1 .. Len(Tail(s)) : Tail(s)[k] = s[k + 1]
      /\ Head(s) = s[1]
  OBVIOUS
<1>2. ToSet(Tail(s)) \subseteq ToSet(s)
  BY <1>1 DEF ToSet
<1>3. Head(s) \in ToSet(s)
  BY <1>1 DEF ToSet
<1>4. ToSet(s) \subseteq ToSet(Tail(s)) \cup {Head(s)}
  <2>1. SUFFICES ASSUME NEW k \in 1 .. Len(s), k # 1
                 PROVE  s[k] \in ToSet(Tail(s))
    BY <1>1 DEF ToSet
  <2>2. k - 1 \in DOMAIN Tail(s) /\ Tail(s)[k - 1] = s[k]
    BY <1>1, <2>1
  <2>3. QED
    BY <2>2 DEF ToSet
<1>5. QED
  BY <1>1, <1>2, <1>3, <1>4

LEMMA InEmpty == ToSet(<<>>) = {}
BY DEF ToSet

\* The set of busy workers is finite, so it has a cardinality.
LEMMA BusyFinite ==
  /\ IsFiniteSet(Busy)
  /\ Cardinality(Busy) \in Nat
  /\ Cardinality(Busy) = 0 <=> Busy = {}
<1>1. IsFiniteSet(Busy)
  BY FS_Subset DEF Busy
<1>2. QED
  BY <1>1, FS_CardinalityType, FS_EmptySet

\* So is the set of captures waiting to be recorded.
LEMMA PendingFinite ==
  ASSUME TypeOK
  PROVE  IsFiniteSet(pending) /\ Cardinality(pending) \in Nat
<1>1. IsFiniteSet(Index)
  BY FS_Interval DEF Index
<1>2. IsFiniteSet(pending)
  BY <1>1, FS_Subset DEF TypeOK
<1>3. QED
  BY <1>2, FS_CardinalityType

\* The counters and the lengths of the channels are natural numbers.
LEMMA Counters ==
  ASSUME TypeOK
  PROVE  /\ consumed \in Nat /\ dispatched \in Nat /\ idle \in Nat
         /\ completed \in Nat /\ nextToRecord \in Nat
         /\ Len(tasks) \in Nat /\ Len(outcomes) \in Nat
         /\ cancelled \in BOOLEAN
BY ConcurrencyType DEF TypeOK

\* The accounting, with the types its arithmetic needs.
Balance ==
  /\ dispatched \in Nat /\ completed \in Nat /\ idle \in Nat
  /\ Len(tasks) \in Nat /\ Len(outcomes) \in Nat
  /\ Cardinality(Busy) \in Nat
  /\ Concurrency \in Nat
  /\ completed <= dispatched
  /\ idle = Concurrency - (dispatched - completed)
  /\ Len(tasks) + Cardinality(Busy) + Len(outcomes) = dispatched - completed

LEMMA BalanceHolds == TypeOK /\ Accounting => Balance
BY Counters, BusyFinite, ConcurrencyType DEF Accounting, Balance

(***************************************************************************)
(* The initial state.                                                      *)
(***************************************************************************)
LEMMA InitIInv == Init => IInv
<1> SUFFICES ASSUME Init PROVE IInv
  OBVIOUS
<1> USE ConcurrencyType DEF Init
<1>1. TypeOK
  <2>1. /\ consumed \in 0 .. NumUrls /\ dispatched \in 0 .. NumUrls
        /\ idle \in 0 .. Concurrency /\ completed \in 0 .. NumUrls
        /\ nextToRecord \in 0 .. NumUrls
    OBVIOUS
  <2>2. archive \in Seq(Index) /\ tasks \in Seq(Index) /\ outcomes \in Seq(Index)
    OBVIOUS
  <2>3. pc \in [Workers -> {"locking", "receiving", "capturing", "reporting",
                            "exited"}]
    OBVIOUS
  <2>4. job \in [Workers -> Index \cup {NoTask}]
    OBVIOUS
  <2>5. QED
    BY <2>1, <2>2, <2>3, <2>4 DEF TypeOK
<1>2. Busy = {} /\ InFlight = {}
  BY InEmpty DEF Busy, InFlight, InHand
<1>3. Accounting
  BY <1>2, FS_EmptySet DEF Accounting
<1>4. HandsMatch
  BY <1>2 DEF HandsMatch
<1>5. Window
  BY FS_EmptySet DEF Window, Limit
<1>6. IndexNamesUrl /\ Covered /\ MainInv
  BY <1>2 DEF IndexNamesUrl, Covered, MainInv
<1>7. ArchiveInInputOrder /\ NothingLost
  BY DEF ArchiveInInputOrder, NothingLost
<1>8. QED
  BY <1>1, <1>3, <1>4, <1>5, <1>6, <1>7 DEF IInv

(***************************************************************************)
(* Steps of the main thread.                                               *)
(***************************************************************************)

\* No step of the main thread touches the workers.
LEMMA WorkersUnchanged ==
  ASSUME UNCHANGED workerVars
  PROVE  /\ Busy' = Busy
         /\ InHand' = InHand
         /\ HandsMatch => HandsMatch'
<1>1. pc' = pc /\ job' = job
  BY DEF workerVars
<1>2. Busy' = Busy
  BY <1>1 DEF Busy
<1>3. InHand' = InHand
  BY <1>1, <1>2 DEF InHand
<1>4. QED
  BY <1>1, <1>2, <1>3 DEF HandsMatch

\* A step of the fill loop: refused, or dispatched to the task channel.
LEMMA FillStep == IInv /\ Fill => IInv'
<1> SUFFICES ASSUME IInv, Fill PROVE IInv'
  OBVIOUS
<1>i. /\ TypeOK /\ Accounting /\ HandsMatch /\ Window /\ IndexNamesUrl
      /\ Covered /\ MainInv /\ ArchiveInInputOrder /\ NothingLost
  BY DEF IInv
<1>c. Balance
  BY <1>i, BalanceHolds
<1>0. UNCHANGED <<main, completed, pending, nextToRecord, result, archive,
                  taskOpen, outcomes, lock, pc, job>>
  BY DEF Fill, workerVars
<1>1. Busy' = Busy /\ InHand' = InHand /\ HandsMatch'
  BY <1>i, <1>0, WorkersUnchanged DEF workerVars
<1>2. /\ main = "filling" /\ result = "ok" /\ ~cancelled
      /\ dispatched = consumed /\ consumed < NumUrls /\ consumed' = consumed + 1
      /\ consumed \in Nat /\ dispatched \in Nat
  BY <1>i DEF Fill, MayFill, MainInv, IndexNamesUrl, TypeOK
<1>3. CASE cancelled' = TRUE /\ UNCHANGED <<tasks, dispatched, idle>>
  <2>1. TypeOK'
    BY <1>i, <1>0, <1>2, <1>3 DEF TypeOK
  <2>2. InFlight' = InFlight
    BY <1>i, <1>0, <1>1, <1>3 DEF InFlight, ToSet
  <2>3. Accounting' /\ Window' /\ Covered'
    BY <1>i, <1>0, <1>1, <1>3, <2>2 DEF Accounting, Window, Covered
  <2>4. IndexNamesUrl' /\ MainInv'
    BY <1>i, <1>0, <1>2, <1>3 DEF IndexNamesUrl, MainInv
  <2>5. ArchiveInInputOrder' /\ NothingLost'
    BY <1>i, <1>0, <1>2, <1>3 DEF ArchiveInInputOrder, NothingLost
  <2>6. QED
    BY <1>1, <2>1, <2>3, <2>4, <2>5 DEF IInv
<1>4. CASE /\ tasks' = Append(tasks, dispatched)
           /\ dispatched' = dispatched + 1
           /\ idle' = idle - 1
           /\ UNCHANGED cancelled
  <2>1. dispatched \in Index
    BY <1>2 DEF Index
  <2>2. /\ ToSet(tasks') = ToSet(tasks) \cup {dispatched}
        /\ tasks' \in Seq(Index)
        /\ Len(tasks') = Len(tasks) + 1
    BY <1>i, <1>4, <2>1, InAppend DEF TypeOK
  <2>3. idle > 0 /\ dispatched - nextToRecord < Limit
    BY DEF Fill, MayFill
  <2>4. TypeOK'
    BY <1>i, <1>0, <1>2, <1>4, <2>2, <2>3, ConcurrencyType DEF TypeOK
  <2>5. InFlight' = InFlight \cup {dispatched}
    <3>1. ToSet(outcomes') = ToSet(outcomes)
      BY <1>i, <1>0
    <3>2. QED
      BY <1>1, <2>2, <3>1 DEF InFlight
  <2>6. Accounting'
    <3>1. completed' = completed /\ dispatched' = dispatched + 1 /\ idle' = idle - 1
      BY <1>0, <1>4
    <3>2. Len(tasks') = Len(tasks) + 1 /\ Len(outcomes') = Len(outcomes)
      BY <1>0, <2>2
    <3>3. Cardinality(Busy') = Cardinality(Busy)
      BY <1>1
    <3>4. QED
      BY <1>c, <3>1, <3>2, <3>3 DEF Accounting, Balance
  <2>7. Window'
    <3>1. /\ nextToRecord \in Nat /\ nextToRecord <= completed
          /\ Cardinality(pending) <= completed - nextToRecord
      BY <1>i, Counters DEF Window
    <3>2. /\ completed' = completed /\ dispatched' = dispatched + 1
          /\ nextToRecord' = nextToRecord /\ pending' = pending
      BY <1>0, <1>4
    <3>3. Limit \in Nat
      BY ConcurrencyType DEF Limit
    <3>4. QED
      BY <1>c, <2>3, <3>1, <3>2, <3>3 DEF Window, Balance
  <2>8. Covered'
    <3>1. (InFlight \cup pending)' \subseteq 0 .. (dispatched' - 1)
      BY <1>i, <1>0, <1>2, <1>4, <2>5 DEF Covered
    <3>2. 0 .. (dispatched' - 1) = (0 .. (dispatched - 1)) \cup {dispatched}
      BY <1>2, <1>4
    <3>3. QED
      BY <1>i, <1>0, <1>2, <2>5, <3>1, <3>2 DEF Covered
  <2>9. IndexNamesUrl' /\ MainInv'
    BY <1>i, <1>0, <1>2, <1>4 DEF IndexNamesUrl, MainInv
  <2>10. ArchiveInInputOrder' /\ NothingLost'
    BY <1>i, <1>0, <1>2, <1>4 DEF ArchiveInInputOrder, NothingLost
  <2>11. QED
    BY <1>1, <2>4, <2>6, <2>7, <2>8, <2>9, <2>10 DEF IInv
<1>5. QED
  BY <1>3, <1>4 DEF Fill

\* fill returns to the recording loop.
LEMMA FillDoneStep == IInv /\ FillDone => IInv'
<1> SUFFICES ASSUME IInv, FillDone PROVE IInv'
  OBVIOUS
<1>i. /\ TypeOK /\ Accounting /\ HandsMatch /\ Window /\ IndexNamesUrl
      /\ Covered /\ MainInv /\ ArchiveInInputOrder /\ NothingLost
  BY DEF IInv
<1>c. Balance
  BY <1>i, BalanceHolds
<1>0. UNCHANGED <<consumed, dispatched, idle, cancelled, completed, pending,
                  nextToRecord, result, archive, tasks, taskOpen, outcomes,
                  lock, pc, job>>
  BY DEF FillDone, workerVars
<1>1. Busy' = Busy /\ InHand' = InHand /\ HandsMatch'
  BY <1>i, <1>0, WorkersUnchanged DEF workerVars
<1>2. main = "filling" /\ main' = "waiting" /\ (~MayFill \/ consumed = NumUrls)
  BY DEF FillDone
<1>3. TypeOK'
  BY <1>i, <1>0, <1>2 DEF TypeOK
<1>4. InFlight' = InFlight
  BY <1>i, <1>0, <1>1 DEF InFlight, ToSet
<1>5. Accounting' /\ Window' /\ IndexNamesUrl' /\ Covered'
  BY <1>i, <1>0, <1>1, <1>4 DEF Accounting, Window, IndexNamesUrl, Covered
<1>6. MainInv'
  BY <1>i, <1>0, <1>2 DEF MainInv, MayFill
<1>7. ArchiveInInputOrder' /\ NothingLost'
  BY <1>i, <1>0, <1>2 DEF ArchiveInInputOrder, NothingLost
<1>8. QED
  BY <1>1, <1>3, <1>5, <1>6, <1>7 DEF IInv

\* An outcome is received: its capture leaves the channel for pending.
LEMMA ReceiveStep == IInv /\ Receive => IInv'
<1> SUFFICES ASSUME IInv, Receive PROVE IInv'
  OBVIOUS
<1>i. /\ TypeOK /\ Accounting /\ HandsMatch /\ Window /\ IndexNamesUrl
      /\ Covered /\ MainInv /\ ArchiveInInputOrder /\ NothingLost
  BY DEF IInv
<1>c. Balance
  BY <1>i, BalanceHolds
<1>0. UNCHANGED <<consumed, dispatched, nextToRecord, result, archive, tasks,
                  taskOpen, lock, pc, job>>
  BY DEF Receive, workerVars
<1>1. Busy' = Busy /\ InHand' = InHand /\ HandsMatch'
  BY <1>i, <1>0, WorkersUnchanged DEF workerVars
<1>2. /\ main = "waiting" /\ completed < dispatched
      /\ completed' = completed + 1 /\ idle' = idle + 1
      /\ outcomes # <<>> /\ outcomes' = Tail(outcomes)
  BY DEF Receive
<1>3. /\ ToSet(outcomes) = ToSet(outcomes') \cup {Head(outcomes)}
      /\ Head(outcomes) \in Index
      /\ outcomes' \in Seq(Index)
      /\ Len(outcomes') = Len(outcomes) - 1
  BY <1>i, <1>2, InTail DEF TypeOK
<1>4. ToSet(tasks') = ToSet(tasks)
  BY <1>i, <1>0
<1>5. InFlight' \cup {Head(outcomes)} = InFlight
  BY <1>1, <1>3, <1>4 DEF InFlight
<1>6. /\ pending' \subseteq pending \cup {Head(outcomes)}
      /\ result = "ok" => pending' = pending \cup {Head(outcomes)}
      /\ pending' = pending \/ pending' = pending \cup {Head(outcomes)}
      /\ main' = IF result = "ok" THEN "recording" ELSE "waiting"
      /\ cancelled' \in {cancelled, TRUE}
  BY <1>2 DEF Receive
<1>7. TypeOK'
  <2>1. completed' \in 0 .. NumUrls
    BY <1>i, <1>2 DEF TypeOK
  <2>2. idle' \in 0 .. Concurrency
    BY <1>i, <1>2, ConcurrencyType DEF TypeOK, Accounting
  <2>3. QED
    BY <1>i, <1>0, <1>3, <1>6, <2>1, <2>2 DEF TypeOK
<1>8. Accounting'
  <2>1. completed' = completed + 1 /\ dispatched' = dispatched /\ idle' = idle + 1
    BY <1>0, <1>2
  <2>2. Len(tasks') = Len(tasks) /\ Len(outcomes') = Len(outcomes) - 1
    BY <1>0, <1>3
  <2>3. Cardinality(Busy') = Cardinality(Busy)
    BY <1>1
  <2>4. completed < dispatched
    BY <1>2
  <2>5. QED
    BY <1>c, <2>1, <2>2, <2>3, <2>4 DEF Accounting, Balance
<1>9. Window'
  <2>1. /\ Cardinality(pending') <= Cardinality(pending) + 1
        /\ Cardinality(pending') \in Nat
        /\ Cardinality(pending) \in Nat
    <3>1. IsFiniteSet(pending) /\ Cardinality(pending) \in Nat
      BY <1>i, PendingFinite
    <3>2. /\ IsFiniteSet(pending \cup {Head(outcomes)})
          /\ Cardinality(pending \cup {Head(outcomes)}) =
               IF Head(outcomes) \in pending
               THEN Cardinality(pending) ELSE Cardinality(pending) + 1
      BY <3>1, FS_AddElement
    <3>3. QED
      BY <1>6, <3>1, <3>2
  <2>2. /\ nextToRecord \in Nat /\ nextToRecord <= completed
        /\ Cardinality(pending) <= completed - nextToRecord
        /\ dispatched - nextToRecord <= Limit
    BY <1>i, Counters DEF Window
  <2>3. /\ completed' = completed + 1 /\ dispatched' = dispatched
        /\ nextToRecord' = nextToRecord
    BY <1>0, <1>2
  <2>4. QED
    BY <1>c, <2>1, <2>2, <2>3 DEF Window, Balance
<1>10. IndexNamesUrl'
  <2>1. cancelled => cancelled'
    BY <1>i, <1>6, Counters, Zenon
  <2>2. QED
    BY <1>i, <1>0, <2>1 DEF IndexNamesUrl
<1>11. Covered'
  BY <1>i, <1>0, <1>5, <1>6 DEF Covered
<1>12. MainInv' /\ ArchiveInInputOrder' /\ NothingLost'
  BY <1>i, <1>0, <1>6 DEF MainInv, ArchiveInInputOrder, NothingLost
<1>13. QED
  BY <1>1, <1>7, <1>8, <1>9, <1>10, <1>11, <1>12 DEF IInv

\* The outcome the archive needs next leaves pending for the archive, or is
\* dropped by a failed record.
LEMMA RecordStep == IInv /\ Record => IInv'
<1> SUFFICES ASSUME IInv, Record PROVE IInv'
  OBVIOUS
<1>i. /\ TypeOK /\ Accounting /\ HandsMatch /\ Window /\ IndexNamesUrl
      /\ Covered /\ MainInv /\ ArchiveInInputOrder /\ NothingLost
  BY DEF IInv
<1>c. Balance
  BY <1>i, BalanceHolds
<1>0. UNCHANGED <<consumed, dispatched, idle, completed, tasks, taskOpen,
                  outcomes, lock, pc, job>>
  BY DEF Record, workerVars
<1>1. Busy' = Busy /\ InHand' = InHand /\ HandsMatch'
  BY <1>i, <1>0, WorkersUnchanged DEF workerVars
<1>2. /\ main = "recording" /\ result = "ok"
      /\ nextToRecord \in pending /\ pending' = pending \ {nextToRecord}
  BY <1>i DEF Record, MainInv
<1>3. InFlight' = InFlight
  BY <1>0, <1>1 DEF InFlight, ToSet
<1>4. Accounting'
  BY <1>i, <1>0, <1>1 DEF Accounting
<1>5. /\ nextToRecord \in Index /\ nextToRecord \in Nat
      /\ nextToRecord < dispatched
  BY <1>i, <1>2, <1>c DEF TypeOK, Covered, Balance
<1>6. /\ Cardinality(pending) \in Nat
      /\ Cardinality(pending') = Cardinality(pending) - 1
      /\ Cardinality(pending') \in Nat
  <2>1. IsFiniteSet(pending) /\ Cardinality(pending) \in Nat
    BY <1>i, PendingFinite
  <2>2. /\ IsFiniteSet(pending \ {nextToRecord})
        /\ Cardinality(pending \ {nextToRecord}) = Cardinality(pending) - 1
    BY <2>1, <1>2, FS_RemoveElement
  <2>3. QED
    BY <1>2, <2>1, <2>2, FS_CardinalityType
<1>7. CASE /\ archive' = Append(archive, nextToRecord)
           /\ nextToRecord' = nextToRecord + 1
           /\ cancelled' \in {cancelled, TRUE}
           /\ UNCHANGED <<result, main>>
  <2>1. cancelled' \in BOOLEAN /\ (cancelled => cancelled')
    <3>1. cancelled \in BOOLEAN
      BY <1>i, Counters
    <3>2. CASE cancelled' = cancelled
      BY <3>1, <3>2
    <3>3. CASE cancelled' = TRUE
      BY <3>3
    <3>4. QED
      BY <1>7, <3>2, <3>3
  <2>2. archive' \in Seq(Index) /\ Len(archive') = Len(archive) + 1
    BY <1>i, <1>5, <1>7, InAppend DEF TypeOK
  <2>3. TypeOK'
    <3>1. nextToRecord' \in 0 .. NumUrls
      BY <1>5, <1>7 DEF Index
    <3>2. pending' \in SUBSET Index
      BY <1>i, <1>2 DEF TypeOK
    <3>3. QED
      BY <1>i, <1>0, <1>7, <2>1, <2>2, <3>1, <3>2 DEF TypeOK
  <2>4. Window'
    <3>1. /\ nextToRecord <= completed
          /\ Cardinality(pending) <= completed - nextToRecord
          /\ dispatched - nextToRecord <= Limit
      BY <1>i DEF Window
    <3>2. /\ completed' = completed /\ dispatched' = dispatched
          /\ nextToRecord' = nextToRecord + 1
      BY <1>0, <1>7
    <3>3. Limit \in Nat
      BY ConcurrencyType DEF Limit
    <3>4. QED
      BY <1>5, <1>6, <1>c, <3>1, <3>2, <3>3 DEF Window, Balance
  <2>5. IndexNamesUrl'
    BY <1>i, <1>0, <2>1 DEF IndexNamesUrl
  <2>6. Covered'
    <3>1. (InFlight \cup pending)' \subseteq 0 .. (dispatched' - 1)
      BY <1>i, <1>0, <1>2, <1>3 DEF Covered
    <3>2. 0 .. (dispatched - 1) \subseteq
             (0 .. (nextToRecord - 1)) \cup pending \cup InFlight
      BY <1>i, <1>2 DEF Covered
    <3>3. (0 .. (nextToRecord - 1)) \cup pending
            \subseteq (0 .. (nextToRecord' - 1)) \cup pending'
      BY <1>2, <1>5, <1>7
    <3>4. QED
      BY <1>0, <1>3, <3>1, <3>2, <3>3 DEF Covered
  <2>7. MainInv' /\ NothingLost'
    BY <1>2, <1>7 DEF MainInv, NothingLost
  <2>8. ArchiveInInputOrder'
    <3>1. Len(archive) = nextToRecord
      BY <1>i DEF ArchiveInInputOrder
    <3>2. \A k \in 1 .. Len(archive') : archive'[k] = k - 1
      <4>1. SUFFICES ASSUME NEW k \in 1 .. Len(archive')
                     PROVE  archive'[k] = k - 1
        OBVIOUS
      <4>2. CASE k = Len(archive')
        BY <1>i, <1>5, <1>7, <2>2, <3>1, <4>2 DEF TypeOK
      <4>3. CASE k # Len(archive')
        <5>1. k \in 1 .. Len(archive)
          BY <1>i, <2>2, <4>3 DEF TypeOK
        <5>2. archive'[k] = archive[k]
          BY <1>i, <1>5, <1>7, <5>1 DEF TypeOK
        <5>3. QED
          BY <1>i, <5>1, <5>2 DEF ArchiveInInputOrder
      <4>4. QED
        BY <4>2, <4>3
    <3>3. QED
      BY <1>7, <2>2, <3>1, <3>2 DEF ArchiveInInputOrder
  <2>9. QED
    BY <1>1, <1>4, <2>3, <2>4, <2>5, <2>6, <2>7, <2>8 DEF IInv
<1>8. CASE /\ result' = "error"
           /\ main' = "waiting"
           /\ UNCHANGED <<archive, nextToRecord, cancelled>>
  <2>1. TypeOK'
    BY <1>i, <1>0, <1>2, <1>8 DEF TypeOK
  <2>2. Window'
    <3>1. /\ nextToRecord <= completed
          /\ Cardinality(pending) <= completed - nextToRecord
          /\ dispatched - nextToRecord <= Limit
      BY <1>i DEF Window
    <3>2. /\ completed' = completed /\ dispatched' = dispatched
          /\ nextToRecord' = nextToRecord
      BY <1>0, <1>8
    <3>3. QED
      BY <1>5, <1>6, <1>c, <3>1, <3>2 DEF Window, Balance
  <2>3. IndexNamesUrl' /\ Covered'
    BY <1>i, <1>0, <1>2, <1>3, <1>8 DEF IndexNamesUrl, Covered
  <2>4. MainInv' /\ ArchiveInInputOrder' /\ NothingLost'
    BY <1>i, <1>8 DEF MainInv, ArchiveInInputOrder, NothingLost
  <2>5. QED
    BY <1>1, <1>4, <2>1, <2>2, <2>3, <2>4 DEF IInv
<1>9. QED
  BY <1>7, <1>8 DEF Record

\* The recording loop has caught up with what was received.
LEMMA RecordDoneStep == IInv /\ RecordDone => IInv'
<1> SUFFICES ASSUME IInv, RecordDone PROVE IInv'
  OBVIOUS
<1>i. /\ TypeOK /\ Accounting /\ HandsMatch /\ Window /\ IndexNamesUrl
      /\ Covered /\ MainInv /\ ArchiveInInputOrder /\ NothingLost
  BY DEF IInv
<1>c. Balance
  BY <1>i, BalanceHolds
<1>0. UNCHANGED <<consumed, dispatched, idle, cancelled, completed, pending,
                  nextToRecord, result, archive, tasks, taskOpen, outcomes,
                  lock, pc, job>>
  BY DEF RecordDone, workerVars
<1>1. Busy' = Busy /\ InHand' = InHand /\ HandsMatch'
  BY <1>i, <1>0, WorkersUnchanged DEF workerVars
<1>2. main = "recording" /\ main' = "filling" /\ nextToRecord \notin pending
  BY DEF RecordDone
<1>3. TypeOK'
  BY <1>i, <1>0, <1>2 DEF TypeOK
<1>4. InFlight' = InFlight
  BY <1>0, <1>1 DEF InFlight, ToSet
<1>5. Accounting' /\ Window' /\ IndexNamesUrl' /\ Covered'
  BY <1>i, <1>0, <1>1, <1>4 DEF Accounting, Window, IndexNamesUrl, Covered
<1>6. MainInv' /\ ArchiveInInputOrder' /\ NothingLost'
  BY <1>i, <1>0, <1>2 DEF MainInv, ArchiveInInputOrder, NothingLost
<1>7. QED
  BY <1>1, <1>3, <1>5, <1>6 DEF IInv

\* When every dispatched capture has been received and no record failed, the
\* archive holds all of them: nothing is in flight, and what is pending cannot
\* start beyond the capture the archive needs next.
LEMMA AllRecorded ==
  ASSUME IInv, main = "waiting", completed = dispatched, result = "ok"
  PROVE  /\ nextToRecord = dispatched
         /\ Len(archive) = dispatched
         /\ cancelled \/ dispatched = NumUrls
<1>i. /\ TypeOK /\ Accounting /\ Window /\ IndexNamesUrl
      /\ Covered /\ MainInv /\ ArchiveInInputOrder
  BY DEF IInv
<1>c. Balance
  BY <1>i, BalanceHolds
<1>1. Len(tasks) = 0 /\ Len(outcomes) = 0 /\ Cardinality(Busy) = 0
  BY <1>c DEF Balance
<1>2. tasks = <<>> /\ outcomes = <<>> /\ Busy = {}
  BY <1>i, <1>1, BusyFinite DEF TypeOK
<1>3. InFlight = {}
  BY <1>2, InEmpty DEF InFlight, InHand
<1>4. nextToRecord \in Nat /\ nextToRecord <= dispatched
  BY <1>i, <1>c, Counters DEF Window, Balance
<1>5. nextToRecord \notin pending
  BY <1>i DEF MainInv
<1>6. ~(nextToRecord < dispatched)
  BY <1>i, <1>c, <1>3, <1>4, <1>5 DEF Covered, Balance
<1>7. nextToRecord = dispatched
  BY <1>4, <1>6, <1>c DEF Balance
<1>8. Len(archive) = dispatched
  BY <1>i, <1>7 DEF ArchiveInInputOrder
<1>9. cancelled \/ dispatched = NumUrls
  <2>1. SUFFICES ASSUME ~cancelled PROVE dispatched = NumUrls
    OBVIOUS
  <2>2. dispatched = consumed
    BY <1>i, <2>1 DEF IndexNamesUrl
  <2>3. MayFill
    <3>1. idle > 0
      BY <1>c, ConcurrencyType DEF Balance
    <3>2. dispatched - nextToRecord < Limit
      BY <1>c, <1>7, ConcurrencyType DEF Balance, Limit
    <3>3. QED
      BY <2>1, <3>1, <3>2 DEF MayFill
  <2>4. QED
    BY <1>i, <2>2, <2>3 DEF MainInv
<1>10. QED
  BY <1>7, <1>8, <1>9

\* The task channel is closed.
LEMMA CloseStep == IInv /\ Close => IInv'
<1> SUFFICES ASSUME IInv, Close PROVE IInv'
  OBVIOUS
<1>i. /\ TypeOK /\ Accounting /\ HandsMatch /\ Window /\ IndexNamesUrl
      /\ Covered /\ MainInv /\ ArchiveInInputOrder /\ NothingLost
  BY DEF IInv
<1>c. Balance
  BY <1>i, BalanceHolds
<1>0. UNCHANGED <<consumed, dispatched, idle, cancelled, completed, pending,
                  nextToRecord, result, archive, tasks, outcomes, lock, pc, job>>
  BY DEF Close, workerVars
<1>1. Busy' = Busy /\ InHand' = InHand /\ HandsMatch'
  BY <1>i, <1>0, WorkersUnchanged DEF workerVars
<1>2. /\ main = "waiting" /\ main' = "joining" /\ taskOpen' = FALSE
      /\ completed = dispatched
  BY DEF Close
<1>3. TypeOK'
  BY <1>i, <1>0, <1>2 DEF TypeOK
<1>4. InFlight' = InFlight
  BY <1>0, <1>1 DEF InFlight, ToSet
<1>5. Accounting' /\ Window' /\ IndexNamesUrl' /\ Covered'
  BY <1>i, <1>0, <1>1, <1>4 DEF Accounting, Window, IndexNamesUrl, Covered
<1>6. MainInv' /\ ArchiveInInputOrder'
  BY <1>i, <1>0, <1>2 DEF MainInv, ArchiveInInputOrder
<1>7. NothingLost'
  BY <1>0, <1>2, AllRecorded DEF NothingLost
<1>8. QED
  BY <1>1, <1>3, <1>5, <1>6, <1>7 DEF IInv

\* The workers are joined.
LEMMA JoinStep == IInv /\ Join => IInv'
<1> SUFFICES ASSUME IInv, Join PROVE IInv'
  OBVIOUS
<1>i. /\ TypeOK /\ Accounting /\ HandsMatch /\ Window /\ IndexNamesUrl
      /\ Covered /\ MainInv /\ ArchiveInInputOrder /\ NothingLost
  BY DEF IInv
<1>c. Balance
  BY <1>i, BalanceHolds
<1>0. UNCHANGED <<consumed, dispatched, idle, cancelled, completed, pending,
                  nextToRecord, result, archive, tasks, taskOpen, outcomes,
                  lock, pc, job>>
  BY DEF Join, workerVars
<1>1. Busy' = Busy /\ InHand' = InHand /\ HandsMatch'
  BY <1>i, <1>0, WorkersUnchanged DEF workerVars
<1>2. main = "joining" /\ main' = "returned"
  BY DEF Join
<1>3. TypeOK'
  BY <1>i, <1>0, <1>2 DEF TypeOK
<1>4. InFlight' = InFlight
  BY <1>0, <1>1 DEF InFlight, ToSet
<1>5. Accounting' /\ Window' /\ IndexNamesUrl' /\ Covered'
  BY <1>i, <1>0, <1>1, <1>4 DEF Accounting, Window, IndexNamesUrl, Covered
<1>6. MainInv' /\ ArchiveInInputOrder' /\ NothingLost'
  BY <1>i, <1>0, <1>2 DEF MainInv, ArchiveInInputOrder, NothingLost
<1>7. QED
  BY <1>1, <1>3, <1>5, <1>6 DEF IInv

(***************************************************************************)
(* Steps of a worker.                                                      *)
(***************************************************************************)

\* A worker's step leaves alone what only the main thread's variables say.
LEMMA MainUnchanged ==
  ASSUME IInv, UNCHANGED mainVars
  PROVE  Window' /\ IndexNamesUrl' /\ MainInv' /\ ArchiveInInputOrder'
         /\ NothingLost'
BY DEF IInv, mainVars, Window, IndexNamesUrl, MainInv, MayFill,
       ArchiveInInputOrder, NothingLost

\* Taking or releasing the mutex moves no capture.
LEMMA IdleWorkerStep ==
  ASSUME IInv, NEW w \in Workers, Lock(w) \/ Exit(w)
  PROVE  IInv'
<1>i. TypeOK /\ Accounting /\ HandsMatch /\ Covered
  BY DEF IInv
<1>0. /\ UNCHANGED mainVars
      /\ UNCHANGED <<tasks, taskOpen, outcomes, job>>
      /\ lock' \in {w, NoWorker}
      /\ pc[w] \notin {"capturing", "reporting"}
      /\ \E q \in {"receiving", "exited"} : pc' = [pc EXCEPT ![w] = q]
  BY DEF Lock, Exit
<1>1. TypeOK'
  BY <1>i, <1>0 DEF TypeOK, mainVars
<1>2. Busy' = Busy
  BY <1>i, <1>0 DEF Busy, TypeOK
<1>3. InHand' = InHand
  BY <1>0, <1>2 DEF InHand
<1>4. HandsMatch'
  BY <1>i, <1>0, <1>2 DEF HandsMatch
<1>5. InFlight' = InFlight
  BY <1>0, <1>3 DEF InFlight, ToSet
<1>6. Accounting' /\ Covered'
  BY <1>i, <1>0, <1>2, <1>5 DEF Accounting, Covered, mainVars
<1>7. QED
  BY <1>0, <1>1, <1>4, <1>6, MainUnchanged DEF IInv

\* A task moves from the channel into a worker's hands.
LEMMA TakeTaskStep ==
  ASSUME IInv, NEW w \in Workers, TakeTask(w)
  PROVE  IInv'
<1>i. TypeOK /\ Accounting /\ HandsMatch /\ Covered
  BY DEF IInv
<1>c. Balance
  BY <1>i, BalanceHolds
<1>0. /\ UNCHANGED mainVars /\ UNCHANGED <<taskOpen, outcomes>>
      /\ pc[w] = "receiving" /\ pc' = [pc EXCEPT ![w] = "capturing"]
      /\ tasks # <<>> /\ tasks' = Tail(tasks)
      /\ job' = [job EXCEPT ![w] = Head(tasks)]
      /\ lock' = NoWorker
  BY DEF TakeTask
<1>1. /\ ToSet(tasks) = ToSet(tasks') \cup {Head(tasks)}
      /\ Head(tasks) \in Index
      /\ tasks' \in Seq(Index)
      /\ Len(tasks') = Len(tasks) - 1
  BY <1>i, <1>0, InTail DEF TypeOK
<1>2. TypeOK'
  BY <1>i, <1>0, <1>1 DEF TypeOK, mainVars
<1>3. w \notin Busy /\ Busy' = Busy \cup {w}
  BY <1>i, <1>0 DEF Busy, TypeOK
<1>4. Cardinality(Busy') = Cardinality(Busy) + 1
  BY <1>3, BusyFinite, FS_AddElement
<1>5. InHand' = InHand \cup {Head(tasks)}
  <2>1. \A v \in Busy : job'[v] = job[v]
    BY <1>i, <1>0, <1>3 DEF TypeOK, Busy
  <2>2. job'[w] = Head(tasks)
    BY <1>i, <1>0 DEF TypeOK
  <2>3. QED
    BY <1>3, <2>1, <2>2 DEF InHand
<1>6. HandsMatch'
  <2>1. Head(tasks) # NoTask
    BY <1>1 DEF Index, NoTask
  <2>2. QED
    BY <1>i, <1>0, <1>3, <2>1 DEF HandsMatch, TypeOK
<1>7. InFlight' = InFlight
  <2>1. ToSet(outcomes') = ToSet(outcomes)
    BY <1>0
  <2>2. QED
    BY <1>1, <1>5, <2>1 DEF InFlight
<1>8. Covered'
  BY <1>i, <1>0, <1>7 DEF Covered, mainVars
<1>9. Accounting'
  <2>1. completed' = completed /\ dispatched' = dispatched /\ idle' = idle
    BY <1>0 DEF mainVars
  <2>2. Len(tasks') = Len(tasks) - 1 /\ Len(outcomes') = Len(outcomes)
    BY <1>0, <1>1
  <2>3. QED
    BY <1>c, <1>4, <2>1, <2>2 DEF Accounting, Balance
<1>10. QED
  BY <1>0, <1>2, <1>6, <1>8, <1>9, MainUnchanged DEF IInv

\* A capture ends; its worker still has it in hand.
LEMMA CaptureStep ==
  ASSUME IInv, NEW w \in Workers, Capture(w)
  PROVE  IInv'
<1>i. TypeOK /\ Accounting /\ HandsMatch /\ Covered
  BY DEF IInv
<1>0. /\ UNCHANGED mainVars
      /\ UNCHANGED <<tasks, taskOpen, outcomes, lock, job>>
      /\ pc[w] = "capturing" /\ pc' = [pc EXCEPT ![w] = "reporting"]
  BY DEF Capture
<1>1. TypeOK'
  BY <1>i, <1>0 DEF TypeOK, mainVars
<1>2. Busy' = Busy
  BY <1>i, <1>0 DEF Busy, TypeOK
<1>3. InHand' = InHand
  BY <1>0, <1>2 DEF InHand
<1>4. HandsMatch'
  BY <1>i, <1>0, <1>2 DEF HandsMatch
<1>5. InFlight' = InFlight
  BY <1>0, <1>3 DEF InFlight, ToSet
<1>6. Accounting' /\ Covered'
  BY <1>i, <1>0, <1>2, <1>5 DEF Accounting, Covered, mainVars
<1>7. QED
  BY <1>0, <1>1, <1>4, <1>6, MainUnchanged DEF IInv

\* An outcome moves from a worker's hands into the outcome channel.
LEMMA ReportStep ==
  ASSUME IInv, NEW w \in Workers, Report(w)
  PROVE  IInv'
<1>i. TypeOK /\ Accounting /\ HandsMatch /\ Covered
  BY DEF IInv
<1>c. Balance
  BY <1>i, BalanceHolds
<1>0. /\ UNCHANGED mainVars /\ UNCHANGED <<tasks, taskOpen, lock>>
      /\ pc[w] = "reporting" /\ pc' = [pc EXCEPT ![w] = "locking"]
      /\ outcomes' = Append(outcomes, job[w])
      /\ job' = [job EXCEPT ![w] = NoTask]
  BY DEF Report
<1>1. w \in Busy /\ Busy' = Busy \ {w}
  BY <1>i, <1>0 DEF Busy, TypeOK
<1>2. job[w] \in Index
  BY <1>i, <1>1 DEF HandsMatch, TypeOK
<1>3. /\ ToSet(outcomes') = ToSet(outcomes) \cup {job[w]}
      /\ outcomes' \in Seq(Index)
      /\ Len(outcomes') = Len(outcomes) + 1
  BY <1>i, <1>0, <1>2, InAppend DEF TypeOK
<1>4. TypeOK'
  BY <1>i, <1>0, <1>3 DEF TypeOK, mainVars
<1>5. Cardinality(Busy') = Cardinality(Busy) - 1
  BY <1>1, BusyFinite, FS_RemoveElement
<1>6. InHand = InHand' \cup {job[w]}
  <2>1. \A v \in Busy' : job'[v] = job[v]
    BY <1>i, <1>0, <1>1 DEF TypeOK, Busy
  <2>2. QED
    BY <1>1, <2>1 DEF InHand
<1>7. HandsMatch'
  BY <1>i, <1>0, <1>1 DEF HandsMatch, TypeOK
<1>8. InFlight' = InFlight
  <2>1. ToSet(tasks') = ToSet(tasks)
    BY <1>0
  <2>2. QED
    BY <1>3, <1>6, <2>1 DEF InFlight
<1>9. Covered'
  BY <1>i, <1>0, <1>8 DEF Covered, mainVars
<1>10. Accounting'
  <2>1. completed' = completed /\ dispatched' = dispatched /\ idle' = idle
    BY <1>0 DEF mainVars
  <2>2. Len(tasks') = Len(tasks) /\ Len(outcomes') = Len(outcomes) + 1
    BY <1>0, <1>3
  <2>3. QED
    BY <1>c, <1>5, <2>1, <2>2 DEF Accounting, Balance
<1>11. QED
  BY <1>0, <1>4, <1>7, <1>9, <1>10, MainUnchanged DEF IInv

(***************************************************************************)
(* The theorems.                                                           *)
(***************************************************************************)

\* Nothing changes in a stuttering step.
LEMMA StutterStep == IInv /\ UNCHANGED vars => IInv'
<1> SUFFICES ASSUME IInv, UNCHANGED vars PROVE IInv'
  OBVIOUS
<1>i. TypeOK /\ Accounting /\ HandsMatch /\ Covered
  BY DEF IInv
<1>0. UNCHANGED mainVars /\ UNCHANGED <<tasks, taskOpen, outcomes, lock, pc, job>>
  BY DEF vars, workerVars
<1>1. Busy' = Busy /\ InHand' = InHand /\ HandsMatch'
  BY <1>i, <1>0, WorkersUnchanged DEF workerVars
<1>2. TypeOK'
  BY <1>i, <1>0 DEF TypeOK, mainVars
<1>3. InFlight' = InFlight
  BY <1>0, <1>1 DEF InFlight, ToSet
<1>4. Accounting' /\ Covered'
  BY <1>i, <1>0, <1>1, <1>3 DEF Accounting, Covered, mainVars
<1>5. QED
  BY <1>0, <1>1, <1>2, <1>4, MainUnchanged DEF IInv

LEMMA NextIInv == IInv /\ [Next]_vars => IInv'
<1> SUFFICES ASSUME IInv, [Next]_vars PROVE IInv'
  OBVIOUS
<1>1. CASE Main
  BY <1>1, FillStep, FillDoneStep, ReceiveStep, RecordStep, RecordDoneStep,
     CloseStep, JoinStep DEF Main
<1>2. ASSUME NEW w \in Workers, Worker(w) PROVE IInv'
  BY <1>2, IdleWorkerStep, TakeTaskStep, CaptureStep, ReportStep DEF Worker
<1>3. CASE UNCHANGED vars
  BY <1>3, StutterStep
<1>4. QED
  BY <1>1, <1>2, <1>3 DEF Next, Terminated

\* The inductive invariant holds of every reachable state of the pool.
THEOREM PoolInvariant == Spec => []IInv
<1>1. Init => IInv
  BY InitIInv
<1>2. IInv /\ [Next]_vars => IInv'
  BY NextIInv
<1>3. QED
  BY <1>1, <1>2, PTL DEF Spec

\* The pool's variables keep their types: in particular idle never goes below
\* zero, where the code's usize would wrap around.
THEOREM PoolTypeCorrect == Spec => []TypeOK
<1>1. IInv => TypeOK
  BY DEF IInv
<1>2. QED
  BY <1>1, PoolInvariant, PTL

\* At most twice `concurrency` captures are in memory at once.
THEOREM PoolWindowBounded == Spec => []WindowBounded
<1>1. IInv => WindowBounded
  <2> SUFFICES ASSUME IInv PROVE WindowBounded
    OBVIOUS
  <2>1. Balance /\ nextToRecord \in Nat /\ Cardinality(pending) \in Nat
    BY BalanceHolds, Counters, PendingFinite DEF IInv
  <2>2. /\ Cardinality(pending) <= completed - nextToRecord
        /\ dispatched - nextToRecord <= Limit
    BY DEF IInv, Window
  <2>3. Limit \in Nat
    BY ConcurrencyType DEF Limit
  <2>4. QED
    BY <2>1, <2>2, <2>3 DEF Balance, WindowBounded, Outstanding
<1>2. QED
  BY <1>1, PoolInvariant, PTL

\* No worker ever blocks on the outcome channel.
THEOREM PoolReportNeverBlocks == Spec => []ReportNeverBlocks
<1>1. IInv => ReportNeverBlocks
  <2> SUFFICES ASSUME IInv PROVE ReportNeverBlocks
    OBVIOUS
  <2>1. Balance
    BY BalanceHolds DEF IInv
  <2>2. QED
    BY <2>1 DEF Balance, ReportNeverBlocks
<1>2. QED
  BY <1>1, PoolInvariant, PTL

\* The archive is a prefix of the input, in input order.
THEOREM PoolArchiveInInputOrder == Spec => []ArchiveInInputOrder
<1>1. IInv => ArchiveInInputOrder
  BY DEF IInv
<1>2. QED
  BY <1>1, PoolInvariant, PTL

\* Every dispatched capture is in the archive when the run ends without a
\* failed record.
THEOREM PoolNothingLost == Spec => []NothingLost
<1>1. IInv => NothingLost
  BY DEF IInv
<1>2. QED
  BY <1>1, PoolInvariant, PTL

\* A worker idles with input left only at the bound.
THEOREM PoolNoNeedlessIdling == Spec => []NoNeedlessIdling
<1>1. IInv => NoNeedlessIdling
  <2> SUFFICES ASSUME IInv, main = "waiting", result = "ok", ~cancelled, idle > 0,
                      consumed < NumUrls
               PROVE  dispatched - nextToRecord = Limit
    BY DEF NoNeedlessIdling
  <2>1. TypeOK /\ Window /\ MainInv
    BY DEF IInv
  <2>2. dispatched \in Nat /\ nextToRecord \in Nat /\ consumed \in Nat
    BY <2>1, Counters
  <2>3. ~MayFill
    BY <2>1, <2>2 DEF MainInv
  <2>4. ~(dispatched - nextToRecord < Limit)
    BY <2>3 DEF MayFill
  <2>5. dispatched - nextToRecord <= Limit
    BY <2>1 DEF Window
  <2>6. QED
    BY <2>2, <2>4, <2>5, ConcurrencyType DEF Limit
<1>2. QED
  BY <1>1, PoolInvariant, PTL

\* NoWorkerHeldUp: no worker waits to report, and none without need for a URL
\* (pool.rs, Dispatcher::fill and the bounded channel).
THEOREM PoolNoWorkerHeldUp == Spec => []NoWorkerHeldUp
<1>. QED
  BY PoolReportNeverBlocks, PoolNoNeedlessIdling, PTL DEF NoWorkerHeldUp

\* Nothing is dispatched after a cancellation or a failed record, and nothing
\* is archived after a failed record.
THEOREM PoolStopsStarting == Spec => StopsStarting
<1> DEFINE Stops == /\ cancelled \/ result = "error" => dispatched' = dispatched
                    /\ result = "error" => archive' = archive
<1>1. IInv /\ [Next]_vars => [Stops]_vars
  <2> SUFFICES ASSUME IInv, [Next]_vars PROVE Stops
    OBVIOUS
  <2>1. main \in {"filling", "recording"} => result = "ok"
    BY DEF IInv, MainInv
  <2>2. CASE Fill
    BY <2>1, <2>2 DEF Fill, MayFill
  <2>3. CASE FillDone
    BY <2>3 DEF FillDone
  <2>4. CASE Receive
    BY <2>4 DEF Receive
  <2>5. CASE Record
    BY <2>1, <2>5 DEF Record
  <2>6. CASE RecordDone
    BY <2>6 DEF RecordDone
  <2>7. CASE Close \/ Join
    BY <2>7 DEF Close, Join
  <2>8. CASE \E w \in Workers : Worker(w)
    BY <2>8 DEF Worker, Lock, TakeTask, Exit, Capture, Report, mainVars
  <2>9. CASE UNCHANGED vars
    BY <2>9 DEF vars, mainVars
  <2>10. QED
    BY <2>2, <2>3, <2>4, <2>5, <2>6, <2>7, <2>8, <2>9 DEF Next, Main, Terminated
<1>2. QED
  BY <1>1, PoolInvariant, PTL DEF Spec, StopsStarting

\* The abstract specification's state, seen through the pool's, does not change
\* in a step that keeps these variables.
LEMMA AbstractStutter ==
  ASSUME UNCHANGED <<dispatched, nextToRecord, cancelled, result>>,
         main # "returned", main' # "returned"
  PROVE  UNCHANGED Abstract!vars
BY DEF Abstract!vars, Status

\* The pool implements OrderedArchive: recording is the abstract Archive,
\* dispatching is Accept, and the order in which captures complete is hidden.
THEOREM PoolImplementsOrderedArchive == Spec => ImplementsOrderedArchive
<1>1. Init => Abstract!Init
  BY DEF Init, Abstract!Init, Status
<1>2. IInv /\ [Next]_vars => [Abstract!Next]_(Abstract!vars)
  <2> SUFFICES ASSUME IInv, [Next]_vars
               PROVE  Abstract!Next \/ UNCHANGED Abstract!vars
    OBVIOUS
  <2>i. TypeOK /\ Covered /\ MainInv /\ IndexNamesUrl /\ Balance
    BY BalanceHolds DEF IInv
  <2>c. dispatched \in Nat /\ consumed \in Nat /\ nextToRecord \in Nat
    BY <2>i, Counters
  <2>1. CASE Fill
    <3>1. main = "filling" /\ main' = main /\ result = "ok" /\ result' = result
          /\ ~cancelled /\ nextToRecord' = nextToRecord
      BY <2>i, <2>1 DEF Fill, MayFill, MainInv
    <3>2. Status = "running" /\ Status' = "running"
      BY <3>1 DEF Status
    <3>3. CASE cancelled' = TRUE /\ UNCHANGED <<tasks, dispatched, idle>>
      <4>1. Abstract!Stop
        BY <3>1, <3>2, <3>3 DEF Abstract!Stop
      <4>2. QED
        BY <4>1 DEF Abstract!Next
    <3>4. CASE dispatched' = dispatched + 1 /\ UNCHANGED cancelled
      <4>1. dispatched < NumUrls /\ dispatched - nextToRecord < Limit
        BY <2>i, <2>1, <3>1 DEF IndexNamesUrl, Fill, MayFill
      <4>2. Abstract!Accept
        BY <3>1, <3>2, <3>4, <4>1 DEF Abstract!Accept
      <4>3. QED
        BY <4>2 DEF Abstract!Next
    <3>5. QED
      BY <2>1, <3>3, <3>4 DEF Fill
  <2>2. CASE FillDone \/ RecordDone \/ Close
    BY <2>2, AbstractStutter DEF FillDone, RecordDone, Close
  <2>3. CASE Receive
    <3>1. /\ main = "waiting" /\ main' # "returned"
          /\ UNCHANGED <<dispatched, nextToRecord, result>>
      BY <2>3 DEF Receive
    <3>2. CASE cancelled' = cancelled
      BY <3>1, <3>2, AbstractStutter
    <3>3. CASE result = "ok" /\ cancelled' = TRUE
      <4>1. Status = "running" /\ Status' = "running"
        BY <3>1, <3>3 DEF Status
      <4>2. Abstract!Stop
        BY <3>1, <3>3, <4>1 DEF Abstract!Stop
      <4>3. QED
        BY <4>2 DEF Abstract!Next
    <3>4. QED
      BY <2>3, <3>2, <3>3 DEF Receive
  <2>4. CASE Record
    <3>1. /\ main = "recording" /\ result = "ok" /\ Status = "running"
          /\ dispatched' = dispatched
      BY <2>i, <2>4 DEF Record, MainInv, Status
    <3>2. nextToRecord < dispatched
      BY <2>i, <2>c, <2>4 DEF Record, Covered
    <3>3. CASE /\ nextToRecord' = nextToRecord + 1
               /\ cancelled' \in {cancelled, TRUE}
               /\ UNCHANGED <<result, main>>
      <4>1. Status' = "running"
        BY <3>1, <3>3 DEF Status
      <4>2. Abstract!Archive
        BY <3>1, <3>2, <3>3, <4>1 DEF Abstract!Archive
      <4>3. QED
        BY <4>2 DEF Abstract!Next
    <3>4. CASE result' = "error" /\ UNCHANGED <<nextToRecord, cancelled>>
      <4>1. Status' = "error"
        BY <3>4 DEF Status
      <4>2. Abstract!Fail
        BY <3>1, <3>2, <3>4, <4>1 DEF Abstract!Fail
      <4>3. QED
        BY <4>2 DEF Abstract!Next
    <3>5. QED
      BY <2>4, <3>3, <3>4 DEF Record
  <2>5. CASE Join
    <3>1. /\ main = "joining" /\ main' = "returned"
          /\ UNCHANGED <<dispatched, nextToRecord, cancelled, result>>
      BY <2>5 DEF Join
    <3>2. CASE result = "error"
      BY <3>1, <3>2 DEF Abstract!vars, Status
    <3>3. CASE result = "ok"
      <4>1. NothingLost /\ ArchiveInInputOrder
        BY DEF IInv
      <4>2. nextToRecord = dispatched /\ (cancelled \/ dispatched = NumUrls)
        BY <3>1, <3>3, <4>1 DEF NothingLost, ArchiveInInputOrder
      <4>3. /\ Status = "running"
            /\ Status' = IF cancelled THEN "cancelled" ELSE "complete"
        BY <3>1, <3>3 DEF Status
      <4>4. Abstract!End
        BY <3>1, <4>2, <4>3 DEF Abstract!End
      <4>5. QED
        BY <4>4 DEF Abstract!Next
    <3>4. QED
      BY <2>i, <3>2, <3>3 DEF TypeOK
  <2>6. CASE (\E w \in Workers : Worker(w)) \/ UNCHANGED vars
    <3>1. UNCHANGED mainVars
      BY <2>6 DEF Worker, Lock, TakeTask, Exit, Capture, Report, vars
    <3>2. QED
      BY <3>1 DEF mainVars, Abstract!vars, Status
  <2>7. QED
    BY <2>1, <2>2, <2>3, <2>4, <2>5, <2>6 DEF Next, Main, Terminated
<1>3. QED
  BY <1>1, <1>2, PoolInvariant, PTL
  DEF Spec, ImplementsOrderedArchive, Abstract!Spec

(***************************************************************************)
(* One-shot runs: the loop of a concurrency of one, or the pool.           *)
(***************************************************************************)

LEMMA LoopInit == RunInit => Sequential!LoopInv
<1> SUFFICES ASSUME RunInit PROVE Sequential!LoopInv
  OBVIOUS
<1>1. 0 \in 0 .. NumUrls
  OBVIOUS
<1>2. /\ loop = "next" /\ started = 0 /\ recorded = 0 /\ loopCancelled = FALSE
      /\ loopResult = "ok"
  BY DEF RunInit, Sequential!Init
<1>3. QED
  BY <1>1, <1>2 DEF Sequential!LoopInv, Sequential!TypeOK

LEMMA LoopStepInv == Sequential!LoopInv /\ Sequential!Loop => Sequential!LoopInv'
<1> SUFFICES ASSUME Sequential!LoopInv, Sequential!Loop PROVE Sequential!LoopInv'
  OBVIOUS
<1> USE DEF Sequential!LoopInv, Sequential!TypeOK
<1>1. CASE Sequential!Start
  <2>1. started < NumUrls => started + 1 \in 0 .. NumUrls
    OBVIOUS
  <2>2. CASE started' = started + 1 /\ loop' = "capturing" /\ UNCHANGED loopCancelled
    BY <1>1, <2>1, <2>2 DEF Sequential!Start
  <2>3. CASE loopCancelled' = TRUE /\ loop' = "returned" /\ UNCHANGED started
    BY <1>1, <2>3 DEF Sequential!Start
  <2>4. QED
    BY <1>1, <2>2, <2>3 DEF Sequential!Start
<1>2. CASE Sequential!Finish
  BY <1>2 DEF Sequential!Finish
<1>3. CASE Sequential!Capture
  BY <1>3 DEF Sequential!Capture
<1>4. CASE Sequential!Record
  BY <1>4 DEF Sequential!Record
<1>5. CASE Sequential!Written
  BY <1>5 DEF Sequential!Written
<1>6. QED
  BY <1>1, <1>2, <1>3, <1>4, <1>5 DEF Sequential!Loop

\* LoopInv: the loop has at most one capture in hand, every other is recorded, and
\* it goes on only while no callback cancelled and no record failed.
\* (archive_collection)
THEOREM LoopInvariant == RunSpec => []Sequential!LoopInv
<1>1. Sequential!LoopInv /\ [RunNext]_runVars => Sequential!LoopInv'
  <2> SUFFICES ASSUME Sequential!LoopInv, [RunNext]_runVars PROVE Sequential!LoopInv'
    OBVIOUS
  <2>1. CASE LoopStep
    BY <2>1, LoopStepInv DEF LoopStep
  <2>2. CASE UNCHANGED loopVars
    BY <2>2 DEF loopVars, Sequential!LoopInv, Sequential!TypeOK
  <2>3. QED
    BY <2>1, <2>2 DEF RunNext, runVars, PoolMain, PoolWorker
<1>2. QED
  BY <1>1, LoopInit, PTL DEF RunSpec

\* The loop implements OrderedArchive with a window of one: a URL is announced only
\* when the capture before it is archived, and a cancellation in any of the three
\* callbacks ends the run, with its capture archived.  (archive_collection)
THEOREM LoopImplementsOrderedArchive == RunSpec => SequentialImplementsOrderedArchive
<1> DEFINE Ordered == Sequential!Abstract!Next
           Same == UNCHANGED <<started, recorded, loopCancelled, Sequential!Status>>
<1>1. RunInit => Sequential!Abstract!Init
  BY DEF RunInit, Sequential!Init, Sequential!Abstract!Init, Sequential!Status
<1>2. ASSUME Sequential!LoopInv, Sequential!Loop PROVE Ordered \/ Same
  <2> USE <1>2 DEF Sequential!LoopInv, Sequential!TypeOK, Sequential!Status
  <2>1. CASE Sequential!Start
    <3>1. CASE started' = started + 1
      BY <2>1, <3>1 DEF Sequential!Start, Sequential!Abstract!Next, Sequential!Abstract!Accept
    <3>2. CASE started' = started
      BY <2>1, <3>2 DEF Sequential!Start, Sequential!Abstract!Next, Sequential!Abstract!End
    <3>3. QED
      BY <2>1, <3>1, <3>2 DEF Sequential!Start
  <2>2. CASE Sequential!Finish
    BY <2>2 DEF Sequential!Finish, Sequential!Abstract!Next, Sequential!Abstract!End
  <2>3. CASE Sequential!Capture
    <3>1. CASE loopCancelled' = loopCancelled
      BY <2>3, <3>1 DEF Sequential!Capture
    <3>2. CASE loopCancelled' = TRUE
      BY <2>3, <3>2 DEF Sequential!Capture, Sequential!Abstract!Next, Sequential!Abstract!Stop
    <3>3. QED
      BY <2>3, <3>1, <3>2 DEF Sequential!Capture
  <2>4. CASE Sequential!Record
    <3>1. CASE recorded' = recorded + 1
      BY <2>4, <3>1 DEF Sequential!Record, Sequential!Abstract!Next, Sequential!Abstract!Archive
    <3>2. CASE loopResult' = "error"
      BY <2>4, <3>2 DEF Sequential!Record, Sequential!Abstract!Next, Sequential!Abstract!Fail
    <3>3. QED
      BY <2>4, <3>1, <3>2 DEF Sequential!Record
  <2>5. CASE Sequential!Written
    <3>1. CASE loopCancelled'
      BY <2>5, <3>1 DEF Sequential!Written, Sequential!Abstract!Next, Sequential!Abstract!End
    <3>2. CASE ~loopCancelled'
      BY <2>5, <3>2 DEF Sequential!Written
    <3>3. QED
      BY <3>1, <3>2
  <2>6. QED
    BY <2>1, <2>2, <2>3, <2>4, <2>5 DEF Sequential!Loop
<1>3. ASSUME UNCHANGED loopVars PROVE Same
  BY <1>3 DEF loopVars, Sequential!Status
<1>4. Sequential!LoopInv /\ [RunNext]_runVars => [Ordered]_(Sequential!Abstract!vars)
  BY <1>2, <1>3 DEF RunNext, runVars, LoopStep, PoolMain, PoolWorker, Sequential!Abstract!vars
<1>5. QED
  BY <1>1, <1>4, LoopInvariant, PTL
     DEF RunSpec, SequentialImplementsOrderedArchive, Sequential!ImplementsOrderedArchive,
         Sequential!Abstract!Spec

\* Whatever the concurrency, the pool of a one-shot run behaves as CapturePool says,
\* so that what is proved of it holds of the run.  (archive_collection)
THEOREM RunsThePool == RunSpec => Spec
<1>1. RunInit => Init
  BY DEF RunInit
<1>2. [RunNext]_runVars => [Next]_vars
  BY DEF RunNext, runVars, LoopStep, PoolMain, PoolWorker, Next
<1>3. QED
  BY <1>1, <1>2, PTL DEF RunSpec, Spec

-----------------------------------------------------------------------------
(***************************************************************************)
(* Reading the records of a stream.                                        *)
(***************************************************************************)

\* Of naturals that are not none, one is the least.
LEMMA LeastIs ==
  ASSUME NEW S, S \subseteq Nat, S # {}
  PROVE  Least(S) \in S /\ \A k \in S : Least(S) <= k
<1> DEFINE R == OpToRel(<, Nat)
<1>1. IsWellFoundedOn(R, Nat)
  BY NatLessThanWellFounded
<1>2. PICK m \in S : \A k \in S : <<k, m>> \notin R
  <2> HIDE DEF R
  <2> QED
    BY <1>1, WFMin
<1>3. \A k \in S : ~(k < m)
  BY <1>2 DEF OpToRel
<1>4. \A k \in S : m <= k
  BY <1>3
<1>5. QED
  BY <1>4 DEF Least

LEMMA FileFacts ==
  ASSUME NEW f, Readable(f)
  PROVE  /\ f.gzip \in BOOLEAN /\ f.octets \in Seq(Octets) /\ f.ends \in Seq(Nat)
         /\ f.broken \in BOOLEAN
         /\ Len(f.octets) \in Nat /\ Len(f.ends) \in Nat
         /\ \A n \in 1 .. Len(f.octets) : f.octets[n] \in Octets
         /\ \A m \in 1 .. Len(f.ends) : f.ends[m] \in Nat /\ f.ends[m] <= Len(f.octets)
         /\ Len(f.ends) > 0 => f.ends[Len(f.ends)] = Len(f.octets)
         /\ Len(f.ends) = 0 => Len(f.octets) = 0 /\ ~f.broken
         /\ \A m, k \in 1 .. Len(f.ends) : m <= k => f.ends[m] <= f.ends[k]
<1>1. /\ f.gzip \in BOOLEAN /\ f.octets \in Seq(Octets) /\ f.ends \in Seq(Nat)
      /\ f.broken \in BOOLEAN
  BY DEF Readable
<1>2. /\ Len(f.octets) \in Nat /\ Len(f.ends) \in Nat
      /\ \A n \in 1 .. Len(f.octets) : f.octets[n] \in Octets
      /\ \A m \in 1 .. Len(f.ends) : f.ends[m] \in Nat
  BY <1>1
<1>3. /\ Len(f.ends) > 0 => f.ends[Len(f.ends)] = Len(f.octets)
      /\ Len(f.ends) = 0 => Len(f.octets) = 0 /\ ~f.broken
      /\ \A m, k \in 1 .. Len(f.ends) : m <= k => f.ends[m] <= f.ends[k]
  BY <1>1, <1>2 DEF Readable
<1>4. \A m \in 1 .. Len(f.ends) : f.ends[m] <= Len(f.octets)
  BY <1>2, <1>3
<1>5. QED
  BY <1>1, <1>2, <1>3, <1>4

\* What follows an octet.
LEMMA Grammar ==
  ASSUME NEW f, Readable(f), NEW n \in 1 .. Len(f.octets), n < Len(f.octets)
  PROVE  /\ n + 1 \in 1 .. Len(f.octets)
         /\ f.octets[n] \in {"lf", "body"} => f.octets[n + 1] \in {"cr", "lf", "line"}
         /\ f.octets[n] = "cr" => f.octets[n + 1] = "lf"
         /\ f.octets[n] = "line" => f.octets[n + 1] \in {"fields", "mess"}
         /\ f.octets[n] = "fields" => f.octets[n + 1] \in {"body", "slip"}
         /\ f.octets[n] \notin {"mess", "slip"}
<1>1. Len(f.octets) \in Nat
  BY FileFacts
<1>2. n \in 1 .. Len(f.octets) - 1 /\ n + 1 \in 1 .. Len(f.octets)
  BY <1>1
<1>3. f.octets[n + 1] \in Successors(f.octets[n])
  BY <1>2 DEF Readable
<1>4. f.octets[n] \in Octets
  BY FileFacts
<1>5. QED
  BY <1>2, <1>3, <1>4 DEF Successors, Octets

\* What follows a boundary.
LEMMA AfterBoundary ==
  ASSUME NEW f, Readable(f), NEW pos \in Nat, pos < Len(f.octets), Boundary(f, pos)
  PROVE  f.octets[pos + 1] \in {"cr", "lf", "line"}
<1>0. Len(f.octets) \in Nat /\ f.octets \in Seq(Octets)
  BY FileFacts
<1>1. CASE pos = 0
  <2>1. f.octets # <<>>
    BY <1>0, <1>1
  <2>2. QED
    BY <2>1, <1>1 DEF Readable
<1>2. CASE pos # 0
  <2>1. pos \in 1 .. Len(f.octets)
    BY <1>0, <1>2
  <2>2. f.octets[pos] \in {"lf", "body"}
    <3>1. f.octets[pos] \in Octets
      BY <2>1, FileFacts
    <3>2. QED
      BY <3>1, <1>2 DEF Boundary, LastOctet, Octets
  <2>3. QED
    BY <2>1, <2>2, Grammar
<1>3. QED
  BY <1>1, <1>2

LEMMA NewSourceOK ==
  ASSUME NEW f, Readable(f)
  PROVE  SourceOK(f, NewSource) /\ Sound(f, NewSource)
BY FileFacts DEF SourceOK, Sound, NewSource

\* Members counted are finitely many.
LEMMA HeldNat ==
  ASSUME NEW f, NEW s, s.held \in Nat, s.mem \in Nat, NEW upto \in Int
  PROVE  HeldThrough(f, s, upto) \in Nat
<1> DEFINE S == {m \in s.mem .. upto : m > 0 /\ Holds(f, m)}
<1>1. IsFiniteSet(s.mem .. upto)
  BY FS_Interval
<1>2. S \subseteq s.mem .. upto
  OBVIOUS
<1>3. IsFiniteSet(S)
  BY <1>1, <1>2, FS_Subset
<1>4. Cardinality(S) \in Nat
  BY <1>3, FS_CardinalityType
<1>5. HeldThrough(f, s, upto) = s.held + Cardinality(S)
  BY DEF HeldThrough
<1> HIDE DEF S
<1>6. QED
  BY <1>4, <1>5

\* fill_buf gives the next octet, or tells once, of a stream that is broken at its
\* end, that it is; it consumes nothing.
LEMMA FilledIs ==
  ASSUME NEW f, Readable(f), NEW s, SourceOK(f, s)
  PROVE  /\ SourceOK(f, Filled(f, s).to)
         /\ Filled(f, s).to.pos = s.pos
         /\ s.pos < Len(f.octets) =>
              /\ Filled(f, s).read = f.octets[s.pos + 1]
              /\ Filled(f, s).to.mode = "reading"
              /\ Filled(f, s).to.mem > 0
         /\ s.pos = Len(f.octets) =>
              /\ Filled(f, s).read \in {"eof", "error"}
              /\ Filled(f, s).to.mode = "done"
              /\ Sound(f, s) => Filled(f, s).read = IF f.broken THEN "error" ELSE "eof"
<1> DEFINE next == {m \in s.mem + 1 .. Len(f.ends) : f.ends[m] > s.pos}
           upto == IF next # {} THEN Least(next) - 1
                   ELSE IF f.broken THEN Len(f.ends) - 1 ELSE Len(f.ends)
           fresh == [mode |-> IF next # {} THEN "reading" ELSE "done",
                     mem |-> IF next # {} THEN Least(next) ELSE Len(f.ends),
                     pos |-> s.pos,
                     endedAt |-> upto,
                     held |-> HeldThrough(f, s, upto)]
           given == IF next # {} THEN f.octets[s.pos + 1]
                    ELSE IF f.broken THEN "error" ELSE "eof"
<1>0. /\ s \in [mode : {"reading", "failed", "done"}, mem : Nat, pos : Nat,
                endedAt : Nat, held : Nat]
      /\ s.mem <= Len(f.ends) /\ s.pos <= Len(f.octets)
      /\ s.mode # "reading" => s.pos = Len(f.octets)
      /\ Len(f.ends) \in Nat /\ Len(f.octets) \in Nat
  BY FileFacts DEF SourceOK
<1>1. CASE s.mode = "failed"
  <2>1. Filled(f, s) = [to |-> [s EXCEPT !.mode = "done"], read |-> "error"]
    BY <1>1 DEF Filled
  <2>2. /\ [s EXCEPT !.mode = "done"] \in [mode : {"reading", "failed", "done"}, mem : Nat,
                                           pos : Nat, endedAt : Nat, held : Nat]
        /\ [s EXCEPT !.mode = "done"].mode = "done"
        /\ [s EXCEPT !.mode = "done"].pos = s.pos
        /\ [s EXCEPT !.mode = "done"].mem = s.mem
    BY <1>0
  <2>3. SourceOK(f, [s EXCEPT !.mode = "done"])
    BY <2>2, <1>0, <1>1 DEF SourceOK
  <2>4. Filled(f, s).to = [s EXCEPT !.mode = "done"] /\ Filled(f, s).read = "error"
    BY <2>1
  <2>5. Sound(f, s) => f.broken
    BY <1>1 DEF Sound
  <2>6. s.pos = Len(f.octets)
    BY <1>0, <1>1
  <2>7. Sound(f, s) => Filled(f, s).read = IF f.broken THEN "error" ELSE "eof"
    BY <2>4, <2>5
  <2>8. /\ Filled(f, s).to.mode = "done" /\ Filled(f, s).to.pos = s.pos
        /\ SourceOK(f, Filled(f, s).to)
    BY <2>2, <2>3, <2>4
  <2>9. ~(s.pos < Len(f.octets))
    BY <2>6, <1>0
  <2>10. QED
    BY <2>4, <2>7, <2>8, <2>9
<1>2. CASE s.mode = "done"
  <2>1. Filled(f, s).to = s /\ Filled(f, s).read = "eof"
    BY <1>2 DEF Filled
  <2>2. Sound(f, s) => Filled(f, s).read = IF f.broken THEN "error" ELSE "eof"
    BY <2>1, <1>2 DEF Sound
  <2>3. ~(s.pos < Len(f.octets))
    BY <1>0, <1>2
  <2>4. /\ Filled(f, s).to.mode = "done" /\ Filled(f, s).to.pos = s.pos
        /\ SourceOK(f, Filled(f, s).to)
    BY <2>1, <1>2
  <2>5. QED
    BY <2>1, <2>2, <2>3, <2>4
<1>3. CASE s.mode = "reading" /\ s.mem > 0 /\ s.pos < f.ends[s.mem]
  <2>1. Filled(f, s).to = s /\ Filled(f, s).read = f.octets[s.pos + 1]
    BY <1>3 DEF Filled
  <2>2. s.pos < Len(f.octets)
    <3>1. s.mem \in 1 .. Len(f.ends)
      BY <1>0, <1>3
    <3>2. f.ends[s.mem] \in Nat /\ f.ends[s.mem] <= Len(f.octets)
      BY <3>1, FileFacts
    <3>3. s.pos \in Nat
      BY <1>0
    <3>4. QED
      BY <3>2, <3>3, <1>0, <1>3
  <2>3. s.pos # Len(f.octets)
    BY <2>2, <1>0
  <2>4. /\ Filled(f, s).to.mode = "reading" /\ Filled(f, s).to.pos = s.pos
        /\ Filled(f, s).to.mem > 0
        /\ SourceOK(f, Filled(f, s).to)
    BY <2>1, <1>3
  <2>5. QED
    BY <2>1, <2>2, <2>3, <2>4
<1>4. CASE s.mode = "reading" /\ ~(s.mem > 0 /\ s.pos < f.ends[s.mem])
  <2>1. Filled(f, s) = [to |-> fresh, read |-> given]
    BY <1>4 DEF Filled
  <2>2. next # {} => Least(next) \in next
    <3>1. next \subseteq Nat
      BY <1>0
    <3> HIDE DEF next
    <3>2. QED
      BY <3>1, LeastIs
  <2>3. next # {} <=> s.pos < Len(f.octets)
    <3>1. ASSUME s.pos < Len(f.octets) PROVE Len(f.ends) \in next
      <4>1. Len(f.ends) > 0 /\ f.ends[Len(f.ends)] = Len(f.octets)
        BY <3>1, <1>0, FileFacts
      <4>2. s.mem # Len(f.ends)
        BY <4>1, <3>1, <1>4
      <4>3. QED
        BY <4>1, <4>2, <3>1, <1>0
    <3>2. ASSUME NEW m \in next PROVE s.pos < Len(f.octets)
      <4>1. m \in 1 .. Len(f.ends) /\ f.ends[m] > s.pos
        BY <1>0
      <4>2. f.ends[m] <= Len(f.octets) /\ f.ends[m] \in Nat
        BY <4>1, FileFacts
      <4>3. QED
        BY <4>1, <4>2, <1>0
    <3>3. QED
      BY <3>1, <3>2
  <2>4. /\ next # {} => Least(next) \in 1 .. Len(f.ends)
        /\ upto \in Nat
    <3>1. next # {} => Least(next) \in s.mem + 1 .. Len(f.ends)
      BY <2>2
    <3>2. f.broken => Len(f.ends) > 0
      BY <1>0, FileFacts
    <3> HIDE DEF next
    <3>3. QED
      BY <3>1, <3>2, <1>0
  <2>5. HeldThrough(f, s, upto) \in Nat
    <3> HIDE DEF upto
    <3> QED
      BY <2>4, <1>0, HeldNat
  <2> HIDE DEF next, upto
  <2>6. SourceOK(f, fresh)
    BY <2>3, <2>4, <2>5, <1>0 DEF SourceOK
  <2>7. QED
    BY <2>1, <2>3, <2>4, <2>6, <1>0, <1>4 DEF Sound
<1>5. QED
  BY <1>0, <1>1, <1>2, <1>3, <1>4

LEMMA ConsumedIs ==
  ASSUME NEW f, Readable(f), NEW s, SourceOK(f, s), s.mode = "reading", s.pos < Len(f.octets)
  PROVE  /\ SourceOK(f, Consumed(s)) /\ Sound(f, Consumed(s))
         /\ Consumed(s).pos = s.pos + 1
         /\ Consumed(s).mode = "reading"
<1>1. Len(f.octets) \in Nat
  BY FileFacts
<1>2. /\ s \in [mode : {"reading", "failed", "done"}, mem : Nat, pos : Nat,
                endedAt : Nat, held : Nat]
      /\ s.mem <= Len(f.ends) /\ s.pos <= Len(f.octets)
  BY DEF SourceOK
<1>3. /\ Consumed(s) \in [mode : {"reading", "failed", "done"}, mem : Nat, pos : Nat,
                          endedAt : Nat, held : Nat]
      /\ Consumed(s).pos = s.pos + 1 /\ Consumed(s).mode = "reading"
      /\ Consumed(s).mem = s.mem
  BY <1>2 DEF Consumed
<1>4. QED
  BY <1>1, <1>2, <1>3 DEF SourceOK, Sound

\* Asking for the position consumes nothing, and forgets no failure.
LEMMA PositionedIs ==
  ASSUME NEW f, Readable(f), NEW s, SourceOK(f, s)
  PROVE  /\ SourceOK(f, Positioned(f, s).to)
         /\ Positioned(f, s).to.pos = s.pos
         /\ Sound(f, s) => Sound(f, Positioned(f, s).to)
         /\ Positioned(f, s).at \in Positions
<1> DEFINE filled == Filled(f, s)
           to == IF filled.read = "error" THEN [filled.to EXCEPT !.mode = "failed"]
                                          ELSE filled.to
           at == IF filled.read \in {"error", "eof"}
                 THEN [member |-> to.endedAt, boundary |-> TRUE, held |-> to.held]
                 ELSE [member |-> to.mem - 1,
                       boundary |-> to.pos = MemberStart(f, to.mem),
                       held |-> to.held]
<1>1. Positioned(f, s).to = to /\ Positioned(f, s).at = at
  BY DEF Positioned, PositionOnce
<1>2. /\ SourceOK(f, filled.to) /\ filled.to.pos = s.pos
      /\ s.pos < Len(f.octets) =>
           /\ filled.read = f.octets[s.pos + 1]
           /\ filled.to.mode = "reading" /\ filled.to.mem > 0
      /\ s.pos = Len(f.octets) =>
           /\ filled.read \in {"eof", "error"}
           /\ filled.to.mode = "done"
           /\ Sound(f, s) => filled.read = IF f.broken THEN "error" ELSE "eof"
  BY FilledIs
<1>3. /\ s.pos \in Nat /\ Len(f.octets) \in Nat /\ s.pos <= Len(f.octets)
  BY FileFacts DEF SourceOK
<1>4. /\ filled.to \in [mode : {"reading", "failed", "done"}, mem : Nat, pos : Nat,
                        endedAt : Nat, held : Nat]
      /\ filled.to.mem <= Len(f.ends) /\ filled.to.pos <= Len(f.octets)
  BY <1>2 DEF SourceOK
<1> HIDE DEF filled
<1>5. CASE s.pos < Len(f.octets)
  <2>1. filled.read \in Octets
    <3>1. s.pos + 1 \in 1 .. Len(f.octets)
      BY <1>3, <1>5
    <3>2. QED
      BY <3>1, <1>2, <1>5, FileFacts
  <2>2. filled.read \notin {"eof", "error"}
    BY <2>1 DEF Octets
  <2>3. to = filled.to
    BY <2>2
  <2>4. at = [member |-> filled.to.mem - 1,
              boundary |-> filled.to.pos = MemberStart(f, filled.to.mem),
              held |-> filled.to.held]
    BY <2>2
  <2>5. at \in Positions
    <3>1. filled.to.mem - 1 \in Nat /\ filled.to.held \in Nat
      BY <1>2, <1>4, <1>5
    <3>2. (filled.to.pos = MemberStart(f, filled.to.mem)) \in BOOLEAN
      OBVIOUS
    <3> HIDE DEF at
    <3>3. QED
      BY <2>4, <3>1, <3>2 DEF Positions
  <2>6. Sound(f, filled.to)
    BY <1>2, <1>5 DEF Sound
  <2> HIDE DEF to, at
  <2>7. QED
    BY <1>1, <1>2, <2>3, <2>5, <2>6
<1>6. CASE s.pos = Len(f.octets)
  <2>1. at = [member |-> to.endedAt, boundary |-> TRUE, held |-> to.held]
    BY <1>2, <1>6
  <2>2. /\ to \in [mode : {"reading", "failed", "done"}, mem : Nat, pos : Nat,
                   endedAt : Nat, held : Nat]
        /\ to.mem = filled.to.mem /\ to.pos = filled.to.pos
    <3>1. CASE filled.read = "error"
      BY <3>1, <1>4
    <3>2. CASE filled.read # "error"
      BY <3>2, <1>4
    <3>3. QED
      BY <3>1, <3>2
  <2>3. at \in Positions
    <3> HIDE DEF to, at
    <3> QED
      BY <2>1, <2>2 DEF Positions
  <2>4. SourceOK(f, to)
    <3> HIDE DEF to
    <3> QED
      BY <2>2, <1>2, <1>3, <1>4, <1>6 DEF SourceOK
  <2>5. ASSUME Sound(f, s) PROVE Sound(f, to)
    <3>1. filled.read = IF f.broken THEN "error" ELSE "eof"
      BY <2>5, <1>2, <1>6
    <3>2. CASE f.broken
      <4>1. to.mode = "failed"
        BY <3>1, <3>2, <1>4
      <4> HIDE DEF to
      <4>2. QED
        BY <4>1, <3>2 DEF Sound
    <3>3. CASE ~f.broken
      <4>1. to.mode = "done"
        BY <3>1, <3>3, <1>2, <1>6
      <4> HIDE DEF to
      <4>2. QED
        BY <4>1, <3>3 DEF Sound
    <3>4. QED
      BY <3>2, <3>3
  <2> HIDE DEF to, at
  <2>6. QED
    BY <1>1, <1>2, <2>2, <2>3, <2>4, <2>5
<1>7. QED
  BY <1>3, <1>5, <1>6

\* A line read from a boundary: a blank one, a record's first, or the end.
LineFrom(f, pos, r) ==
    /\ SourceOK(f, r.to) /\ r.octets \in {0, 1}
    /\ \/ /\ r.line = "blank" /\ r.octets = 0 /\ Sound(f, r.to)
          /\ \/ r.to.pos = pos + 1 /\ f.octets[pos + 1] = "lf"
             \/ /\ r.to.pos = pos + 2 /\ f.octets[pos + 1] = "cr"
                /\ f.octets[pos + 2] = "lf"
       \/ /\ r.line = "line" /\ r.octets = 1 /\ Sound(f, r.to)
          /\ r.to.pos = pos + 1 /\ f.octets[pos + 1] = "line"
       \/ /\ r.line = "eof" /\ ~f.broken /\ Sound(f, r.to)
          /\ r.to.pos = Len(f.octets) /\ r.to.pos = pos + r.octets
          /\ r.octets = 1 => f.octets[pos + 1] = "cr"
       \/ /\ r.line = "error" /\ f.broken /\ r.to.pos = Len(f.octets)
          /\ r.to.pos = pos + r.octets
          /\ r.octets = 1 => f.octets[pos + 1] = "cr"

LEMMA LineReadIs ==
  ASSUME NEW f, Readable(f), NEW s, SourceOK(f, s), Sound(f, s), Boundary(f, s.pos)
  PROVE  LineFrom(f, s.pos, LineRead(f, s))
<1> DEFINE first == Filled(f, s)
           second == Filled(f, Consumed(first.to))
           r == LineRead(f, s)
<1>1. r = LineOnce(first, second)
  BY DEF LineRead
<1>2. /\ s.pos \in Nat /\ Len(f.octets) \in Nat /\ s.pos <= Len(f.octets)
      /\ f.broken \in BOOLEAN
  BY FileFacts DEF SourceOK
<1>3. /\ SourceOK(f, first.to) /\ first.to.pos = s.pos
      /\ s.pos < Len(f.octets) =>
           /\ first.read = f.octets[s.pos + 1]
           /\ first.to.mode = "reading"
      /\ s.pos = Len(f.octets) => first.read = IF f.broken THEN "error" ELSE "eof"
      /\ s.pos = Len(f.octets) => first.to.mode = "done"
  BY FilledIs
<1> HIDE DEF first
<1>4. CASE s.pos = Len(f.octets)
  <2>1. first.read \in {"eof", "error"}
    BY <1>2, <1>3, <1>4
  <2>2. r = [to |-> first.to, line |-> first.read, octets |-> 0]
    BY <1>1, <2>1 DEF LineOnce
  <2>3. ~f.broken => Sound(f, first.to)
    BY <1>3, <1>4 DEF Sound
  <2>4. r.to = first.to /\ r.line = first.read /\ r.octets = 0
    BY <2>2
  <2> HIDE DEF r, LineFrom
  <2>5. SourceOK(f, r.to) /\ r.to.pos = s.pos + r.octets /\ r.to.pos = Len(f.octets)
    BY <2>4, <1>2, <1>3, <1>4
  <2>6. CASE f.broken
    BY <2>4, <2>5, <2>6, <1>3, <1>4 DEF r, LineFrom
  <2>7. CASE ~f.broken
    BY <2>3, <2>4, <2>5, <2>7, <1>3, <1>4 DEF r, LineFrom
  <2>8. QED
    BY <2>6, <2>7
<1>5. CASE s.pos < Len(f.octets)
  <2>1. first.read = f.octets[s.pos + 1] /\ first.read \in {"cr", "lf", "line"}
    BY <1>2, <1>3, <1>5, AfterBoundary
  <2> DEFINE next == Consumed(first.to)
  <2>2. SourceOK(f, next) /\ Sound(f, next) /\ next.pos = s.pos + 1
    BY <1>2, <1>3, <1>5, ConsumedIs
  <2>3. CASE first.read = "lf"
    <3>1. r = [to |-> next, line |-> "blank", octets |-> 0]
      BY <1>1, <2>3 DEF LineOnce
    <3>2. r.to = next /\ r.line = "blank" /\ r.octets = 0
      BY <3>1
    <3> HIDE DEF next, r
    <3>3. QED
      BY <3>2, <2>1, <2>2, <2>3 DEF r, LineFrom
  <2>4. CASE first.read = "line"
    <3>1. r = [to |-> next, line |-> "line", octets |-> 1]
      BY <1>1, <2>4 DEF LineOnce
    <3>2. r.to = next /\ r.line = "line" /\ r.octets = 1
      BY <3>1
    <3> HIDE DEF next, r
    <3>3. QED
      BY <3>2, <2>1, <2>2, <2>4 DEF r, LineFrom
  <2>5. CASE first.read = "cr"
    <3>1. /\ SourceOK(f, second.to) /\ second.to.pos = s.pos + 1
          /\ s.pos + 1 < Len(f.octets) =>
               /\ second.read = f.octets[s.pos + 1 + 1]
               /\ second.to.mode = "reading"
          /\ s.pos + 1 = Len(f.octets) =>
               /\ second.read = IF f.broken THEN "error" ELSE "eof"
               /\ second.to.mode = "done"
      <4> HIDE DEF next
      <4>1. second = Filled(f, next)
        BY DEF next
      <4> HIDE DEF second
      <4>2. QED
        BY <4>1, <2>2, FilledIs
    <3> HIDE DEF second
    <3>2. CASE s.pos + 1 = Len(f.octets)
      <4>1. second.read \in {"eof", "error"}
        BY <3>1, <3>2, <1>2
      <4>2. r = [to |-> second.to, line |-> second.read, octets |-> 1]
        BY <1>1, <2>5, <4>1 DEF LineOnce
      <4>3. r.to = second.to /\ r.line = second.read /\ r.octets = 1
        BY <4>2
      <4>4. ~f.broken => Sound(f, second.to)
        BY <3>1, <3>2 DEF Sound
      <4>5. CASE f.broken
        <5> HIDE DEF r, LineFrom
        <5> QED
          BY <4>3, <4>5, <3>1, <3>2, <2>1, <2>5 DEF r, LineFrom
      <4>6. CASE ~f.broken
        <5> HIDE DEF r, LineFrom
        <5> QED
          BY <4>3, <4>4, <4>6, <3>1, <3>2, <2>1, <2>5 DEF r, LineFrom
      <4>7. QED
        BY <4>5, <4>6
    <3>3. CASE s.pos + 1 < Len(f.octets)
      <4>1. second.read = "lf" /\ f.octets[s.pos + 2] = "lf"
        <5>1. s.pos + 1 \in 1 .. Len(f.octets) /\ s.pos + 1 + 1 = s.pos + 2
          BY <1>2, <1>5
        <5>2. f.octets[s.pos + 1 + 1] = "lf"
          BY <5>1, <3>3, <2>1, <2>5, Grammar
        <5>3. QED
          BY <5>1, <5>2, <3>1, <3>3
      <4>2. r = [to |-> Consumed(second.to), line |-> "blank", octets |-> 0]
        BY <1>1, <2>5, <4>1 DEF LineOnce
      <4>3. r.to = Consumed(second.to) /\ r.line = "blank" /\ r.octets = 0
        BY <4>2
      <4>4. /\ SourceOK(f, Consumed(second.to)) /\ Sound(f, Consumed(second.to))
            /\ Consumed(second.to).pos = s.pos + 1 + 1
        BY <3>1, <3>3, ConsumedIs
      <4>5. s.pos + 1 + 1 = s.pos + 2
        BY <1>2
      <4> HIDE DEF r, LineFrom
      <4>6. QED
        BY <4>1, <4>3, <4>4, <4>5, <2>1, <2>5 DEF r, LineFrom
    <3>4. QED
      BY <3>2, <3>3, <1>2, <1>5
  <2>6. QED
    BY <2>1, <2>3, <2>4, <2>5
<1>6. QED
  BY <1>2, <1>4, <1>5

LEMMA BlankLinesNat ==
  ASSUME NEW f, NEW n \in Nat
  PROVE  /\ IsFiniteSet({k \in 1 .. n - 1 : f.octets[k] = "lf"
                           /\ \A l \in k .. n - 1 : f.octets[l] \in {"cr", "lf"}})
         /\ BlankLines(f, n) \in Nat
<1> DEFINE S == {k \in 1 .. n - 1 : f.octets[k] = "lf"
                   /\ \A l \in k .. n - 1 : f.octets[l] \in {"cr", "lf"}}
<1>1. IsFiniteSet(1 .. n - 1)
  BY FS_Interval
<1>2. S \subseteq 1 .. n - 1
  OBVIOUS
<1>3. IsFiniteSet(S)
  BY <1>1, <1>2, FS_Subset
<1>4. BlankLines(f, n) = Cardinality(S)
  BY DEF BlankLines
<1>5. Cardinality(S) \in Nat
  BY <1>3, FS_CardinalityType
<1>6. QED
  BY <1>3, <1>4, <1>5

\* After an octet of no blank line, there is no blank line.
LEMMA NoBlankLines ==
  ASSUME NEW f, NEW n \in Nat, n = 0 \/ f.octets[n] \notin {"cr", "lf"}
  PROVE  BlankLines(f, n + 1) = 0
<1> DEFINE S == {k \in 1 .. n + 1 - 1 : f.octets[k] = "lf"
                   /\ \A l \in k .. n + 1 - 1 : f.octets[l] \in {"cr", "lf"}}
<1>1. S = {}
  <2>1. ASSUME NEW k \in S PROVE FALSE
    <3>1. k \in 1 .. n /\ \A l \in k .. n : f.octets[l] \in {"cr", "lf"}
      OBVIOUS
    <3>2. n \in k .. n
      BY <3>1
    <3>3. QED
      BY <3>1, <3>2
  <2>2. QED
    BY <2>1
<1>2. BlankLines(f, n + 1) = Cardinality(S)
  BY DEF BlankLines
<1>3. QED
  BY <1>1, <1>2, FS_EmptySet

\* The line feed of a blank line counts it.
LEMMA OneMoreBlankLine ==
  ASSUME NEW f, NEW n \in Nat \ {0}, f.octets[n] = "lf"
  PROVE  BlankLines(f, n + 1) = BlankLines(f, n) + 1
<1> DEFINE S == {k \in 1 .. n - 1 : f.octets[k] = "lf"
                   /\ \A l \in k .. n - 1 : f.octets[l] \in {"cr", "lf"}}
           T == {k \in 1 .. n + 1 - 1 : f.octets[k] = "lf"
                   /\ \A l \in k .. n + 1 - 1 : f.octets[l] \in {"cr", "lf"}}
<1>1. T = S \cup {n}
  <2>1. ASSUME NEW k \in T PROVE k \in S \cup {n}
    OBVIOUS
  <2>2. ASSUME NEW k \in S PROVE k \in T
    <3>1. k \in 1 .. n - 1 /\ f.octets[k] = "lf"
          /\ \A l \in k .. n - 1 : f.octets[l] \in {"cr", "lf"}
      OBVIOUS
    <3>2. ASSUME NEW l \in k .. n PROVE f.octets[l] \in {"cr", "lf"}
      <4>1. l = n \/ l \in k .. n - 1
        BY <3>1
      <4>2. QED
        BY <4>1, <3>1
    <3>3. QED
      BY <3>1, <3>2
  <2>3. n \in T
    <3>1. \A l \in n .. n : l = n
      OBVIOUS
    <3>2. n \in 1 .. n + 1 - 1 /\ n .. n + 1 - 1 = n .. n
      OBVIOUS
    <3>3. QED
      BY <3>1, <3>2
  <2>4. QED
    BY <2>1, <2>2, <2>3
<1>2. n \notin S
  OBVIOUS
<1>3. IsFiniteSet(S)
  BY BlankLinesNat
<1>4. BlankLines(f, n) = Cardinality(S) /\ BlankLines(f, n + 1) = Cardinality(T)
  BY DEF BlankLines
<1> HIDE DEF S, T
<1>5. QED
  BY <1>1, <1>2, <1>3, <1>4, FS_AddElement

\* Its carriage return does not.
LEMMA SameBlankLines ==
  ASSUME NEW f, NEW n \in Nat \ {0}, f.octets[n] = "cr"
  PROVE  BlankLines(f, n + 1) = BlankLines(f, n)
<1> DEFINE S == {k \in 1 .. n - 1 : f.octets[k] = "lf"
                   /\ \A l \in k .. n - 1 : f.octets[l] \in {"cr", "lf"}}
           T == {k \in 1 .. n + 1 - 1 : f.octets[k] = "lf"
                   /\ \A l \in k .. n + 1 - 1 : f.octets[l] \in {"cr", "lf"}}
<1>1. ASSUME NEW k \in T PROVE k \in S
  <2>1. k \in 1 .. n + 1 - 1 /\ f.octets[k] = "lf"
        /\ \A l \in k .. n + 1 - 1 : f.octets[l] \in {"cr", "lf"}
    OBVIOUS
  <2>2. k # n /\ k \in 1 .. n - 1
    BY <2>1
  <2>3. \A l \in k .. n - 1 : l \in k .. n + 1 - 1
    BY <2>2
  <2>4. QED
    BY <2>1, <2>2, <2>3
<1>2. ASSUME NEW k \in S PROVE k \in T
  <2>1. k \in 1 .. n - 1 /\ f.octets[k] = "lf"
        /\ \A l \in k .. n - 1 : f.octets[l] \in {"cr", "lf"}
    OBVIOUS
  <2>2. ASSUME NEW l \in k .. n + 1 - 1 PROVE f.octets[l] \in {"cr", "lf"}
    <3>1. l = n \/ l \in k .. n - 1
      BY <2>1
    <3>2. QED
      BY <3>1, <2>1
  <2>3. k \in 1 .. n + 1 - 1
    BY <2>1
  <2>4. QED
    BY <2>1, <2>2, <2>3
<1>3. S = T
  BY <1>1, <1>2
<1>4. BlankLines(f, n) = Cardinality(S) /\ BlankLines(f, n + 1) = Cardinality(T)
  BY DEF BlankLines
<1> HIDE DEF S, T
<1>5. QED
  BY <1>3, <1>4

\* A blank line read is one more, and leaves the source at a boundary.
LEMMA BlankLineRead ==
  ASSUME NEW f, NEW pos \in Nat, NEW to \in Nat,
         \/ to = pos + 1 /\ f.octets[pos + 1] = "lf"
         \/ to = pos + 2 /\ f.octets[pos + 1] = "cr" /\ f.octets[pos + 2] = "lf"
  PROVE  /\ Boundary(f, to)
         /\ BlankLines(f, to + 1) = BlankLines(f, pos + 1) + 1
         /\ \A n \in Nat : n > pos /\ n <= to => f.octets[n] \in {"cr", "lf"}
<1>1. CASE to = pos + 1 /\ f.octets[pos + 1] = "lf"
  <2>1. BlankLines(f, to + 1) = BlankLines(f, to) + 1
    BY <1>1, OneMoreBlankLine
  <2>2. \A n \in Nat : n > pos /\ n <= to => n = pos + 1
    BY <1>1
  <2>3. to # 0
    BY <1>1
  <2>4. QED
    BY <2>1, <2>2, <2>3, <1>1 DEF Boundary, LastOctet
<1>2. CASE to = pos + 2 /\ f.octets[pos + 1] = "cr" /\ f.octets[pos + 2] = "lf"
  <2>1. BlankLines(f, to + 1) = BlankLines(f, to) + 1
    BY <1>2, OneMoreBlankLine
  <2>2. BlankLines(f, pos + 1 + 1) = BlankLines(f, pos + 1)
    BY <1>2, SameBlankLines
  <2>3. pos + 1 + 1 = to /\ to # 0
    BY <1>2
  <2>4. \A n \in Nat : n > pos /\ n <= to => n = pos + 1 \/ n = pos + 2
    BY <1>2
  <2>5. QED
    BY <2>1, <2>2, <2>3, <2>4, <1>2 DEF Boundary, LastOctet
<1>3. QED
  BY <1>1, <1>2

-----------------------------------------------------------------------------
(* What has been passed and told.                                          *)

\* Only a body ends a record.
LEMMA PassesOn ==
  ASSUME NEW f, Readable(f), NEW pos \in Nat, NEW to \in Nat, NEW given,
         Passes(f, pos, given), pos <= to,
         \A n \in Nat : n > pos /\ n <= to => n > Len(f.octets) \/ f.octets[n] # "body"
  PROVE  Passes(f, to, given)
<1>0. Len(f.octets) \in Nat
  BY FileFacts
<1>1. ASSUME NEW n \in Records(f) PROVE n + 2 <= pos <=> n + 2 <= to
  <2>1. n \in Nat /\ n + 2 <= Len(f.octets) /\ f.octets[n + 2] = "body"
    BY <1>0, FileFacts DEF Records
  <2>2. ~(n + 2 > pos /\ n + 2 <= to)
    BY <2>1, <1>0
  <2>3. QED
    BY <2>1, <2>2
<1>2. {n \in Records(f) : n + 2 <= pos} = {n \in Records(f) : n + 2 <= to}
  BY <1>1
<1>3. QED
  BY <1>2 DEF Passes

\* At the end of the stream all records are passed.
LEMMA PassesAll ==
  ASSUME NEW f, Readable(f), NEW given, Passes(f, Len(f.octets), given)
  PROVE  {given[i].record : i \in DOMAIN given} = Records(f)
<1>1. {n \in Records(f) : n + 2 <= Len(f.octets)} = Records(f)
  BY DEF Records
<1>2. QED
  BY <1>1 DEF Passes

\* A body read passes its record.
LEMMA PassesOneMore ==
  ASSUME NEW f, Readable(f), NEW pos \in Nat, NEW given \in Seq(Passed), NEW v \in RecordVerdicts,
         NEW first \in Nat, pos = first + 2, pos < Len(f.octets),
         f.octets[first + 1] = "line", f.octets[first + 2] = "fields",
         f.octets[pos + 1] = "body", Passes(f, pos, given)
  PROVE  /\ Passes(f, pos + 1, Append(given, [record |-> first + 1, verdict |-> v]))
         /\ \A i \in DOMAIN given : given[i].record < first + 1
<1> DEFINE new == Append(given, [record |-> first + 1, verdict |-> v])
<1>0. Len(f.octets) \in Nat /\ f.octets \in Seq(Octets)
  BY FileFacts
<1>1. /\ DOMAIN new = 1 .. Len(given) + 1 /\ DOMAIN given = 1 .. Len(given) /\ Len(given) \in Nat
      /\ \A i \in 1 .. Len(given) : new[i] = given[i]
      /\ new[Len(given) + 1] = [record |-> first + 1, verdict |-> v]
  <2>1. [record |-> first + 1, verdict |-> v] \in Passed
    BY DEF Passed
  <2>2. QED
    BY <2>1
<1>2. \A n \in Records(f) : n \in Nat /\ n + 2 <= Len(f.octets) /\ f.octets[n + 2] = "body"
  BY <1>0 DEF Records
<1>3. \A i \in DOMAIN given : given[i].record \in Records(f) /\ given[i].record + 2 <= pos
  BY DEF Passes
<1>4. \A i \in DOMAIN given : given[i].record < first + 1
  BY <1>2, <1>3
<1>5. first + 1 \in Records(f)
  <2>1. first + 1 \in 1 .. Len(f.octets) /\ first + 1 + 2 <= Len(f.octets) /\ first + 1 + 2 = pos + 1
    BY <1>0
  <2>2. QED
    BY <2>1, <1>0 DEF Records
<1>6. \A n \in Records(f) : n + 2 <= pos + 1 <=> (n + 2 <= pos \/ n = first + 1)
  BY <1>2
<1> HIDE DEF new
<1>7. {new[i].record : i \in DOMAIN new} = {given[i].record : i \in DOMAIN given} \cup {first + 1}
  <2>1. \A i \in DOMAIN new : i \in DOMAIN given \/ i = Len(given) + 1
    BY <1>1
  <2>2. DOMAIN given \subseteq DOMAIN new /\ Len(given) + 1 \in DOMAIN new
    BY <1>1
  <2>3. new[Len(given) + 1].record = first + 1
    BY <1>1
  <2>4. \A i \in DOMAIN given : new[i] = given[i]
    BY <1>1
  <2>5. QED
    BY <2>1, <2>2, <2>3, <2>4
<1>8. {new[i].record : i \in DOMAIN new} = {n \in Records(f) : n + 2 <= pos + 1}
  <2>1. {given[i].record : i \in DOMAIN given} = {n \in Records(f) : n + 2 <= pos}
    BY DEF Passes
  <2>2. QED
    BY <2>1, <1>5, <1>6, <1>7
<1>9. ASSUME NEW i \in DOMAIN new, NEW j \in DOMAIN new, i < j PROVE new[i].record < new[j].record
  <2>1. i \in DOMAIN given /\ new[i] = given[i]
    BY <1>1, <1>9
  <2>2. CASE j \in DOMAIN given
    BY <2>1, <2>2, <1>1, <1>9 DEF Passes
  <2>3. CASE j = Len(given) + 1
    BY <2>1, <2>3, <1>1, <1>4
  <2>4. QED
    BY <2>2, <2>3, <1>1
<1>10. Passes(f, pos + 1, new)
  BY <1>8, <1>9 DEF Passes
<1>11. QED
  BY <1>4, <1>10 DEF new

\* An error of the stream is told last.
LEMMA TellsError ==
  ASSUME NEW f, NEW told \in Seq(Yields), NEW given, NEW held,
         Tells(f, told, given, held, FALSE), NEW x \in Yields, x.record = 0
  PROVE  Tells(f, Append(told, x), given, held, TRUE)
<1> DEFINE new == Append(told, x)
           old == {i \in DOMAIN told : told[i].record # 0}
           now == {i \in DOMAIN new : new[i].record # 0}
<1>1. /\ DOMAIN new = 1 .. Len(told) + 1 /\ DOMAIN told = 1 .. Len(told) /\ Len(told) \in Nat
      /\ \A i \in 1 .. Len(told) : new[i] = told[i]
      /\ new[Len(told) + 1] = x
      /\ Len(new) = Len(told) + 1
  OBVIOUS
<1> HIDE DEF new
<1>2. now = old
  <2>1. \A i \in now : i # Len(told) + 1
    BY <1>1
  <2>2. QED
    BY <2>1, <1>1
<1>3. DOMAIN told \ old = {}
  BY DEF Tells
<1>4. DOMAIN new \ now = {Len(new)}
  <2>1. Len(told) + 1 \notin DOMAIN told
    BY <1>1
  <2>2. DOMAIN new = DOMAIN told \cup {Len(told) + 1}
    BY <1>1
  <2> HIDE DEF old, now
  <2>3. old = DOMAIN told
    BY <1>3 DEF old
  <2>4. QED
    BY <2>1, <2>2, <2>3, <1>1, <1>2
<1>5. \A i \in now : new[i] = told[i] /\ i \in old
  BY <1>1, <1>2
<1>6. {new[i].record : i \in now} = {told[i].record : i \in old}
  BY <1>2, <1>5
<1>7. /\ \A i, j \in now : i < j => new[i].record < new[j].record
      /\ \A i \in now, k \in DOMAIN given :
           given[k].record = new[i].record =>
               (new[i].refused <=> given[k].verdict = "refused")
      /\ \A i \in now : new[i].blank = BlankLines(f, new[i].record)
  BY <1>5 DEF Tells
<1>8. {new[i].record : i \in now}
        = {given[k].record : k \in {k \in DOMAIN given : given[k].verdict # "skipped"}} \ held
  BY <1>6 DEF Tells
<1>9. Tells(f, new, given, held, TRUE)
  BY <1>4, <1>7, <1>8 DEF Tells
<1>10. QED
  BY <1>9 DEF new

\* A record passed is held back first.
LEMMA TellsHeld ==
  ASSUME NEW f, NEW told, NEW given \in Seq(Passed), NEW r \in Nat, NEW v \in RecordVerdicts,
         Tells(f, told, given, {}, FALSE),
         \A i \in DOMAIN given : given[i].record < r
  PROVE  Tells(f, told, Append(given, [record |-> r, verdict |-> v]), {r}, FALSE)
<1> DEFINE new == Append(given, [record |-> r, verdict |-> v])
           records == {i \in DOMAIN told : told[i].record # 0}
           wanted == {k \in DOMAIN given : given[k].verdict # "skipped"}
           nowWanted == {k \in DOMAIN new : new[k].verdict # "skipped"}
<1>1. /\ DOMAIN new = 1 .. Len(given) + 1 /\ DOMAIN given = 1 .. Len(given) /\ Len(given) \in Nat
      /\ \A i \in 1 .. Len(given) : new[i] = given[i]
      /\ new[Len(given) + 1].record = r /\ new[Len(given) + 1].verdict = v
  <2>1. [record |-> r, verdict |-> v] \in Passed
    BY DEF Passed
  <2>2. QED
    BY <2>1
<1>2. \A i \in DOMAIN given : given[i].record \in Nat /\ given[i].record # r
  <2>1. \A i \in DOMAIN given : given[i] \in Passed
    OBVIOUS
  <2>2. QED
    BY <2>1 DEF Passed
<1> HIDE DEF new
<1>3. {new[k].record : k \in nowWanted} \ {r} = {given[k].record : k \in wanted}
  <2>1. ASSUME NEW k \in nowWanted, new[k].record # r PROVE k \in wanted /\ new[k] = given[k]
    BY <2>1, <1>1
  <2>2. ASSUME NEW k \in wanted PROVE k \in nowWanted /\ new[k] = given[k] /\ new[k].record # r
    BY <1>1, <1>2
  <2>3. ASSUME NEW x \in {new[k].record : k \in nowWanted} \ {r}
        PROVE  x \in {given[k].record : k \in wanted}
    <3>1. PICK k \in nowWanted : x = new[k].record
      OBVIOUS
    <3>2. QED
      BY <2>1, <3>1
  <2>4. ASSUME NEW x \in {given[k].record : k \in wanted}
        PROVE  x \in {new[k].record : k \in nowWanted} \ {r}
    <3>1. PICK k \in wanted : x = given[k].record
      OBVIOUS
    <3>2. QED
      BY <2>2, <3>1
  <2>5. QED
    BY <2>3, <2>4
<1>4. {told[i].record : i \in records} = {given[k].record : k \in wanted}
  BY DEF Tells
<1>5. ASSUME NEW i \in records, NEW k \in DOMAIN new, new[k].record = told[i].record
      PROVE  told[i].refused <=> new[k].verdict = "refused"
  <2>1. told[i].record \in {given[l].record : l \in wanted}
    BY <1>4
  <2>2. new[k].record # r
    BY <2>1, <1>2, <1>5
  <2>3. k \in DOMAIN given /\ new[k] = given[k]
    BY <2>2, <1>1
  <2>4. QED
    BY <2>3, <1>5 DEF Tells
<1>6. {told[i].record : i \in records} = {new[k].record : k \in nowWanted} \ {r}
  BY <1>3, <1>4
<1>7. Tells(f, told, new, {r}, FALSE)
  <2>1. /\ \A i, j \in records : i < j => told[i].record < told[j].record
        /\ \A i \in records : told[i].blank = BlankLines(f, told[i].record)
        /\ DOMAIN told \ records = {}
    BY DEF Tells
  <2>2. QED
    BY <2>1, <1>5, <1>6 DEF Tells
<1>8. QED
  BY <1>7 DEF new

\* One that is skipped is not told of.
LEMMA TellsSkipped ==
  ASSUME NEW f, NEW told, NEW given \in Seq(Passed), NEW r \in Nat, given # <<>>,
         \A i, j \in DOMAIN given : i < j => given[i].record < given[j].record,
         given[Len(given)] = [record |-> r, verdict |-> "skipped"],
         Tells(f, told, given, {r}, FALSE)
  PROVE  Tells(f, told, given, {}, FALSE)
<1> DEFINE wanted == {k \in DOMAIN given : given[k].verdict # "skipped"}
<1>1. Len(given) \in Nat /\ DOMAIN given = 1 .. Len(given) /\ Len(given) \in DOMAIN given
  OBVIOUS
<1>2. ASSUME NEW k \in wanted PROVE given[k].record # r
  <2>1. k # Len(given)
    OBVIOUS
  <2>2. given[k] \in Passed /\ given[k].record < given[Len(given)].record
    BY <2>1, <1>1
  <2>3. QED
    BY <2>2 DEF Passed
<1>3. {given[k].record : k \in wanted} \ {r} = {given[k].record : k \in wanted} \ {}
  BY <1>2
<1>4. QED
  BY <1>3 DEF Tells

\* One that is not is told of next, with its blank lines, as it was judged.
LEMMA TellsRecord ==
  ASSUME NEW f, NEW told \in Seq(Yields), NEW given \in Seq(Passed), NEW r \in Nat \ {0},
         NEW v \in {"kept", "refused"}, given # <<>>,
         \A i, j \in DOMAIN given : i < j => given[i].record < given[j].record,
         given[Len(given)] = [record |-> r, verdict |-> v],
         Tells(f, told, given, {r}, FALSE),
         NEW x \in Yields, x.record = r, x.refused <=> v = "refused", x.blank = BlankLines(f, r)
  PROVE  Tells(f, Append(told, x), given, {}, FALSE)
<1> DEFINE new == Append(told, x)
           old == {i \in DOMAIN told : told[i].record # 0}
           now == {i \in DOMAIN new : new[i].record # 0}
           wanted == {k \in DOMAIN given : given[k].verdict # "skipped"}
<1>1. /\ DOMAIN new = 1 .. Len(told) + 1 /\ DOMAIN told = 1 .. Len(told) /\ Len(told) \in Nat
      /\ \A i \in 1 .. Len(told) : new[i] = told[i]
      /\ new[Len(told) + 1] = x
  OBVIOUS
<1>2. Len(given) \in Nat /\ DOMAIN given = 1 .. Len(given) /\ Len(given) \in DOMAIN given
  OBVIOUS
<1>3. ASSUME NEW k \in DOMAIN given
      PROVE  given[k].record \in Nat /\ given[k].record <= r /\ (given[k].record = r => k = Len(given))
  <2>1. given[k] \in Passed /\ (k # Len(given) => given[k].record < given[Len(given)].record)
    BY <1>2
  <2>2. QED
    BY <2>1 DEF Passed
<1> HIDE DEF new
<1>4. now = old \cup {Len(told) + 1} /\ old \subseteq DOMAIN told
  <2>1. Len(told) + 1 \in now
    BY <1>1
  <2>2. \A i \in DOMAIN told : i \in now <=> i \in old
    BY <1>1
  <2>3. \A i \in now : i \in DOMAIN told \/ i = Len(told) + 1
    BY <1>1
  <2>4. QED
    BY <2>1, <2>2, <2>3
<1>5. \A i \in old : new[i] = told[i] /\ i # Len(told) + 1 /\ i < Len(told) + 1
  BY <1>1
<1>6. /\ {told[i].record : i \in old} = {given[k].record : k \in wanted} \ {r}
      /\ \A i, j \in old : i < j => told[i].record < told[j].record
      /\ \A i \in old, k \in DOMAIN given :
           given[k].record = told[i].record =>
               (told[i].refused <=> given[k].verdict = "refused")
      /\ \A i \in old : told[i].blank = BlankLines(f, told[i].record)
      /\ DOMAIN told \ old = {}
  BY DEF Tells
<1>7. Len(given) \in wanted /\ given[Len(given)].record = r
  BY <1>2
<1>8. ASSUME NEW i \in old PROVE told[i].record \in Nat /\ told[i].record < r
  <2>1. told[i].record \in {given[k].record : k \in wanted} \ {r}
    BY <1>6
  <2>2. PICK k \in wanted : told[i].record = given[k].record /\ given[k].record # r
    BY <2>1
  <2>3. k \in DOMAIN given
    OBVIOUS
  <2>4. given[k].record \in Nat /\ given[k].record <= r
    BY <2>3, <1>3
  <2>5. QED
    BY <2>2, <2>4
<1> HIDE DEF old, now, wanted
<1>9. {new[i].record : i \in now} = {given[k].record : k \in wanted} \ {}
  <2>1. {new[i].record : i \in now} = {told[i].record : i \in old} \cup {r}
    BY <1>1, <1>4, <1>5
  <2>2. r \in {given[k].record : k \in wanted}
    BY <1>7
  <2>3. QED
    BY <2>1, <2>2, <1>6
<1>10. ASSUME NEW i \in now, NEW j \in now, i < j PROVE new[i].record < new[j].record
  <2>1. i \in old
    <3>1. CASE i = Len(told) + 1
      <4>1. j \in old
        BY <3>1, <1>4, <1>10, <1>1
      <4>2. QED
        BY <4>1, <3>1, <1>5, <1>10, <1>1, <1>4
    <3>2. QED
      BY <3>1, <1>4
  <2>2. CASE j \in old
    BY <2>1, <2>2, <1>5, <1>6, <1>10
  <2>3. CASE j = Len(told) + 1
    BY <2>1, <2>3, <1>1, <1>5, <1>8
  <2>4. QED
    BY <2>2, <2>3, <1>4
<1>11. ASSUME NEW i \in now, NEW k \in DOMAIN given, given[k].record = new[i].record
       PROVE  new[i].refused <=> given[k].verdict = "refused"
  <2>1. CASE i \in old
    BY <2>1, <1>5, <1>6, <1>11
  <2>2. CASE i = Len(told) + 1
    <3>1. k = Len(given)
      BY <2>2, <1>1, <1>3, <1>11
    <3>2. QED
      BY <3>1, <2>2, <1>1
  <2>3. QED
    BY <2>1, <2>2, <1>4
<1>12. \A i \in now : new[i].blank = BlankLines(f, new[i].record)
  BY <1>1, <1>4, <1>5, <1>6
<1>13. DOMAIN new \ now = {}
  <2>1. DOMAIN new = DOMAIN told \cup {Len(told) + 1}
    BY <1>1
  <2>2. QED
    BY <2>1, <1>4, <1>6
<1>14. Tells(f, new, given, {}, FALSE)
  BY <1>9, <1>10, <1>11, <1>12, <1>13 DEF Tells, now, wanted
<1>15. QED
  BY <1>14 DEF new

-----------------------------------------------------------------------------
(* The parts of a step.                                                    *)

LEMMA BetweenIs ==
  ASSUME NEW from \in Positions, NEW to \in Positions
  PROVE  Between(from, to) \in Placements
<1>1. /\ from.member \in Nat /\ from.held \in Nat /\ from.boundary \in BOOLEAN
      /\ to.member \in Nat /\ to.held \in Nat /\ to.boundary \in BOOLEAN
  BY DEF Positions
<1>2. (IF to.boundary THEN to.member - from.member ELSE None) \in Int \cup {None}
  BY <1>1
<1>3. to.held - from.held + (IF to.boundary THEN 0 ELSE 1) \in Int
  BY <1>1
<1>4. QED
  BY <1>1, <1>2, <1>3 DEF Between, Placements

LEMMA RecordEndsIs ==
  ASSUME file \in Files, NEW s, SourceOK(file, s), NEW from \in Positions,
         placement \in Placements \cup {None}, RecordEnds(s, from)
  PROVE  /\ SourceOK(file, source') /\ source'.pos = s.pos
         /\ Sound(file, s) => Sound(file, source')
         /\ placement' \in Placements \cup {None}
         /\ file.gzip => placement' # None
<1>1. Readable(file)
  BY FilesAssumption
<1>2. CASE file.gzip
  <2>1. source' = Positioned(file, s).to
        /\ placement' = Between(from, Positioned(file, s).at)
    BY <1>2 DEF RecordEnds
  <2>2. placement' \in Placements
    BY <1>1, <2>1, PositionedIs, BetweenIs
  <2>3. QED
    BY <1>1, <2>1, <2>2, PositionedIs, NoneAssumption
<1>3. CASE ~file.gzip
  BY <1>3 DEF RecordEnds
<1>4. QED
  BY <1>2, <1>3

LEMMA ItemIs ==
  ASSUME NEW record \in Nat, NEW place \in Placements \cup {None},
         NEW from \in Nat, NEW upto \in Nat, NEW blank \in Nat, file.gzip => place # None
  PROVE  /\ Item(record, place, from, upto, blank) \in Yields
         /\ Item(record, place, from, upto, blank).record = record
         /\ Item(record, place, from, upto, blank).blank = blank
         /\ Item(record, place, from, upto, blank).refused
              = (record # 0 /\ verdict = "refused")
<1> DEFINE x == Item(record, place, from, upto, blank)
           refused == record # 0 /\ verdict = "refused"
<1>1. Frame(file, place, from, upto) \in FramesRead \cup {None}
  <2>1. CASE ~file.gzip
    BY <2>1 DEF Frame, FramesRead
  <2>2. CASE file.gzip
    <3>1. place.offset \in Nat /\ place.length \in Int \cup {None}
      BY <2>2 DEF Placements
    <3>2. QED
      BY <2>2, <3>1 DEF Frame, FramesRead
  <2>3. QED
    BY <2>1, <2>2
<1>2. refused \in BOOLEAN
  OBVIOUS
<1>3. x = [record |-> record, refused |-> refused,
           frame |-> Frame(file, place, from, upto), placement |-> place, blank |-> blank]
  BY DEF Item
<1> HIDE DEF refused
<1>4. /\ x.record = record /\ x.blank = blank /\ x.refused = refused
      /\ x \in Yields
  <2>1. x \in Yields
    BY <1>1, <1>2, <1>3 DEF Yields
  <2>2. QED
    BY <2>1, <1>3
<1>5. QED
  BY <1>4 DEF refused

LEMMA FuseIs ==
  ASSUME ReaderTypeOK, NEW s, SourceOK(file, s), start' \in Positions, offset' \in Nat,
         blankLines' \in Nat, Fuse(s)
  PROVE  /\ finished' = TRUE /\ phase' = "next"
         /\ SourceOK(file, source') /\ source'.pos = s.pos
         /\ placement' \in Placements \cup {None}
         /\ \E x \in Yields : x.record = 0 /\ items' = Append(items, x)
<1>1. file \in Files /\ placement \in Placements \cup {None} /\ s.pos \in Nat
  BY DEF ReaderTypeOK, SourceOK
<1>2. RecordEnds(s, start') /\ finished' = TRUE /\ phase' = "next"
      /\ items' = Append(items, Item(0, placement', offset', s.pos, blankLines'))
  BY DEF Fuse
<1>3. /\ SourceOK(file, source') /\ source'.pos = s.pos
      /\ placement' \in Placements \cup {None}
      /\ file.gzip => placement' # None
  <2>1. PICK from \in Positions : from = start'
    OBVIOUS
  <2>2. RecordEnds(s, from)
    BY <1>2, <2>1
  <2>3. QED
    BY <1>1, <2>2, RecordEndsIs
<1>4. PICK place \in Placements \cup {None}, from \in Nat, blank \in Nat, upto \in Nat, none \in Nat :
        /\ place = placement' /\ from = offset' /\ blank = blankLines'
        /\ upto = s.pos /\ none = 0
  BY <1>1, <1>3
<1>5. /\ Item(none, place, from, upto, blank) \in Yields
      /\ Item(none, place, from, upto, blank).record = none
  <2>1. file.gzip => place # None
    BY <1>3, <1>4
  <2>2. Item(none, place, from, upto, blank) \in Yields
    BY <2>1, ItemIs
  <2>3. Item(none, place, from, upto, blank).record = none
    BY DEF Item
  <2>4. QED
    BY <2>2, <2>3
<1>6. items' = Append(items, Item(none, place, from, upto, blank))
  BY <1>2, <1>4
<1>7. none = 0
  BY <1>4
<1>8. QED
  BY <1>2, <1>3, <1>5, <1>6, <1>7

LEMMA PaddingReadIs ==
  ASSUME ReaderTypeOK, Boundary(file, source.pos), Sound(file, source)
  PROVE  /\ LineFrom(file, source.pos, PaddingRead)
         /\ PaddingRead.began \in Nat \cup {None}
         /\ PaddingRead.start \in Positions
         /\ PaddingRead.placement \in Placements \cup {None}
         /\ placement # None => PaddingRead.placement # None
<1> DEFINE position == IF file.gzip THEN Positioned(file, source)
                       ELSE [to |-> source, at |-> start]
           line == LineRead(file, position.to)
           boundary == file.gzip /\ position.at.boundary
           member == IF boundary THEN position.at.member ELSE began
<1>0. /\ Readable(file) /\ SourceOK(file, source) /\ start \in Positions
      /\ placement \in Placements \cup {None} /\ began \in Nat \cup {None}
  BY FilesAssumption DEF ReaderTypeOK
<1>1. /\ SourceOK(file, position.to) /\ position.to.pos = source.pos
      /\ Sound(file, position.to) /\ position.at \in Positions
  <2>1. CASE file.gzip
    BY <1>0, <2>1, PositionedIs
  <2>2. CASE ~file.gzip
    <3>1. position.to = source /\ position.at = start
      BY <2>2
    <3>2. QED
      BY <1>0, <3>1
  <2>3. QED
    BY <2>1, <2>2
<1>2. PaddingRead = PaddingOnce(position, line)
  BY DEF PaddingRead
<1> HIDE DEF position
<1>3. LineFrom(file, source.pos, line)
  <2>1. LineFrom(file, position.to.pos, LineRead(file, position.to))
    <3>1. Boundary(file, position.to.pos)
      BY <1>1
    <3>2. QED
      BY <1>0, <1>1, <3>1, LineReadIs
  <2>2. QED
    BY <2>1, <1>1
<1> HIDE DEF line
<1>4. /\ PaddingRead.to = line.to /\ PaddingRead.line = line.line
      /\ PaddingRead.octets = line.octets
      /\ PaddingRead.began = member
      /\ PaddingRead.start = IF file.gzip /\ line.line \in {"line", "eof"}
            THEN [position.at EXCEPT !.boundary = BeginsMember(member, position.at)]
            ELSE position.at
      /\ PaddingRead.placement = IF boundary /\ placement # None
            THEN Extended(placement, position.at) ELSE placement
  BY <1>2 DEF PaddingOnce
<1>5. LineFrom(file, source.pos, PaddingRead)
  BY <1>3, <1>4 DEF LineFrom
<1>6. PaddingRead.began \in Nat \cup {None}
  <2>1. position.at.member \in Nat
    BY <1>1 DEF Positions
  <2>2. QED
    BY <2>1, <1>0, <1>4
<1>7. PaddingRead.start \in Positions
  <2>1. BeginsMember(member, position.at) \in BOOLEAN
    BY DEF BeginsMember
  <2>2. [position.at EXCEPT !.boundary = BeginsMember(member, position.at)] \in Positions
    <3> HIDE DEF member
    <3> QED
      BY <2>1, <1>1 DEF Positions
  <2>3. QED
    BY <2>2, <1>1, <1>4
<1>8. ASSUME placement # None PROVE Extended(placement, position.at) \in Placements
  <2>1. placement \in Placements /\ position.at.member \in Nat
    BY <1>0, <1>1, <1>8 DEF Positions
  <2>2. PICK v \in Int : v = position.at.member - placement.offset
    BY <2>1 DEF Placements
  <2>3. Extended(placement, position.at) = [placement EXCEPT !.length = v]
    BY <2>2 DEF Extended
  <2>4. [placement EXCEPT !.length = v] \in Placements
    BY <2>1 DEF Placements
  <2>5. QED
    BY <2>3, <2>4
<1>9. PaddingRead.placement \in Placements \cup {None}
      /\ (placement # None => PaddingRead.placement # None)
  <2>1. \/ PaddingRead.placement = placement
        \/ placement # None /\ PaddingRead.placement = Extended(placement, position.at)
    BY <1>4
  <2>2. QED
    BY <2>1, <1>0, <1>8, NoneAssumption
<1>10. QED
  BY <1>5, <1>6, <1>7, <1>9

-----------------------------------------------------------------------------
(* The steps.                                                              *)

\* A failure of the stream is yielded, last, once the stream was read to its end.
LEMMA FailureStep ==
  ASSUME ReaderInv, ~finished, phase # "ahead", NEW s, SourceOK(file, s),
         s.pos = Len(file.octets), ~Clean(file),
         \A n \in Nat : n > source.pos /\ n <= Len(file.octets) => file.octets[n] # "body",
         UNCHANGED <<file, ended, passed, verdict, ahead, padding>>,
         start' \in Positions, offset' \in Nat, blankLines' \in Nat, buffered' \in {0, 1},
         buffered' <= s.pos, began' \in Nat \cup {None}, pendingError' \in BOOLEAN, Fuse(s)
  PROVE  ReaderInv'
<1>0. /\ ReaderTypeOK /\ Readable(file) /\ ~ended
      /\ source.pos \in Nat /\ source.pos <= Len(file.octets) /\ Len(file.octets) \in Nat
      /\ Tells(file, items, passed, {}, FALSE)
      /\ Passes(file, source.pos, passed)
  BY FilesAssumption, FileFacts DEF ReaderInv, ReaderTypeOK, SourceOK, Ending, ItemsExact, PassedExact
<1>1. /\ finished' = TRUE /\ phase' = "next"
      /\ SourceOK(file, source') /\ source'.pos = s.pos
      /\ placement' \in Placements \cup {None}
      /\ \E x \in Yields : x.record = 0 /\ items' = Append(items, x)
  BY <1>0, FuseIs
<1>2. PICK x \in Yields : x.record = 0 /\ items' = Append(items, x)
  BY <1>1
<1>3. ReaderTypeOK'
  <2>1. items' \in Seq(Yields)
    BY <1>0, <1>2 DEF ReaderTypeOK
  <2>2. SourceOK(file', source')
    BY <1>1
  <2>3. QED
    BY <1>0, <1>1, <2>1, <2>2 DEF ReaderTypeOK
<1>4. PassedExact'
  <2>1. Passes(file, Len(file.octets), passed)
    BY <1>0, PassesOn
  <2>2. QED
    BY <2>1, <1>1 DEF PassedExact
<1>5. ItemsExact'
  <2>1. items \in Seq(Yields)
    BY <1>0 DEF ReaderTypeOK
  <2>2. Tells(file, Append(items, x), passed, {}, TRUE)
    BY <2>1, <1>0, <1>2, TellsError
  <2>3. QED
    BY <2>2, <1>0, <1>1, <1>2 DEF ItemsExact
<1>6. Standing'
  BY <1>1 DEF Standing
<1>7. SourceSound'
  BY <1>1 DEF SourceSound
<1>8. Ending'
  BY <1>0, <1>1 DEF Ending
<1>9. QED
  BY <1>3, <1>4, <1>5, <1>6, <1>7, <1>8 DEF ReaderInv

LEMMA NotClean ==
  ASSUME NEW f, Readable(f), \/ f.broken
                             \/ /\ Len(f.octets) > 0
                                /\ f.octets[Len(f.octets)] \notin {"lf", "body"}
  PROVE  ~Clean(f)
BY FileFacts DEF Clean

LEMMA StateFacts ==
  ASSUME ReaderInv
  PROVE  /\ Readable(file) /\ SourceOK(file, source)
         /\ source.pos \in Nat /\ Len(file.octets) \in Nat /\ source.pos <= Len(file.octets)
         /\ offset \in Nat /\ blankLines \in Nat /\ start \in Positions /\ buffered \in {0, 1}
         /\ began \in Nat \cup {None} /\ pendingError \in BOOLEAN
         /\ buffered <= source.pos
BY FilesAssumption, FileFacts DEF ReaderInv, ReaderTypeOK, SourceOK

LEMMA YieldPendingInv ==
  ASSUME ReaderInv, YieldPending
  PROVE  ReaderInv'
<1>0. /\ Readable(file) /\ SourceOK(file, source) /\ source.pos \in Nat
      /\ Len(file.octets) \in Nat
      /\ offset \in Nat /\ blankLines \in Nat /\ start \in Positions /\ buffered \in {0, 1}
      /\ began \in Nat \cup {None} /\ buffered <= source.pos
  BY StateFacts
<1>1. /\ ~finished /\ phase = "next" /\ pendingError /\ pendingError' = FALSE
      /\ offset' = source.pos - buffered
      /\ UNCHANGED <<file, ended, ahead, padding, began, buffered, blankLines, verdict, start, passed>>
      /\ Fuse(source)
  BY DEF YieldPending, paddingVars
<1>2. source.pos = Len(file.octets) /\ file.broken
  BY <1>1 DEF ReaderInv, Standing
<1>3. ~Clean(file)
  BY <1>0, <1>2, NotClean
<1>4. offset' \in Nat
  BY <1>0, <1>1
<1>5. \A n \in Nat : n > source.pos /\ n <= Len(file.octets) => file.octets[n] # "body"
  BY <1>0, <1>2
<1>6. /\ UNCHANGED <<file, ended, passed, verdict, ahead, padding>>
      /\ start' \in Positions /\ blankLines' \in Nat /\ buffered' \in {0, 1}
      /\ buffered' <= source.pos /\ began' \in Nat \cup {None} /\ pendingError' \in BOOLEAN
  BY <1>0, <1>1
<1>7. QED
  BY <1>0, <1>1, <1>2, <1>3, <1>4, <1>5, <1>6, FailureStep

LEMMA PaddingFailsInv ==
  ASSUME ReaderInv, PaddingFails
  PROVE  ReaderInv'
<1>0. /\ Readable(file) /\ SourceOK(file, source) /\ source.pos \in Nat
      /\ Len(file.octets) \in Nat
      /\ offset \in Nat /\ blankLines \in Nat /\ start \in Positions /\ buffered \in {0, 1}
      /\ began \in Nat \cup {None} /\ buffered <= source.pos /\ pendingError \in BOOLEAN
  BY StateFacts
<1>1. PICK read \in {PaddingRead} :
        /\ read.line = "error"
        /\ buffered' = read.octets
        /\ began' = read.began
        /\ start' = read.start
        /\ offset' = read.to.pos - read.octets
        /\ UNCHANGED blankLines
        /\ Fuse(read.to)
  BY DEF PaddingFails
<1>2. /\ phase = "padding"
      /\ UNCHANGED <<file, ended, pendingError, ahead, padding, verdict, passed>>
  BY DEF PaddingFails
<1>3. ~finished /\ Boundary(file, source.pos) /\ Sound(file, source) /\ ReaderTypeOK
  BY <1>2 DEF ReaderInv, Standing, SourceSound
<1>4. /\ LineFrom(file, source.pos, read)
      /\ read.began \in Nat \cup {None}
      /\ read.start \in Positions
  BY <1>3, PaddingReadIs
<1>5. /\ SourceOK(file, read.to) /\ read.octets \in {0, 1}
      /\ file.broken /\ read.to.pos = Len(file.octets)
      /\ read.to.pos = source.pos + read.octets
      /\ read.octets = 1 => file.octets[source.pos + 1] = "cr"
  BY <1>1, <1>4 DEF LineFrom
<1>6. ~Clean(file)
  BY <1>0, <1>5, NotClean
<1>7. offset' \in Nat /\ buffered' <= read.to.pos
  BY <1>0, <1>1, <1>5
<1>8. \A n \in Nat : n > source.pos /\ n <= Len(file.octets) => file.octets[n] # "body"
  <2>1. \A n \in Nat : n > source.pos /\ n <= Len(file.octets) => read.octets = 1 /\ n = source.pos + 1
    BY <1>0, <1>5
  <2>2. QED
    BY <2>1, <1>5
<1>9. /\ UNCHANGED <<file, ended, passed, verdict, ahead, padding>>
      /\ start' \in Positions /\ blankLines' \in Nat /\ buffered' \in {0, 1}
      /\ began' \in Nat \cup {None} /\ pendingError' \in BOOLEAN
  BY <1>0, <1>1, <1>2, <1>4, <1>5
<1>10. QED
  BY <1>1, <1>2, <1>3, <1>5, <1>6, <1>7, <1>8, <1>9, FailureStep

\* What remains of a stream that goes on with no record's body.
LEMMA HeaderFailsInv ==
  ASSUME ReaderInv, HeaderFails
  PROVE  ReaderInv'
<1>0. /\ Readable(file) /\ SourceOK(file, source) /\ source.pos \in Nat
      /\ Len(file.octets) \in Nat /\ source.pos <= Len(file.octets)
      /\ offset \in Nat /\ blankLines \in Nat /\ start \in Positions /\ buffered \in {0, 1}
      /\ began \in Nat \cup {None} /\ buffered <= source.pos /\ pendingError \in BOOLEAN
  BY StateFacts
<1>1. PICK next \in {Filled(file, source)} :
        /\ next.read # "fields"
        /\ Fuse(IF next.read = "mess" THEN Consumed(next.to) ELSE next.to)
  BY DEF HeaderFails
<1>2. /\ phase = "header" /\ UNCHANGED start
      /\ UNCHANGED <<file, ended, pendingError, ahead, padding, began, buffered, blankLines, offset, verdict, passed>>
  BY DEF HeaderFails, paddingVars, recordVars
<1>3. ~finished /\ LastOctet(file, source.pos) = "line"
  BY <1>2 DEF ReaderInv, Standing, Found
<1>4. source.pos \in 1 .. Len(file.octets) /\ file.octets[source.pos] = "line"
  BY <1>0, <1>3 DEF LastOctet
<1>5. /\ SourceOK(file, next.to) /\ next.to.pos = source.pos
      /\ source.pos < Len(file.octets) =>
           next.read = file.octets[source.pos + 1] /\ next.to.mode = "reading"
      /\ source.pos = Len(file.octets) => next.read \in {"eof", "error"}
  BY <1>0, FilledIs
<1>6. PICK s : /\ s = IF next.read = "mess" THEN Consumed(next.to) ELSE next.to
  OBVIOUS
<1>7. /\ SourceOK(file, s) /\ s.pos = Len(file.octets) /\ ~Clean(file)
      /\ \A n \in Nat : n > source.pos /\ n <= Len(file.octets) => file.octets[n] # "body"
  <2>1. CASE source.pos < Len(file.octets)
    <3>1. next.read = "mess"
      BY <2>1, <1>1, <1>4, <1>5, <1>0, Grammar
    <3>2. s = Consumed(next.to)
      BY <3>1, <1>6
    <3>3. SourceOK(file, s) /\ s.pos = source.pos + 1
      BY <2>1, <3>2, <1>0, <1>5, ConsumedIs
    <3>4. source.pos + 1 = Len(file.octets)
      <4>1. source.pos + 1 \in 1 .. Len(file.octets)
        BY <1>0, <2>1
      <4>2. file.octets[source.pos + 1] = "mess"
        BY <2>1, <3>1, <1>5
      <4>3. ~(source.pos + 1 < Len(file.octets))
        BY <4>1, <4>2, <1>0, Grammar
      <4>4. QED
        BY <4>1, <4>3, <1>0
    <3>5. file.octets[Len(file.octets)] = "mess"
      BY <2>1, <3>1, <3>4, <1>5
    <3>6. ~Clean(file)
      BY <3>5, <1>0, <1>4, NotClean
    <3>7. \A n \in Nat : n > source.pos /\ n <= Len(file.octets) => n = Len(file.octets)
      BY <3>4, <1>0
    <3>8. QED
      BY <3>3, <3>4, <3>5, <3>6, <3>7
  <2>2. CASE source.pos = Len(file.octets)
    <3>1. s = next.to
      BY <2>2, <1>5, <1>6
    <3>2. ~Clean(file)
      BY <2>2, <1>0, <1>4, NotClean
    <3>3. QED
      BY <3>1, <3>2, <2>2, <1>0, <1>5
  <2>3. QED
    BY <2>1, <2>2, <1>0
<1>8. buffered <= s.pos
  BY <1>0, <1>7
<1>9. /\ UNCHANGED <<file, ended, passed, verdict, ahead, padding>>
      /\ start' \in Positions /\ blankLines' \in Nat /\ buffered' \in {0, 1} /\ offset' \in Nat
      /\ began' \in Nat \cup {None} /\ pendingError' \in BOOLEAN /\ buffered' <= s.pos
  BY <1>0, <1>2, <1>8
<1>10. Fuse(s)
  BY <1>1, <1>6
<1>11. QED
  BY <1>2, <1>3, <1>7, <1>9, <1>10, FailureStep

LEMMA EndFailsInv ==
  ASSUME ReaderInv, EndFails
  PROVE  ReaderInv'
<1>0. /\ Readable(file) /\ SourceOK(file, source) /\ source.pos \in Nat
      /\ Len(file.octets) \in Nat /\ source.pos <= Len(file.octets)
      /\ offset \in Nat /\ blankLines \in Nat /\ start \in Positions /\ buffered \in {0, 1}
      /\ began \in Nat \cup {None} /\ buffered <= source.pos /\ pendingError \in BOOLEAN
  BY StateFacts
<1>1. /\ phase = "end" /\ buffered > 0 /\ Fuse(source) /\ UNCHANGED start
      /\ UNCHANGED <<file, ended, pendingError, ahead, padding, began, buffered, blankLines, offset, verdict, passed>>
  BY DEF EndFails, paddingVars, recordVars
<1>2. ~finished /\ source.pos = Len(file.octets) /\ LastOctet(file, source.pos) = "cr"
  BY <1>0, <1>1 DEF ReaderInv, Standing, Found
<1>3. Len(file.octets) > 0 /\ file.octets[Len(file.octets)] = "cr"
  BY <1>0, <1>2 DEF LastOctet
<1>4. ~Clean(file)
  BY <1>0, <1>3, NotClean
<1>5. \A n \in Nat : n > source.pos /\ n <= Len(file.octets) => file.octets[n] # "body"
  BY <1>0, <1>2
<1>6. /\ UNCHANGED <<file, ended, passed, verdict, ahead, padding>>
      /\ start' \in Positions /\ blankLines' \in Nat /\ buffered' \in {0, 1} /\ offset' \in Nat
      /\ buffered' <= source.pos /\ began' \in Nat \cup {None} /\ pendingError' \in BOOLEAN
  BY <1>0, <1>1
<1>7. QED
  BY <1>0, <1>1, <1>2, <1>4, <1>5, <1>6, FailureStep

LEMMA BodyFailsInv ==
  ASSUME ReaderInv, BodyFails
  PROVE  ReaderInv'
<1>0. /\ Readable(file) /\ SourceOK(file, source) /\ source.pos \in Nat
      /\ Len(file.octets) \in Nat /\ source.pos <= Len(file.octets)
      /\ offset \in Nat /\ blankLines \in Nat /\ start \in Positions /\ buffered \in {0, 1}
      /\ began \in Nat \cup {None} /\ buffered <= source.pos /\ pendingError \in BOOLEAN
  BY StateFacts
<1>1. PICK next \in {Filled(file, source)} :
        /\ next.read # "body"
        /\ Fuse(IF next.read = "slip" THEN Consumed(next.to) ELSE next.to)
  BY DEF BodyFails
<1>2. /\ phase = "body" /\ UNCHANGED start
      /\ UNCHANGED <<file, ended, pendingError, ahead, padding, began, buffered, blankLines, offset, verdict, passed>>
  BY DEF BodyFails, paddingVars, recordVars
<1>3. ~finished /\ source.pos = offset + 2 /\ file.octets[offset + 2] = "fields"
  BY <1>2 DEF ReaderInv, Standing
<1>4. source.pos \in 1 .. Len(file.octets) /\ file.octets[source.pos] = "fields"
  BY <1>0, <1>3
<1>5. /\ SourceOK(file, next.to) /\ next.to.pos = source.pos
      /\ source.pos < Len(file.octets) =>
           next.read = file.octets[source.pos + 1] /\ next.to.mode = "reading"
      /\ source.pos = Len(file.octets) => next.read \in {"eof", "error"}
  BY <1>0, FilledIs
<1>6. PICK s : /\ s = IF next.read = "slip" THEN Consumed(next.to) ELSE next.to
  OBVIOUS
<1>7. /\ SourceOK(file, s) /\ s.pos = Len(file.octets) /\ ~Clean(file)
      /\ \A n \in Nat : n > source.pos /\ n <= Len(file.octets) => file.octets[n] # "body"
  <2>1. CASE source.pos < Len(file.octets)
    <3>1. next.read = "slip"
      BY <2>1, <1>1, <1>4, <1>5, <1>0, Grammar
    <3>2. s = Consumed(next.to)
      BY <3>1, <1>6
    <3>3. SourceOK(file, s) /\ s.pos = source.pos + 1
      BY <2>1, <3>2, <1>0, <1>5, ConsumedIs
    <3>4. source.pos + 1 = Len(file.octets)
      <4>1. source.pos + 1 \in 1 .. Len(file.octets)
        BY <1>0, <2>1
      <4>2. file.octets[source.pos + 1] = "slip"
        BY <2>1, <3>1, <1>5
      <4>3. ~(source.pos + 1 < Len(file.octets))
        BY <4>1, <4>2, <1>0, Grammar
      <4>4. QED
        BY <4>1, <4>3, <1>0
    <3>5. file.octets[Len(file.octets)] = "slip"
      BY <2>1, <3>1, <3>4, <1>5
    <3>6. ~Clean(file)
      BY <3>5, <1>0, <1>4, NotClean
    <3>7. \A n \in Nat : n > source.pos /\ n <= Len(file.octets) => n = Len(file.octets)
      BY <3>4, <1>0
    <3>8. QED
      BY <3>3, <3>4, <3>5, <3>6, <3>7
  <2>2. CASE source.pos = Len(file.octets)
    <3>1. s = next.to
      BY <2>2, <1>5, <1>6
    <3>2. ~Clean(file)
      BY <2>2, <1>0, <1>4, NotClean
    <3>3. QED
      BY <3>1, <3>2, <2>2, <1>0, <1>5
  <2>3. QED
    BY <2>1, <2>2, <1>0
<1>8. buffered <= s.pos
  BY <1>0, <1>7
<1>9. /\ UNCHANGED <<file, ended, passed, verdict, ahead, padding>>
      /\ start' \in Positions /\ blankLines' \in Nat /\ buffered' \in {0, 1} /\ offset' \in Nat
      /\ began' \in Nat \cup {None} /\ pendingError' \in BOOLEAN /\ buffered' <= s.pos
  BY <1>0, <1>2, <1>8
<1>10. Fuse(s)
  BY <1>1, <1>6
<1>11. QED
  BY <1>2, <1>3, <1>7, <1>9, <1>10, FailureStep

\* A record yielded: skipped, kept, or refused.
LEMMA YieldIs ==
  ASSUME ReaderTypeOK, NEW place \in Placements \cup {None}, NEW upto \in Nat,
         file.gzip => place # None, YieldRecord(place, upto)
  PROVE  /\ phase' = "next"
         /\ \/ verdict = "skipped" /\ items' = items
            \/ /\ verdict \in {"kept", "refused"}
               /\ \E x \in Yields : /\ x.record = offset + 1 /\ x.blank = blankLines
                                    /\ x.refused = (verdict = "refused")
                                    /\ items' = Append(items, x)
<1>1. CASE verdict = "skipped"
  BY <1>1 DEF YieldRecord
<1>2. CASE verdict # "skipped"
  <2>1. verdict \in {"kept", "refused"} /\ offset \in Nat /\ blankLines \in Nat
    BY <1>2 DEF ReaderTypeOK, RecordVerdicts
  <2>2. phase' = "next" /\ items' = Append(items, Item(offset + 1, place, offset, upto, blankLines))
    BY <1>2 DEF YieldRecord
  <2>3. PICK record \in Nat, from \in Nat, blank \in Nat :
          record = offset + 1 /\ from = offset /\ blank = blankLines
    BY <2>1
  <2> DEFINE x == Item(record, place, from, upto, blank)
  <2>4. x \in Yields
    BY ItemIs
  <2>5. x.record = record /\ x.blank = blank
    BY DEF Item
  <2>6. x.refused = (record # 0 /\ verdict = "refused")
    BY DEF Item
  <2>7. record # 0
    BY <2>1, <2>3
  <2>8. x.refused = (verdict = "refused")
    BY <2>6, <2>7
  <2>9. items' = Append(items, x)
    BY <2>2, <2>3
  <2> HIDE DEF x
  <2>10. QED
    BY <2>1, <2>2, <2>3, <2>4, <2>5, <2>8, <2>9
<1>3. QED
  BY <1>1, <1>2

\* What Tells says once the record held back has been yielded.
LEMMA TellsYielded ==
  ASSUME ReaderTypeOK, NEW given \in Seq(Passed), given # <<>>,
         \A i, j \in DOMAIN given : i < j => given[i].record < given[j].record,
         given[Len(given)] = [record |-> offset + 1, verdict |-> verdict],
         Tells(file, items, given, {offset + 1}, FALSE),
         blankLines = BlankLines(file, offset + 1),
         NEW place \in Placements \cup {None}, NEW upto \in Nat,
         file.gzip => place # None, YieldRecord(place, upto)
  PROVE  phase' = "next" /\ items' \in Seq(Yields) /\ Tells(file, items', given, {}, FALSE)
<1>1. /\ items \in Seq(Yields) /\ verdict \in RecordVerdicts /\ offset \in Nat
  BY DEF ReaderTypeOK
<1>2. PICK r \in Nat \ {0} : r = offset + 1
  BY <1>1
<1>3. phase' = "next"
  BY YieldIs
<1>4. CASE verdict = "skipped" /\ items' = items
  <2>1. Tells(file, items, given, {}, FALSE)
    BY <1>2, <1>4, TellsSkipped
  <2>2. QED
    BY <2>1, <1>1, <1>3, <1>4
<1>5. CASE /\ verdict \in {"kept", "refused"}
           /\ \E x \in Yields : /\ x.record = offset + 1 /\ x.blank = blankLines
                                /\ x.refused = (verdict = "refused")
                                /\ items' = Append(items, x)
  <2>1. PICK x \in Yields : /\ x.record = r /\ x.blank = BlankLines(file, r)
                            /\ x.refused = (verdict = "refused")
                            /\ items' = Append(items, x)
    BY <1>2, <1>5
  <2>2. PICK v \in {"kept", "refused"} : v = verdict
    BY <1>5
  <2>3. Tells(file, Append(items, x), given, {}, FALSE)
    <3>1. x.refused <=> v = "refused"
      BY <2>1, <2>2
    <3>2. given[Len(given)] = [record |-> r, verdict |-> v] /\ Tells(file, items, given, {r}, FALSE)
      BY <1>2, <2>2
    <3>3. QED
      BY <3>1, <3>2, <2>1, <1>1, TellsRecord
  <2>4. items' = Append(items, x)
    BY <2>1
  <2>5. Append(items, x) \in Seq(Yields)
    BY <1>1
  <2>6. Tells(file, items', given, {}, FALSE)
    BY <2>3, <2>4
  <2>7. items' \in Seq(Yields)
    BY <2>4, <2>5
  <2>8. QED
    BY <2>6, <2>7, <1>3
<1>6. \/ verdict = "skipped" /\ items' = items
      \/ /\ verdict \in {"kept", "refused"}
         /\ \E x \in Yields : /\ x.record = offset + 1 /\ x.blank = blankLines
                              /\ x.refused = (verdict = "refused")
                              /\ items' = Append(items, x)
  BY YieldIs
<1>7. QED
  BY <1>4, <1>5, <1>6

LEMMA InitReaderInv ==
  ASSUME ReaderInit
  PROVE  ReaderInv
<1>1. Readable(file) /\ file \in Files /\ SourceOK(file, source) /\ Sound(file, source)
      /\ source.pos = 0
  BY FilesAssumption, NewSourceOK DEF ReaderInit, NewSource
<1>2. ReaderTypeOK
  <2>1. passed \in Seq(Passed) /\ items \in Seq(Yields)
    BY DEF ReaderInit
  <2>2. start \in Positions /\ verdict \in RecordVerdicts
    BY DEF ReaderInit, Positions, RecordVerdicts
  <2>3. /\ phase \in {"next", "padding", "header", "body", "ahead", "end", "done"}
        /\ finished \in BOOLEAN /\ ended \in BOOLEAN /\ pendingError \in BOOLEAN
        /\ ahead \in Aheads \cup {None} /\ padding \in Nat /\ began \in Nat \cup {None}
    BY DEF ReaderInit
  <2>4. /\ buffered \in {0, 1} /\ buffered <= source.pos
        /\ blankLines \in Nat /\ offset \in Nat /\ placement \in Placements \cup {None}
    BY <1>1 DEF ReaderInit
  <2>5. QED
    BY <1>1, <2>1, <2>2, <2>3, <2>4 DEF ReaderTypeOK
<1>3. Standing
  BY <1>1 DEF ReaderInit, Standing, LastOctet
<1>4. SourceSound
  BY <1>1 DEF SourceSound
<1>5. PassedExact
  <2>1. passed = <<>> /\ DOMAIN passed = {}
    BY DEF ReaderInit
  <2>2. \A n \in Records(file) : n \in Nat
    BY <1>1, FileFacts DEF Records
  <2>3. {n \in Records(file) : n + 2 <= 0} = {}
    BY <2>2
  <2>4. {passed[i].record : i \in DOMAIN passed} = {}
    BY <2>1
  <2>5. QED
    BY <2>1, <2>3, <2>4, <1>1 DEF PassedExact, Passes
<1>6. ItemsExact
  <2>1. /\ passed = <<>> /\ items = <<>> /\ DOMAIN passed = {} /\ DOMAIN items = {}
        /\ phase = "next" /\ ~finished
    BY DEF ReaderInit
  <2>2. Tells(file, items, passed, {}, FALSE)
    <3>1. {k \in DOMAIN passed : passed[k].verdict # "skipped"} = {}
      BY <2>1
    <3>2. {i \in DOMAIN items : items[i].record # 0} = {}
      BY <2>1
    <3>3. QED
      BY <2>1, <3>1, <3>2 DEF Tells
  <2>3. QED
    BY <2>1, <2>2 DEF ItemsExact
<1>7. Ending
  BY DEF ReaderInit, Ending
<1>8. QED
  BY <1>2, <1>3, <1>4, <1>5, <1>6, <1>7 DEF ReaderInv

LEMMA FinishedInv ==
  ASSUME ReaderInv, Finished
  PROVE  ReaderInv'
<1>1. /\ phase = "next" /\ finished /\ phase' = "done"
      /\ UNCHANGED <<file, source, finished, ended, pendingError, ahead, padding, began, buffered,
                     blankLines, offset, verdict, start, placement, passed, items>>
  BY DEF Finished, endVars, paddingVars, recordVars
<1>2. ReaderTypeOK' /\ Standing' /\ SourceSound' /\ PassedExact' /\ ItemsExact' /\ Ending'
  <2>1. ReaderTypeOK'
    BY <1>1 DEF ReaderInv, ReaderTypeOK
  <2>2. Standing' /\ SourceSound' /\ PassedExact' /\ Ending'
    BY <1>1 DEF ReaderInv, Standing, SourceSound, PassedExact, Ending
  <2>3. ItemsExact'
    BY <1>1 DEF ReaderInv, ItemsExact
  <2>4. QED
    BY <2>1, <2>2, <2>3
<1>3. QED
  BY <1>2 DEF ReaderInv

LEMMA TakeAheadInv ==
  ASSUME ReaderInv, TakeAhead
  PROVE  ReaderInv'
<1>0. /\ source.pos \in Nat /\ Len(file.octets) \in Nat /\ buffered \in {0, 1}
      /\ buffered <= source.pos
  BY StateFacts
<1>1. /\ phase = "next" /\ ~finished /\ ~pendingError /\ ahead # None
      /\ blankLines' = ahead.blank /\ offset' = source.pos - buffered /\ ahead' = None
      /\ phase' = IF ahead.line = "line" THEN "header" ELSE "end"
      /\ UNCHANGED <<file, source, finished, ended, pendingError, padding, began, buffered,
                     verdict, start, placement, passed, items>>
  BY DEF TakeAhead, endVars
<1>2. /\ Found(file, source.pos, buffered, ahead.line, ahead.blank)
      /\ ahead \in Aheads
  BY <1>1 DEF ReaderInv, Standing, ReaderTypeOK
<1>3. ahead.line \in {"line", "eof"} /\ ahead.blank \in Nat /\ offset' \in Nat
  BY <1>0, <1>1, <1>2 DEF Aheads
<1>4. ReaderTypeOK'
  BY <1>1, <1>3 DEF ReaderInv, ReaderTypeOK
<1>5. Standing'
  <2>1. CASE ahead.line = "line"
    <3>1. Found(file, source.pos, buffered, "line", ahead.blank) /\ offset' = source.pos - 1
      BY <2>1, <1>1, <1>2 DEF Found
    <3>2. QED
      BY <3>1, <2>1, <1>1 DEF Standing
  <2>2. CASE ahead.line = "eof"
    <3>1. Found(file, source.pos, buffered, "eof", ahead.blank)
      BY <2>2, <1>2
    <3>2. QED
      BY <3>1, <2>2, <1>1 DEF Standing
  <2>3. QED
    BY <2>1, <2>2, <1>3
<1>6. SourceSound' /\ PassedExact'
  BY <1>1 DEF ReaderInv, SourceSound, PassedExact
<1>7. ItemsExact'
  BY <1>1 DEF ReaderInv, ItemsExact
<1>8. Ending'
  BY <1>1 DEF ReaderInv, Ending
<1>9. QED
  BY <1>4, <1>5, <1>6, <1>7, <1>8 DEF ReaderInv

LEMMA StartPaddingInv ==
  ASSUME ReaderInv, StartPadding
  PROVE  ReaderInv'
<1>0. /\ source.pos \in Nat /\ Len(file.octets) \in Nat /\ source.pos <= Len(file.octets)
  BY StateFacts
<1>1. /\ phase = "next" /\ ~finished /\ ~pendingError /\ ahead = None
      /\ phase' = "padding" /\ padding' = 0 /\ began' = None /\ buffered' = 0
      /\ UNCHANGED <<file, source, finished, ended, pendingError, ahead, blankLines, offset,
                     verdict, start, placement, passed, items>>
  BY DEF StartPadding, endVars, recordVars
<1>2. LastOctet(file, source.pos) \in {"none", "body"}
  BY <1>1 DEF ReaderInv, Standing
<1>3. ReaderTypeOK'
  BY <1>0, <1>1 DEF ReaderInv, ReaderTypeOK
<1>4. Standing'
  <2>1. source.pos = 0 \/ file.octets[source.pos] \notin {"cr", "lf"}
    BY <1>2 DEF LastOctet
  <2>2. BlankLines(file, source.pos + 1) = 0
    BY <1>0, <2>1, NoBlankLines
  <2>3. Boundary(file, source.pos)
    BY <1>2 DEF Boundary
  <2>4. QED
    BY <2>2, <2>3, <1>1 DEF Standing
<1>5. SourceSound' /\ PassedExact'
  BY <1>1 DEF ReaderInv, SourceSound, PassedExact
<1>6. ItemsExact'
  BY <1>1 DEF ReaderInv, ItemsExact
<1>7. Ending'
  BY <1>1 DEF ReaderInv, Ending
<1>8. QED
  BY <1>3, <1>4, <1>5, <1>6, <1>7 DEF ReaderInv

\* A first line, or the end, found after the blank lines read.
LEMMA FoundIs ==
  ASSUME NEW f, NEW pos \in Nat, NEW r, LineFrom(f, pos, r), r.line \in {"line", "eof"},
         Boundary(f, pos), NEW blank, blank = BlankLines(f, pos + 1)
  PROVE  Found(f, r.to.pos, r.octets, r.line, blank)
<1>1. CASE r.line = "line"
  <2>1. r.octets = 1 /\ r.to.pos = pos + 1 /\ f.octets[pos + 1] = "line"
    BY <1>1 DEF LineFrom
  <2>2. r.to.pos - r.octets + 1 = pos + 1 /\ r.to.pos # 0
    BY <2>1
  <2>3. QED
    BY <1>1, <2>1, <2>2 DEF Found, LastOctet
<1>2. CASE r.line = "eof"
  <2>1. /\ ~f.broken /\ r.to.pos = Len(f.octets) /\ r.to.pos = pos + r.octets
        /\ r.octets \in {0, 1} /\ (r.octets = 1 => f.octets[pos + 1] = "cr")
    BY <1>2 DEF LineFrom
  <2>2. r.to.pos - r.octets + 1 = pos + 1
    BY <2>1
  <2>3. CASE r.octets = 0
    BY <1>2, <2>1, <2>2, <2>3 DEF Found
  <2>4. CASE r.octets = 1
    <3>1. LastOctet(f, r.to.pos) = "cr"
      BY <2>1, <2>4 DEF LastOctet
    <3>2. QED
      BY <1>2, <2>1, <2>2, <2>4, <3>1 DEF Found
  <2>5. QED
    BY <2>1, <2>3, <2>4
<1>3. QED
  BY <1>1, <1>2

\* No record ends within a line read.
LEMMA LinePasses ==
  ASSUME NEW f, Readable(f), NEW pos \in Nat, pos <= Len(f.octets), NEW r, LineFrom(f, pos, r),
         NEW given, Passes(f, pos, given)
  PROVE  Passes(f, r.to.pos, given)
<1>0. Len(f.octets) \in Nat
  BY FileFacts
<1>1. /\ r.to.pos \in Nat /\ pos <= r.to.pos
      /\ \A n \in Nat : n > pos /\ n <= r.to.pos => f.octets[n] # "body"
  <2>1. CASE r.line = "blank"
    <3>1. \/ r.to.pos = pos + 1 /\ f.octets[pos + 1] = "lf"
          \/ r.to.pos = pos + 2 /\ f.octets[pos + 1] = "cr" /\ f.octets[pos + 2] = "lf"
      BY <2>1 DEF LineFrom
    <3>2. QED
      BY <3>1, BlankLineRead
  <2>2. CASE r.line # "blank"
    <3>1. /\ r.to.pos = pos \/ r.to.pos = pos + 1
          /\ r.to.pos = pos + 1 => f.octets[pos + 1] \in {"line", "cr"}
      BY <2>2 DEF LineFrom
    <3>2. \A n \in Nat : n > pos /\ n <= r.to.pos => n = pos + 1 /\ r.to.pos = pos + 1
      BY <3>1
    <3>3. QED
      BY <3>1, <3>2
  <2>3. QED
    BY <2>1, <2>2
<1>2. QED
  BY <1>1, PassesOn

LEMMA SkipBlankInv ==
  ASSUME ReaderInv, SkipBlank
  PROVE  ReaderInv'
<1>0. /\ Readable(file) /\ source.pos \in Nat /\ Len(file.octets) \in Nat
      /\ source.pos <= Len(file.octets)
  BY StateFacts
<1>1. PICK read \in {PaddingRead} : read.line = "blank" /\ TakeLine(read)
  BY DEF SkipBlank
<1>2. /\ phase \in {"padding", "ahead"} /\ padding' = padding + 1
      /\ UNCHANGED <<file, phase, finished, ended, pendingError, ahead, blankLines, offset, verdict,
                     passed, items>>
  BY DEF SkipBlank, endVars, recordVars
<1>3. /\ ~finished /\ ~pendingError /\ ahead = None /\ Boundary(file, source.pos)
      /\ Sound(file, source) /\ ReaderTypeOK /\ padding = BlankLines(file, source.pos + 1)
  BY <1>2 DEF ReaderInv, Standing, SourceSound
<1>4. /\ LineFrom(file, source.pos, read) /\ read.began \in Nat \cup {None}
      /\ read.start \in Positions /\ read.placement \in Placements \cup {None}
      /\ placement # None => read.placement # None
  BY <1>3, PaddingReadIs
<1>5. /\ source' = read.to /\ buffered' = read.octets /\ began' = read.began
      /\ start' = read.start /\ placement' = read.placement
  BY <1>1 DEF TakeLine
<1>6. /\ SourceOK(file, read.to) /\ Sound(file, read.to) /\ read.octets = 0
      /\ \/ read.to.pos = source.pos + 1 /\ file.octets[source.pos + 1] = "lf"
         \/ /\ read.to.pos = source.pos + 2
            /\ file.octets[source.pos + 1] = "cr" /\ file.octets[source.pos + 2] = "lf"
  BY <1>1, <1>4 DEF LineFrom
<1>7. /\ read.to.pos \in Nat /\ Boundary(file, read.to.pos)
      /\ BlankLines(file, read.to.pos + 1) = BlankLines(file, source.pos + 1) + 1
  <2>1. PICK from, to : from = source.pos /\ to = read.to.pos
    OBVIOUS
  <2>2. /\ from \in Nat /\ to \in Nat
        /\ \/ to = from + 1 /\ file.octets[from + 1] = "lf"
           \/ to = from + 2 /\ file.octets[from + 1] = "cr" /\ file.octets[from + 2] = "lf"
    BY <2>1, <1>0, <1>6
  <2>3. Boundary(file, to) /\ BlankLines(file, to + 1) = BlankLines(file, from + 1) + 1
    BY <2>2, BlankLineRead
  <2>4. QED
    BY <2>1, <2>2, <2>3
<1>8. ReaderTypeOK'
  <2>1. padding' \in Nat
    BY <1>2, <1>3 DEF ReaderTypeOK
  <2>2. SourceOK(file', source') /\ buffered' \in {0, 1} /\ buffered' <= source'.pos
    BY <1>2, <1>5, <1>6, <1>7
  <2>3. QED
    BY <2>1, <2>2, <1>2, <1>3, <1>4, <1>5 DEF ReaderTypeOK
<1>9. Standing'
  <2>1. Boundary(file', source'.pos) /\ padding' = BlankLines(file', source'.pos + 1)
    BY <1>2, <1>3, <1>5, <1>7
  <2>2. phase = "ahead" => placement' # None
    BY <1>4, <1>5 DEF ReaderInv, Standing
  <2>3. QED
    BY <2>1, <2>2, <1>2, <1>3 DEF ReaderInv, Standing
<1>10. SourceSound'
  BY <1>2, <1>5, <1>6 DEF SourceSound
<1>11. PassedExact'
  <2>1. Passes(file, read.to.pos, passed)
    BY <1>0, <1>4, LinePasses DEF ReaderInv, PassedExact
  <2>2. QED
    BY <2>1, <1>2, <1>5 DEF PassedExact
<1>12. ItemsExact' /\ Ending'
  <2>1. ItemsExact'
    BY <1>2 DEF ReaderInv, ItemsExact
  <2>2. Ending'
    BY <1>2, <1>3 DEF ReaderInv, Ending
  <2>3. QED
    BY <2>1, <2>2
<1>13. QED
  BY <1>8, <1>9, <1>10, <1>11, <1>12 DEF ReaderInv

LEMMA FindHeaderInv ==
  ASSUME ReaderInv, FindHeader
  PROVE  ReaderInv'
<1>0. /\ Readable(file) /\ source.pos \in Nat /\ Len(file.octets) \in Nat
      /\ source.pos <= Len(file.octets)
  BY StateFacts
<1>1. PICK read \in {PaddingRead} :
        /\ read.line \in {"line", "eof"}
        /\ TakeLine(read)
        /\ phase' = IF read.line = "line" THEN "header" ELSE "end"
  BY DEF FindHeader
<1>2. /\ phase = "padding" /\ blankLines' = padding /\ offset' = source'.pos - buffered'
      /\ UNCHANGED <<file, finished, ended, pendingError, ahead, padding, verdict, passed, items>>
  BY DEF FindHeader, endVars
<1>3. /\ ~finished /\ ~pendingError /\ ahead = None /\ Boundary(file, source.pos)
      /\ Sound(file, source) /\ ReaderTypeOK /\ padding = BlankLines(file, source.pos + 1)
  BY <1>2 DEF ReaderInv, Standing, SourceSound
<1>4. /\ LineFrom(file, source.pos, read) /\ read.began \in Nat \cup {None}
      /\ read.start \in Positions /\ read.placement \in Placements \cup {None}
  BY <1>3, PaddingReadIs
<1>5. /\ source' = read.to /\ buffered' = read.octets /\ began' = read.began
      /\ start' = read.start /\ placement' = read.placement
  BY <1>1 DEF TakeLine
<1>6. /\ SourceOK(file, read.to) /\ Sound(file, read.to) /\ read.octets \in {0, 1}
      /\ read.to.pos = source.pos + read.octets
  BY <1>1, <1>4 DEF LineFrom
<1>7. read.to.pos \in Nat /\ read.octets <= read.to.pos /\ offset' \in Nat
  BY <1>0, <1>2, <1>5, <1>6
<1>8. Found(file, read.to.pos, read.octets, read.line, padding)
  BY <1>0, <1>1, <1>3, <1>4, FoundIs
<1>9. ReaderTypeOK'
  <2>1. SourceOK(file', source') /\ buffered' \in {0, 1} /\ buffered' <= source'.pos
    BY <1>2, <1>5, <1>6, <1>7
  <2>2. phase' \in {"header", "end"} /\ blankLines' \in Nat
    BY <1>1, <1>2, <1>3 DEF ReaderTypeOK
  <2>3. QED
    BY <2>1, <2>2, <1>2, <1>3, <1>4, <1>5, <1>7 DEF ReaderTypeOK
<1>10. Standing'
  <2>1. CASE read.line = "line"
    <3>1. phase' = "header"
      BY <2>1, <1>1
    <3>2. Found(file, source'.pos, buffered', "line", blankLines') /\ buffered' = 1
      BY <2>1, <1>2, <1>5, <1>8 DEF Found
    <3>3. offset' = source'.pos - 1
      BY <3>2, <1>2
    <3>4. QED
      BY <3>1, <3>2, <3>3, <1>2, <1>3 DEF Standing
  <2>2. CASE read.line = "eof"
    <3>1. phase' = "end"
      BY <2>2, <1>1
    <3>2. Found(file, source'.pos, buffered', "eof", blankLines')
      BY <2>2, <1>2, <1>5, <1>8
    <3>3. QED
      BY <3>1, <3>2, <1>2, <1>3 DEF Standing
  <2>3. QED
    BY <2>1, <2>2, <1>1
<1>11. SourceSound'
  BY <1>2, <1>5, <1>6 DEF SourceSound
<1>12. PassedExact'
  <2>1. Passes(file, read.to.pos, passed)
    BY <1>0, <1>4, LinePasses DEF ReaderInv, PassedExact
  <2>2. QED
    BY <2>1, <1>2, <1>5 DEF PassedExact
<1>13. ItemsExact' /\ Ending'
  <2>1. ItemsExact'
    BY <1>1, <1>2 DEF ReaderInv, ItemsExact
  <2>2. Ending'
    BY <1>1, <1>2, <1>3 DEF ReaderInv, Ending
  <2>3. QED
    BY <2>1, <2>2
<1>14. QED
  BY <1>9, <1>10, <1>11, <1>12, <1>13 DEF ReaderInv

LEMMA ReadAheadInv ==
  ASSUME ReaderInv, ReadAhead
  PROVE  ReaderInv'
<1>0. /\ Readable(file) /\ source.pos \in Nat /\ Len(file.octets) \in Nat
      /\ source.pos <= Len(file.octets)
  BY StateFacts
<1>1. PICK read \in {PaddingRead} :
        /\ read.line # "blank"
        /\ TakeLine(read)
        /\ IF read.line = "error"
           THEN pendingError' = TRUE /\ UNCHANGED ahead
           ELSE ahead' = [blank |-> padding, line |-> read.line] /\ UNCHANGED pendingError
  BY DEF ReadAhead
<1>2. /\ phase = "ahead" /\ YieldRecord(placement', source.pos)
      /\ UNCHANGED <<file, finished, ended, padding, blankLines, offset, verdict, passed>>
  BY DEF ReadAhead, endVars, recordVars
<1>3. /\ ~finished /\ ~pendingError /\ ahead = None /\ Boundary(file, source.pos)
      /\ Sound(file, source) /\ ReaderTypeOK /\ padding = BlankLines(file, source.pos + 1)
      /\ placement # None /\ passed # <<>> /\ blankLines = BlankLines(file, offset + 1)
      /\ passed[Len(passed)] = [record |-> offset + 1, verdict |-> verdict]
  BY <1>2 DEF ReaderInv, Standing, SourceSound
<1>4. /\ LineFrom(file, source.pos, read) /\ read.began \in Nat \cup {None}
      /\ read.start \in Positions /\ read.placement \in Placements \cup {None}
      /\ read.placement # None
  BY <1>3, PaddingReadIs
<1>5. /\ source' = read.to /\ buffered' = read.octets /\ began' = read.began
      /\ start' = read.start /\ placement' = read.placement
  BY <1>1 DEF TakeLine
<1>6. /\ SourceOK(file, read.to) /\ read.octets \in {0, 1}
      /\ read.to.pos = source.pos + read.octets
      /\ read.line \in {"line", "eof", "error"}
      /\ read.line = "error" => file.broken /\ read.to.pos = Len(file.octets)
      /\ read.line # "error" => Sound(file, read.to)
  BY <1>1, <1>4 DEF LineFrom
<1>7. read.to.pos \in Nat /\ read.octets <= read.to.pos
  BY <1>0, <1>6
<1>8. ASSUME read.line # "error"
      PROVE  /\ ahead' \in Aheads /\ ahead' # None
             /\ ahead'.line = read.line /\ ahead'.blank = padding /\ pendingError' = FALSE
  <2>1. ahead' = [blank |-> padding, line |-> read.line] /\ read.line \in {"line", "eof"}
    BY <1>1, <1>6, <1>8
  <2>2. padding \in Nat /\ pendingError' = FALSE
    BY <1>1, <1>3, <1>8 DEF ReaderTypeOK
  <2>3. ahead' \in Aheads
    BY <2>1, <2>2 DEF Aheads
  <2>4. QED
    BY <2>1, <2>2, <2>3, NoneAssumption
<1>9. ASSUME read.line = "error" PROVE pendingError' = TRUE /\ ahead' = None
  BY <1>1, <1>3, <1>9
<1>10. /\ phase' = "next" /\ items' \in Seq(Yields)
       /\ Tells(file, items', passed, {}, FALSE)
  <2>1. PICK place \in Placements \cup {None}, upto \in Nat :
          place = placement' /\ upto = source.pos /\ place # None
    BY <1>0, <1>4, <1>5
  <2>2. YieldRecord(place, upto)
    BY <2>1, <1>2
  <2>3. Tells(file, items, passed, {offset + 1}, FALSE)
    BY <1>2, <1>3 DEF ReaderInv, ItemsExact
  <2>4. /\ passed \in Seq(Passed)
        /\ \A i, j \in DOMAIN passed : i < j => passed[i].record < passed[j].record
    BY <1>3 DEF ReaderInv, ReaderTypeOK, PassedExact, Passes
  <2>5. QED
    BY <2>1, <2>2, <2>3, <2>4, <1>3, TellsYielded
<1>11. ReaderTypeOK'
  <2>1. SourceOK(file', source') /\ buffered' \in {0, 1} /\ buffered' <= source'.pos
    BY <1>2, <1>5, <1>6, <1>7
  <2>2. ahead' \in Aheads \cup {None} /\ pendingError' \in BOOLEAN
    BY <1>8, <1>9
  <2>3. QED
    BY <2>1, <2>2, <1>2, <1>3, <1>4, <1>5, <1>10 DEF ReaderTypeOK
<1>12. Standing'
  <2>1. CASE read.line = "error"
    BY <2>1, <1>2, <1>5, <1>6, <1>9, <1>10 DEF Standing
  <2>2. CASE read.line # "error"
    <3>1. Found(file, read.to.pos, read.octets, read.line, padding)
      BY <2>2, <1>0, <1>3, <1>4, <1>6, FoundIs
    <3>2. Found(file', source'.pos, buffered', ahead'.line, ahead'.blank)
      BY <3>1, <2>2, <1>2, <1>5, <1>8
    <3>3. QED
      BY <3>2, <2>2, <1>8, <1>10 DEF Standing
  <2>3. QED
    BY <2>1, <2>2
<1>13. SourceSound'
  BY <1>2, <1>5, <1>6, <1>9 DEF SourceSound
<1>14. PassedExact'
  <2>1. Passes(file, read.to.pos, passed)
    BY <1>0, <1>4, LinePasses DEF ReaderInv, PassedExact
  <2>2. QED
    BY <2>1, <1>2, <1>5 DEF PassedExact
<1>15. ItemsExact'
  BY <1>2, <1>3, <1>10 DEF ItemsExact
<1>16. Ending'
  BY <1>2, <1>3, <1>10 DEF ReaderInv, Ending
<1>17. QED
  BY <1>11, <1>12, <1>13, <1>14, <1>15, <1>16 DEF ReaderInv

LEMMA ReadHeaderInv ==
  ASSUME ReaderInv, ReadHeader
  PROVE  ReaderInv'
<1>0. /\ Readable(file) /\ SourceOK(file, source) /\ source.pos \in Nat
      /\ Len(file.octets) \in Nat /\ source.pos <= Len(file.octets) /\ offset \in Nat
  BY StateFacts
<1>1. PICK next \in {Filled(file, source)} :
        next.read = "fields" /\ source' = Consumed(next.to)
  BY DEF ReadHeader
<1>2. /\ phase = "header" /\ phase' = "body" /\ verdict' \in Verdicts
      /\ UNCHANGED <<file, finished, ended, pendingError, ahead, padding, began, buffered,
                     blankLines, offset, start, placement, passed, items>>
  BY DEF ReadHeader, endVars, paddingVars
<1>3. /\ ~finished /\ ~pendingError /\ ahead = None /\ ReaderTypeOK
      /\ Found(file, source.pos, buffered, "line", blankLines) /\ offset = source.pos - 1
  BY <1>2 DEF ReaderInv, Standing
<1>4. /\ LastOctet(file, source.pos) = "line" /\ buffered = 1
      /\ blankLines = BlankLines(file, offset + 1)
  <2>1. /\ LastOctet(file, source.pos) = "line" /\ buffered = 1
        /\ blankLines = BlankLines(file, source.pos - buffered + 1)
    BY <1>3 DEF Found
  <2>2. source.pos - buffered + 1 = offset + 1
    BY <2>1, <1>0, <1>3
  <2>3. QED
    BY <2>1, <2>2
<1>5. /\ source.pos \in Nat \ {0} /\ file.octets[source.pos] = "line"
      /\ source.pos = offset + 1 /\ source.pos + 1 = offset + 2
  BY <1>0, <1>3, <1>4 DEF LastOctet
<1>6. /\ SourceOK(file, next.to) /\ next.to.pos = source.pos /\ source.pos < Len(file.octets)
      /\ file.octets[source.pos + 1] = "fields" /\ next.to.mode = "reading"
  <2>1. /\ SourceOK(file, next.to) /\ next.to.pos = source.pos
        /\ source.pos < Len(file.octets) =>
             next.read = file.octets[source.pos + 1] /\ next.to.mode = "reading"
        /\ source.pos = Len(file.octets) => next.read \in {"eof", "error"}
    BY <1>0, FilledIs
  <2>2. source.pos < Len(file.octets)
    BY <2>1, <1>0, <1>1
  <2>3. QED
    BY <2>1, <2>2, <1>1
<1>7. SourceOK(file, source') /\ Sound(file, source') /\ source'.pos = source.pos + 1
  BY <1>0, <1>1, <1>6, ConsumedIs
<1>8. verdict' \in RecordVerdicts
  BY <1>2 DEF Verdicts, Outcome, RecordVerdicts
<1>9. ReaderTypeOK'
  <2>1. SourceOK(file', source') /\ buffered' <= source'.pos
    BY <1>0, <1>2, <1>4, <1>7
  <2>2. QED
    BY <2>1, <1>2, <1>3, <1>8 DEF ReaderTypeOK
<1>10. Standing'
  BY <1>2, <1>3, <1>4, <1>5, <1>6, <1>7 DEF Standing
<1>11. SourceSound'
  BY <1>2, <1>7 DEF SourceSound
<1>12. PassedExact'
  <2>1. \A n \in Nat : n > source.pos /\ n <= source.pos + 1 => n = source.pos + 1
    BY <1>0
  <2>2. Passes(file, source.pos + 1, passed)
    BY <2>1, <1>0, <1>6, PassesOn DEF ReaderInv, PassedExact
  <2>3. QED
    BY <2>2, <1>2, <1>7 DEF PassedExact
<1>13. ItemsExact'
  BY <1>2 DEF ReaderInv, ItemsExact
<1>14. Ending'
  BY <1>2, <1>3 DEF ReaderInv, Ending
<1>15. QED
  BY <1>9, <1>10, <1>11, <1>12, <1>13, <1>14 DEF ReaderInv

LEMMA ReadEndInv ==
  ASSUME ReaderInv, ReadEnd
  PROVE  ReaderInv'
<1>0. /\ Readable(file) /\ SourceOK(file, source) /\ source.pos \in Nat
      /\ Len(file.octets) \in Nat /\ source.pos <= Len(file.octets) /\ start \in Positions
  BY StateFacts
<1>1. /\ phase = "end" /\ buffered = 0 /\ finished' = TRUE /\ ended' = TRUE /\ phase' = "done"
      /\ RecordEnds(source, start)
      /\ UNCHANGED <<file, pendingError, ahead, padding, began, buffered, blankLines, offset,
                     verdict, start, passed, items>>
  BY DEF ReadEnd, paddingVars, recordVars
<1>2. /\ ~finished /\ ReaderTypeOK /\ Found(file, source.pos, 0, "eof", blankLines)
  BY <1>1 DEF ReaderInv, Standing
<1>3. /\ source.pos = Len(file.octets) /\ ~file.broken /\ Boundary(file, source.pos)
      /\ blankLines = BlankLines(file, Len(file.octets) + 1)
  <2>1. /\ source.pos = Len(file.octets) /\ ~file.broken /\ Boundary(file, source.pos)
        /\ blankLines = BlankLines(file, source.pos - 0 + 1)
    BY <1>2 DEF Found
  <2>2. source.pos - 0 + 1 = Len(file.octets) + 1
    BY <2>1, <1>0
  <2>3. QED
    BY <2>1, <2>2
<1>4. Clean(file)
  <2>1. ASSUME file.octets # <<>> PROVE file.octets[Len(file.octets)] \in {"lf", "body"}
    <3>1. Len(file.octets) # 0
      BY <2>1, <1>0, FileFacts
    <3>2. file.octets[Len(file.octets)] \in Octets
      BY <3>1, <1>0, FileFacts
    <3>3. QED
      BY <3>1, <3>2, <1>3 DEF Boundary, LastOctet, Octets
  <2>2. QED
    BY <2>1, <1>3 DEF Clean
<1>5. /\ SourceOK(file, source') /\ source'.pos = source.pos
      /\ placement' \in Placements \cup {None}
  BY <1>0, <1>1, <1>2, RecordEndsIs DEF ReaderTypeOK
<1>6. ReaderTypeOK'
  <2>1. SourceOK(file', source') /\ buffered' <= source'.pos
    BY <1>0, <1>1, <1>5
  <2>2. QED
    BY <2>1, <1>1, <1>2, <1>5 DEF ReaderTypeOK
<1>7. Standing' /\ SourceSound'
  BY <1>1 DEF Standing, SourceSound
<1>8. PassedExact'
  BY <1>1, <1>5 DEF ReaderInv, PassedExact
<1>9. ItemsExact'
  BY <1>1, <1>2 DEF ReaderInv, ItemsExact
<1>10. Ending'
  BY <1>1, <1>3, <1>4, <1>5 DEF Ending
<1>11. QED
  BY <1>6, <1>7, <1>8, <1>9, <1>10 DEF ReaderInv

LEMMA ReadBodyInv ==
  ASSUME ReaderInv, ReadBody
  PROVE  ReaderInv'
<1>0. /\ Readable(file) /\ SourceOK(file, source) /\ source.pos \in Nat
      /\ Len(file.octets) \in Nat /\ source.pos <= Len(file.octets)
      /\ start \in Positions /\ offset \in Nat /\ buffered \in {0, 1} /\ buffered <= source.pos
  BY StateFacts
<1>1. PICK next \in {Filled(file, source)} :
        next.read = "body" /\ RecordEnds(Consumed(next.to), start)
  BY DEF ReadBody
<1>2. /\ phase = "body"
      /\ passed' = Append(passed, [record |-> offset + 1, verdict |-> verdict])
      /\ \/ /\ file.gzip /\ phase' = "ahead" /\ padding' = 0 /\ began' = None
            /\ buffered' = 0 /\ items' = items
         \/ /\ ~file.gzip /\ YieldRecord(placement', source'.pos)
            /\ UNCHANGED <<padding, began, buffered>>
      /\ UNCHANGED <<file, finished, ended, pendingError, ahead, blankLines, offset, verdict, start>>
  BY DEF ReadBody, endVars, recordVars
<1>3. /\ ~finished /\ ~pendingError /\ ahead = None /\ ReaderTypeOK
      /\ source.pos = offset + 2 /\ file.octets[offset + 1] = "line"
      /\ file.octets[offset + 2] = "fields" /\ blankLines = BlankLines(file, offset + 1)
  BY <1>2 DEF ReaderInv, Standing
<1>4. /\ SourceOK(file, next.to) /\ next.to.pos = source.pos /\ source.pos < Len(file.octets)
      /\ file.octets[source.pos + 1] = "body" /\ next.to.mode = "reading"
  <2>1. /\ SourceOK(file, next.to) /\ next.to.pos = source.pos
        /\ source.pos < Len(file.octets) =>
             next.read = file.octets[source.pos + 1] /\ next.to.mode = "reading"
        /\ source.pos = Len(file.octets) => next.read \in {"eof", "error"}
    BY <1>0, FilledIs
  <2>2. source.pos < Len(file.octets)
    BY <2>1, <1>0, <1>1
  <2>3. QED
    BY <2>1, <2>2, <1>1
<1>5. PICK s : s = Consumed(next.to)
  OBVIOUS
<1>6. SourceOK(file, s) /\ Sound(file, s) /\ s.pos = source.pos + 1
  BY <1>0, <1>4, <1>5, ConsumedIs
<1>7. /\ SourceOK(file, source') /\ source'.pos = source.pos + 1 /\ Sound(file, source')
      /\ placement' \in Placements \cup {None} /\ (file.gzip => placement' # None)
  BY <1>0, <1>1, <1>3, <1>5, <1>6, RecordEndsIs DEF ReaderTypeOK
<1>8. /\ passed \in Seq(Passed) /\ verdict \in RecordVerdicts
      /\ Passes(file, source.pos, passed) /\ Tells(file, items, passed, {}, FALSE)
  BY <1>2, <1>3 DEF ReaderInv, ReaderTypeOK, PassedExact, ItemsExact
<1>9. PICK given \in Seq(Passed) : /\ given = passed'
                                   /\ given # <<>>
                                   /\ given[Len(given)] = [record |-> offset + 1, verdict |-> verdict]
  <2>1. PICK x \in Passed : x = [record |-> offset + 1, verdict |-> verdict]
    <3>1. PICK r \in Nat : r = offset + 1
      BY <1>0
    <3>2. PICK v \in RecordVerdicts : v = verdict
      BY <1>8
    <3>3. [record |-> r, verdict |-> v] \in Passed
      BY DEF Passed
    <3>4. QED
      BY <3>1, <3>2, <3>3
  <2>2. /\ Append(passed, x) \in Seq(Passed) /\ Len(Append(passed, x)) = Len(passed) + 1
        /\ Append(passed, x)[Len(passed) + 1] = x /\ Append(passed, x) # <<>>
    BY <2>1, <1>8
  <2>3. passed' = Append(passed, x)
    BY <2>1, <1>2
  <2>4. QED
    BY <2>1, <2>2, <2>3
<1>10. /\ Passes(file, source.pos + 1, given)
       /\ \A i \in DOMAIN passed : passed[i].record < offset + 1
  BY <1>0, <1>2, <1>3, <1>4, <1>8, <1>9, PassesOneMore
<1>11. Tells(file, items, given, {offset + 1}, FALSE)
  <2>1. PICK r \in Nat : r = offset + 1
    BY <1>0
  <2>2. Tells(file, items, Append(passed, [record |-> r, verdict |-> verdict]), {r}, FALSE)
    BY <2>1, <1>8, <1>10, TellsHeld
  <2>3. QED
    BY <2>1, <2>2, <1>2, <1>9
<1>12. LastOctet(file, source.pos + 1) = "body"
  BY <1>0, <1>4 DEF LastOctet
<1>13. PassedExact'
  BY <1>2, <1>7, <1>9, <1>10 DEF PassedExact
<1>14. SourceSound'
  BY <1>2, <1>7 DEF SourceSound
<1>15. CASE /\ file.gzip /\ phase' = "ahead" /\ padding' = 0 /\ began' = None
            /\ buffered' = 0 /\ items' = items
  <2>1. ReaderTypeOK'
    <3>1. SourceOK(file', source') /\ passed' \in Seq(Passed) /\ buffered' <= source'.pos
      BY <1>0, <1>2, <1>7, <1>9, <1>15
    <3>2. QED
      BY <3>1, <1>2, <1>3, <1>7, <1>15 DEF ReaderTypeOK
  <2>2. Standing'
    <3>1. Boundary(file', source'.pos) /\ padding' = BlankLines(file', source'.pos + 1)
      <4>1. BlankLines(file, source.pos + 1 + 1) = 0
        <5>1. PICK n \in Nat : n = source.pos + 1
          BY <1>0
        <5>2. file.octets[n] \notin {"cr", "lf"}
          BY <5>1, <1>4
        <5>3. BlankLines(file, n + 1) = 0
          BY <5>2, NoBlankLines
        <5>4. QED
          BY <5>1, <5>3
      <4>2. QED
        BY <4>1, <1>2, <1>7, <1>12, <1>15 DEF Boundary
    <3>2. QED
      BY <3>1, <1>2, <1>3, <1>7, <1>9, <1>15 DEF Standing
  <2>3. ItemsExact'
    BY <1>2, <1>3, <1>9, <1>11, <1>15 DEF ItemsExact
  <2>4. Ending'
    BY <1>2, <1>3, <1>15 DEF ReaderInv, Ending
  <2>5. QED
    BY <2>1, <2>2, <2>3, <2>4, <1>13, <1>14 DEF ReaderInv
<1>16. CASE /\ ~file.gzip /\ YieldRecord(placement', source'.pos)
            /\ UNCHANGED <<padding, began, buffered>>
  <2>1. /\ phase' = "next" /\ items' \in Seq(Yields)
        /\ Tells(file, items', given, {}, FALSE)
    <3>1. PICK place \in Placements \cup {None}, upto \in Nat :
            place = placement' /\ upto = source'.pos
      BY <1>0, <1>7
    <3>2. YieldRecord(place, upto)
      BY <3>1, <1>16
    <3>3. \A i, j \in DOMAIN given : i < j => given[i].record < given[j].record
      BY <1>10 DEF Passes
    <3>4. QED
      BY <3>2, <3>3, <1>3, <1>9, <1>11, <1>16, TellsYielded
  <2>2. ReaderTypeOK'
    <3>1. SourceOK(file', source') /\ passed' \in Seq(Passed) /\ buffered' <= source'.pos
      BY <1>0, <1>2, <1>7, <1>9, <1>16
    <3>2. QED
      BY <3>1, <2>1, <1>2, <1>3, <1>7, <1>16 DEF ReaderTypeOK
  <2>3. Standing'
    BY <2>1, <1>2, <1>3, <1>7, <1>12 DEF Standing
  <2>4. ItemsExact'
    BY <2>1, <1>2, <1>3, <1>9 DEF ItemsExact
  <2>5. Ending'
    BY <2>1, <1>2, <1>3 DEF ReaderInv, Ending
  <2>6. QED
    BY <2>2, <2>3, <2>4, <2>5, <1>13, <1>14 DEF ReaderInv
<1>17. QED
  BY <1>2, <1>15, <1>16

LEMMA UnchangedReaderInv ==
  ASSUME ReaderInv, UNCHANGED readerVars
  PROVE  ReaderInv'
<1>1. UNCHANGED <<file, source, phase, finished, ended, pendingError, ahead, padding, began, buffered,
                  blankLines, offset, verdict, start, placement, passed, items>>
  BY DEF readerVars, endVars, paddingVars, recordVars
<1>2. ReaderTypeOK'
  BY <1>1 DEF ReaderInv, ReaderTypeOK
<1>3. Standing' /\ SourceSound' /\ PassedExact' /\ Ending'
  BY <1>1 DEF ReaderInv, Standing, SourceSound, PassedExact, Ending
<1>4. ItemsExact'
  BY <1>1 DEF ReaderInv, ItemsExact
<1>5. QED
  BY <1>2, <1>3, <1>4 DEF ReaderInv

\* Reading keeps ReaderInv, whatever the streams are, however they are cut into
\* members, and whatever the iterator decides of each record.
THEOREM ReaderInvariant == ReaderSpec => []ReaderInv
<1>1. ReaderInit => ReaderInv
  BY InitReaderInv
<1>2. ReaderInv /\ [ReaderNext]_readerVars => ReaderInv'
  <2>1. ASSUME ReaderInv, ReaderNext PROVE ReaderInv'
    <3>1. CASE Finished
      BY <2>1, <3>1, FinishedInv
    <3>2. CASE YieldPending
      BY <2>1, <3>2, YieldPendingInv
    <3>3. CASE TakeAhead
      BY <2>1, <3>3, TakeAheadInv
    <3>4. CASE StartPadding
      BY <2>1, <3>4, StartPaddingInv
    <3>5. CASE SkipBlank
      BY <2>1, <3>5, SkipBlankInv
    <3>6. CASE FindHeader
      BY <2>1, <3>6, FindHeaderInv
    <3>7. CASE PaddingFails
      BY <2>1, <3>7, PaddingFailsInv
    <3>8. CASE ReadAhead
      BY <2>1, <3>8, ReadAheadInv
    <3>9. CASE ReadHeader
      BY <2>1, <3>9, ReadHeaderInv
    <3>10. CASE HeaderFails
      BY <2>1, <3>10, HeaderFailsInv
    <3>11. CASE ReadEnd
      BY <2>1, <3>11, ReadEndInv
    <3>12. CASE EndFails
      BY <2>1, <3>12, EndFailsInv
    <3>13. CASE ReadBody
      BY <2>1, <3>13, ReadBodyInv
    <3>14. CASE BodyFails
      BY <2>1, <3>14, BodyFailsInv
    <3>15. CASE Exhausted
      BY <2>1, <3>15, UnchangedReaderInv DEF Exhausted
    <3>16. QED
      BY <2>1, <3>1, <3>2, <3>3, <3>4, <3>5, <3>6, <3>7, <3>8, <3>9, <3>10, <3>11,
         <3>12, <3>13, <3>14, <3>15 DEF ReaderNext
  <2>2. QED
    BY <2>1, UnchangedReaderInv
<1>3. QED
  BY <1>1, <1>2, PTL DEF ReaderSpec

\* Once the stream was read to its end, what was passed is all of its records, and
\* what was told is what AllRead says.
LEMMA AllReadHolds ==
  ASSUME ReaderInv
  PROVE  AllRead
<1>0. /\ Readable(file) /\ ReaderTypeOK
      /\ Passes(file, source.pos, passed)
  BY StateFacts DEF ReaderInv, PassedExact
<1>1. \A i, j \in DOMAIN passed : i < j => passed[i].record < passed[j].record
  BY <1>0 DEF Passes
<1>2. CASE phase # "done"
  BY <1>1, <1>2 DEF AllRead
<1>3. CASE phase = "done"
  <2>1. finished /\ source.pos = Len(file.octets)
    BY <1>3 DEF ReaderInv, Ending
  <2>2. ended = Clean(file)
    <3>1. ended \in BOOLEAN /\ (ended => Clean(file)) /\ (~ended => ~Clean(file))
      BY <2>1, <1>0 DEF ReaderInv, Ending, ReaderTypeOK
    <3>2. Clean(file) \in BOOLEAN
      BY DEF Clean
    <3>3. QED
      BY <3>1, <3>2
  <2>3. ended => blankLines = BlankLines(file, Len(file.octets) + 1)
    BY DEF ReaderInv, Ending
  <2>4. {passed[i].record : i \in DOMAIN passed} = Records(file)
    BY <2>1, <1>0, PassesAll
  <2>5. Tells(file, items, passed, {}, ~Clean(file))
    <3>1. (finished /\ ~ended) = ~Clean(file)
      BY <2>1, <2>2
    <3>2. QED
      BY <3>1, <1>3 DEF ReaderInv, ItemsExact
  <2>6. Yielded = {i \in DOMAIN items : items[i].record # 0}
    BY DEF Yielded
  <2>7. {items[i].record : i \in Yielded}
          = {passed[k].record : k \in {k \in DOMAIN passed : passed[k].verdict # "skipped"}}
    BY <2>5, <2>6 DEF Tells
  <2>8. /\ \A i, j \in Yielded : i < j => items[i].record < items[j].record
        /\ \A i \in Yielded, k \in DOMAIN passed :
              passed[k].record = items[i].record =>
                  (items[i].refused <=> passed[k].verdict = "refused")
        /\ \A i \in Yielded : items[i].blank = BlankLines(file, items[i].record)
    BY <2>5, <2>6 DEF Tells
  <2>9. Errors = IF Clean(file) THEN {} ELSE {Len(items)}
    BY <2>5, <2>6 DEF Tells, Errors
  <2>10. QED
    BY <1>1, <2>2, <2>3, <2>4, <2>7, <2>8, <2>9 DEF AllRead
<1>4. QED
  BY <1>2, <1>3

\* Whatever the stream is, the iterator reads each of its whole records once and in
\* order, and yields each it did not skip, as AllRead says.
THEOREM ReaderAllRead == ReaderSpec => []AllRead
<1>1. ReaderInv => AllRead
  BY AllReadHolds
<1>2. QED
  BY <1>1, ReaderInvariant, PTL

-----------------------------------------------------------------------------
(* Where the reader places the records of a stream.                        *)

\* Members lie one after the other, from the first octet to the last.
LEMMA MemberFacts ==
  ASSUME NEW f, Readable(f)
  PROVE  /\ Len(f.ends) \in Nat /\ Len(f.octets) \in Nat /\ DOMAIN f.ends = 1 .. Len(f.ends)
         /\ \A m \in 1 .. Len(f.ends) + 1 :
               MemberStart(f, m) \in Nat /\ MemberStart(f, m) <= Len(f.octets)
         /\ \A m \in 1 .. Len(f.ends) : MemberStart(f, m + 1) = f.ends[m]
         /\ \A m, k \in 1 .. Len(f.ends) + 1 : m <= k => MemberStart(f, m) <= MemberStart(f, k)
         /\ MemberStart(f, 1) = 0
         /\ MemberStart(f, Len(f.ends) + 1) = Len(f.octets)
<1>1. /\ Len(f.ends) \in Nat /\ Len(f.octets) \in Nat
      /\ \A m \in 1 .. Len(f.ends) : f.ends[m] \in Nat /\ f.ends[m] <= Len(f.octets)
      /\ Len(f.ends) > 0 => f.ends[Len(f.ends)] = Len(f.octets)
      /\ Len(f.ends) = 0 => Len(f.octets) = 0
      /\ \A m, k \in 1 .. Len(f.ends) : m <= k => f.ends[m] <= f.ends[k]
  BY FileFacts
<1>2. DOMAIN f.ends = 1 .. Len(f.ends)
  <2>1. f.ends \in Seq(Nat)
    BY FileFacts
  <2>2. QED
    BY <2>1
<1>3. \A m \in 1 .. Len(f.ends) : MemberStart(f, m + 1) = f.ends[m]
  BY <1>1 DEF MemberStart
<1>4. MemberStart(f, 1) = 0
  BY DEF MemberStart
<1>5. \A m \in 1 .. Len(f.ends) + 1 :
         m # 1 => m - 1 \in 1 .. Len(f.ends) /\ MemberStart(f, m) = f.ends[m - 1]
  <2> SUFFICES ASSUME NEW m \in 1 .. Len(f.ends) + 1, m # 1
               PROVE  m - 1 \in 1 .. Len(f.ends) /\ MemberStart(f, m) = f.ends[m - 1]
    OBVIOUS
  <2>1. m - 1 \in 1 .. Len(f.ends) /\ ~(m <= 1)
    BY <1>1
  <2>2. QED
    BY <2>1 DEF MemberStart
<1>6. \A m \in 1 .. Len(f.ends) + 1 : MemberStart(f, m) \in Nat /\ MemberStart(f, m) <= Len(f.octets)
  <2> SUFFICES ASSUME NEW m \in 1 .. Len(f.ends) + 1
               PROVE  MemberStart(f, m) \in Nat /\ MemberStart(f, m) <= Len(f.octets)
    OBVIOUS
  <2>1. CASE m = 1
    BY <2>1, <1>1, <1>4
  <2>2. CASE m # 1
    <3>1. m - 1 \in 1 .. Len(f.ends) /\ MemberStart(f, m) = f.ends[m - 1]
      BY <2>2, <1>5
    <3>2. f.ends[m - 1] \in Nat /\ f.ends[m - 1] <= Len(f.octets)
      BY <3>1, <1>1
    <3>3. QED
      BY <3>1, <3>2
  <2>3. QED
    BY <2>1, <2>2
<1>7. \A m, k \in 1 .. Len(f.ends) + 1 : m <= k => MemberStart(f, m) <= MemberStart(f, k)
  <2> SUFFICES ASSUME NEW m \in 1 .. Len(f.ends) + 1, NEW k \in 1 .. Len(f.ends) + 1, m <= k
               PROVE  MemberStart(f, m) <= MemberStart(f, k)
    OBVIOUS
  <2>1. CASE m = 1
    BY <2>1, <1>4, <1>6
  <2>2. CASE m # 1
    <3>1. /\ m - 1 \in 1 .. Len(f.ends) /\ MemberStart(f, m) = f.ends[m - 1]
          /\ k - 1 \in 1 .. Len(f.ends) /\ MemberStart(f, k) = f.ends[k - 1]
          /\ m - 1 <= k - 1
      BY <2>2, <1>1, <1>5
    <3>2. QED
      BY <3>1, <1>1
  <2>3. QED
    BY <2>1, <2>2
<1>8. MemberStart(f, Len(f.ends) + 1) = Len(f.octets)
  <2>1. CASE Len(f.ends) = 0
    BY <2>1, <1>1, <1>4
  <2>2. CASE Len(f.ends) > 0
    <3>1. Len(f.ends) \in 1 .. Len(f.ends)
      BY <2>2, <1>1
    <3>2. QED
      BY <3>1, <2>2, <1>1, <1>3
  <2>3. QED
    BY <2>1, <2>2, <1>1
<1>9. QED
  BY <1>1, <1>2, <1>3, <1>4, <1>6, <1>7, <1>8

\* The other members lie before the octet or after it.
LEMMA OtherMembers ==
  ASSUME NEW f, Readable(f), NEW n \in Int, NEW m, InMember(f, m, n), NEW k \in DOMAIN f.ends
  PROVE  /\ m \in 1 .. Len(f.ends) /\ k \in 1 .. Len(f.ends)
         /\ MemberStart(f, m) \in Nat /\ f.ends[m] \in Nat
         /\ MemberStart(f, k) \in Nat /\ f.ends[k] \in Nat
         /\ MemberStart(f, m) < n /\ n <= f.ends[m]
         /\ k < m => f.ends[k] <= MemberStart(f, m)
         /\ k > m => MemberStart(f, k) >= f.ends[m]
         /\ InMember(f, k, n) => k = m
<1>1. /\ Len(f.ends) \in Nat /\ DOMAIN f.ends = 1 .. Len(f.ends)
      /\ \A i \in 1 .. Len(f.ends) + 1 : MemberStart(f, i) \in Nat
      /\ \A i \in 1 .. Len(f.ends) : MemberStart(f, i + 1) = f.ends[i]
      /\ \A i, j \in 1 .. Len(f.ends) + 1 : i <= j => MemberStart(f, i) <= MemberStart(f, j)
  BY MemberFacts
<1>2. /\ m \in 1 .. Len(f.ends) /\ k \in 1 .. Len(f.ends)
      /\ m + 1 \in 1 .. Len(f.ends) + 1 /\ k + 1 \in 1 .. Len(f.ends) + 1
      /\ m \in 1 .. Len(f.ends) + 1 /\ k \in 1 .. Len(f.ends) + 1
  <2>1. m \in 1 .. Len(f.ends) /\ k \in 1 .. Len(f.ends)
    BY <1>1 DEF InMember
  <2>2. Len(f.ends) \in Nat
    BY <1>1
  <2>3. QED
    BY <2>1, <2>2
<1>3. /\ MemberStart(f, m) \in Nat /\ f.ends[m] \in Nat
      /\ MemberStart(f, k) \in Nat /\ f.ends[k] \in Nat
      /\ MemberStart(f, m) < n /\ n <= f.ends[m]
  BY <1>1, <1>2 DEF InMember
<1>4. k < m => f.ends[k] <= MemberStart(f, m)
  <2>1. k < m => k + 1 <= m
    BY <1>2
  <2>2. QED
    BY <2>1, <1>1, <1>2
<1>5. k > m => MemberStart(f, k) >= f.ends[m]
  <2>1. k > m => m + 1 <= k
    BY <1>2
  <2>2. QED
    BY <2>1, <1>1, <1>2, <1>3
<1>6. InMember(f, k, n) => k = m
  <2>1. InMember(f, k, n) => MemberStart(f, k) < n /\ n <= f.ends[k]
    BY DEF InMember
  <2>2. QED
    BY <2>1, <1>2, <1>3, <1>4, <1>5
<1>7. QED
  BY <1>2, <1>3, <1>4, <1>5, <1>6

LEMMA HeldUpToNat ==
  ASSUME NEW f, NEW m \in Int
  PROVE  HeldUpTo(f, m) \in Nat /\ IsFiniteSet({k \in 1 .. m : Holds(f, k)})
<1>1. IsFiniteSet(1 .. m)
  BY FS_Interval
<1>2. {k \in 1 .. m : Holds(f, k)} \subseteq 1 .. m
  OBVIOUS
<1>3. QED
  BY <1>1, <1>2, FS_Subset, FS_CardinalityType DEF HeldUpTo

\* The members counted so far, and those after them.
LEMMA HeldSum ==
  ASSUME NEW f, NEW a \in Nat \ {0}, NEW b \in Nat, a <= b + 1
  PROVE  /\ HeldUpTo(f, b) = HeldUpTo(f, a - 1) + Cardinality({k \in a .. b : Holds(f, k)})
         /\ Cardinality({k \in a .. b : Holds(f, k)}) \in Nat
<1> DEFINE S == {k \in 1 .. a - 1 : Holds(f, k)}
           T == {k \in a .. b : Holds(f, k)}
           U == {k \in 1 .. b : Holds(f, k)}
<1>1. IsFiniteSet(S) /\ IsFiniteSet(T)
  <2>1. IsFiniteSet(1 .. a - 1) /\ IsFiniteSet(a .. b)
    BY FS_Interval
  <2>2. S \subseteq 1 .. a - 1 /\ T \subseteq a .. b
    OBVIOUS
  <2>3. QED
    BY <2>1, <2>2, FS_Subset
<1>2. U = S \cup T
  OBVIOUS
<1>3. S \cap T = {}
  OBVIOUS
<1>4. Cardinality(S \cup T) = Cardinality(S) + Cardinality(T)
  <2> HIDE DEF S, T
  <2>1. Cardinality(S \cup T) = Cardinality(S) + Cardinality(T) - Cardinality(S \cap T)
    BY <1>1, FS_Union
  <2>2. Cardinality(S \cap T) = 0 /\ Cardinality(S) \in Nat /\ Cardinality(T) \in Nat
    BY <1>1, <1>3, FS_EmptySet, FS_CardinalityType
  <2>3. QED
    BY <2>1, <2>2
<1>5. HeldUpTo(f, b) = Cardinality(U) /\ HeldUpTo(f, a - 1) = Cardinality(S)
  BY DEF HeldUpTo
<1>6. Cardinality(T) \in Nat
  BY <1>1, FS_CardinalityType
<1> HIDE DEF S, T, U
<1>7. HeldUpTo(f, b) = HeldUpTo(f, a - 1) + Cardinality(T)
  BY <1>2, <1>4, <1>5
<1>8. QED
  BY <1>6, <1>7 DEF T

\* The members that have ended are counted, however many are opened at once.
LEMMA HeldThroughIs ==
  ASSUME NEW f, NEW s, SourceExact(f, s), s.mode = "reading", s.mem \in Nat,
         NEW upto \in Nat, s.mem <= upto + 1
  PROVE  HeldThrough(f, s, upto) = HeldUpTo(f, upto)
<1>1. CASE s.mem = 0
  <2>1. {m \in s.mem .. upto : m > 0 /\ Holds(f, m)} = {k \in 1 .. upto : Holds(f, k)}
    BY <1>1
  <2>2. s.held = 0
    BY <1>1 DEF SourceExact
  <2>3. HeldThrough(f, s, upto) = 0 + HeldUpTo(f, upto)
    BY <2>1, <2>2 DEF HeldThrough, HeldUpTo
  <2>4. HeldUpTo(f, upto) \in Nat
    <3>1. upto \in Int
      OBVIOUS
    <3>2. QED
      BY <3>1, HeldUpToNat
  <2>5. QED
    BY <2>3, <2>4
<1>2. CASE s.mem > 0
  <2>1. {m \in s.mem .. upto : m > 0 /\ Holds(f, m)} = {k \in s.mem .. upto : Holds(f, k)}
    BY <1>2
  <2>2. s.held = HeldUpTo(f, s.mem - 1)
    BY <1>2 DEF SourceExact
  <2>3. PICK a \in Nat \ {0} : a = s.mem
    BY <1>2
  <2>4. HeldUpTo(f, upto) = HeldUpTo(f, a - 1) + Cardinality({k \in a .. upto : Holds(f, k)})
    BY <2>3, HeldSum
  <2>5. QED
    BY <2>1, <2>2, <2>3, <2>4 DEF HeldThrough
<1>3. QED
  BY <1>1, <1>2

\* The member that is filled is the one that holds the next octet.
LEMMA FilledExact ==
  ASSUME NEW f, Readable(f), NEW s, SourceOK(f, s), SourceExact(f, s)
  PROVE  /\ SourceExact(f, Filled(f, s).to)
         /\ s.pos < Len(f.octets) => InMember(f, Filled(f, s).to.mem, s.pos + 1)
<1> DEFINE next == {m \in s.mem + 1 .. Len(f.ends) : f.ends[m] > s.pos}
           upto == IF next # {} THEN Least(next) - 1
                   ELSE IF f.broken THEN Len(f.ends) - 1 ELSE Len(f.ends)
           fresh == [mode |-> IF next # {} THEN "reading" ELSE "done",
                     mem |-> IF next # {} THEN Least(next) ELSE Len(f.ends),
                     pos |-> s.pos,
                     endedAt |-> upto,
                     held |-> HeldThrough(f, s, upto)]
           given == IF next # {} THEN f.octets[s.pos + 1]
                    ELSE IF f.broken THEN "error" ELSE "eof"
<1>0. /\ s \in [mode : {"reading", "failed", "done"}, mem : Nat, pos : Nat,
                endedAt : Nat, held : Nat]
      /\ s.mem <= Len(f.ends) /\ s.pos <= Len(f.octets)
      /\ s.mode # "reading" => s.pos = Len(f.octets)
      /\ Len(f.ends) \in Nat /\ Len(f.octets) \in Nat
      /\ DOMAIN f.ends = 1 .. Len(f.ends)
      /\ \A m \in 1 .. Len(f.ends) : f.ends[m] \in Nat
      /\ f.broken => Len(f.ends) > 0
  BY FileFacts, MemberFacts DEF SourceOK
<1>1. s.pos < Len(f.octets) => Filled(f, s).to.mode = "reading"
  BY FilledIs
<1>2. CASE s.mode = "failed"
  <2>1. Filled(f, s).to = [s EXCEPT !.mode = "done"]
    BY <1>2 DEF Filled
  <2>2. /\ Filled(f, s).to.mode = "done" /\ Filled(f, s).to.mem = s.mem
        /\ Filled(f, s).to.endedAt = s.endedAt /\ Filled(f, s).to.held = s.held
    BY <2>1, <1>0
  <2>3. /\ s.mem = Len(f.ends) /\ s.endedAt = LastEnded(f) /\ s.held = HeldUpTo(f, s.endedAt)
    BY <1>2 DEF SourceExact
  <2>4. SourceExact(f, Filled(f, s).to)
    BY <2>2, <2>3 DEF SourceExact
  <2>5. ~(s.pos < Len(f.octets))
    BY <1>0, <1>2
  <2>6. QED
    BY <2>4, <2>5
<1>3. CASE s.mode = "done"
  <2>1. Filled(f, s).to = s
    BY <1>3 DEF Filled
  <2>2. ~(s.pos < Len(f.octets))
    BY <1>0, <1>3
  <2>3. QED
    BY <2>1, <2>2
<1>4. CASE s.mode = "reading" /\ s.mem > 0 /\ s.pos < f.ends[s.mem]
  <2>1. Filled(f, s).to = s
    BY <1>4 DEF Filled
  <2>2. MemberStart(f, s.mem) <= s.pos
    BY <1>0, <1>4 DEF SourceExact
  <2>3. s.mem \in 1 .. Len(f.ends) /\ MemberStart(f, s.mem) \in Nat /\ f.ends[s.mem] \in Nat
    <3>1. s.mem \in 1 .. Len(f.ends) /\ s.mem \in 1 .. Len(f.ends) + 1
      BY <1>0, <1>4
    <3>2. QED
      BY <3>1, <1>0, MemberFacts
  <2>4. InMember(f, s.mem, s.pos + 1)
    BY <2>2, <2>3, <1>0, <1>4 DEF InMember
  <2>5. QED
    BY <2>1, <2>4
<1>5. CASE s.mode = "reading" /\ ~(s.mem > 0 /\ s.pos < f.ends[s.mem])
  <2>1. Filled(f, s) = [to |-> fresh, read |-> given]
    BY <1>5 DEF Filled
  <2>2. Filled(f, s).to = fresh
    BY <2>1
  <2>3. CASE next # {}
    <3>1. Least(next) \in next /\ \A k \in next : Least(next) <= k
      <4>1. next \subseteq Nat
        BY <1>0
      <4> HIDE DEF next
      <4>2. QED
        BY <4>1, <2>3, LeastIs
    <3>2. PICK l \in s.mem + 1 .. Len(f.ends) : l = Least(next) /\ f.ends[l] > s.pos
      BY <3>1
    <3>3. l \in 1 .. Len(f.ends) /\ l \in Nat /\ s.mem < l
      BY <3>2, <1>0
    <3>4. /\ fresh.mode = "reading" /\ fresh.mem = l /\ fresh.pos = s.pos
          /\ fresh.held = HeldThrough(f, s, l - 1)
      <4> HIDE DEF next
      <4> QED
        BY <2>3, <3>2
    <3>5. HeldThrough(f, s, l - 1) = HeldUpTo(f, l - 1)
      <4>1. l - 1 \in Nat /\ s.mem <= l - 1 + 1
        BY <3>3, <1>0
      <4>2. QED
        BY <4>1, <1>0, <1>5, HeldThroughIs
    <3>6. MemberStart(f, l) <= s.pos
      <4>1. CASE l = 1
        BY <4>1, <1>0, MemberFacts
      <4>2. CASE l # 1
        <5>1. l - 1 \in 1 .. Len(f.ends) /\ l - 1 >= s.mem /\ l - 1 < l /\ l - 1 + 1 = l
          BY <4>2, <3>3, <1>0
        <5>2. MemberStart(f, l) = f.ends[l - 1]
          <6>1. MemberStart(f, l - 1 + 1) = f.ends[l - 1]
            BY <5>1, MemberFacts
          <6>2. QED
            BY <6>1, <5>1
        <5>3. CASE l - 1 = s.mem
          BY <5>1, <5>2, <5>3, <1>0, <1>5
        <5>4. CASE l - 1 > s.mem
          <6>1. l - 1 \notin next
            <7>1. \A k \in next : l <= k
              BY <3>1, <3>2
            <7>2. ~(l <= l - 1)
              BY <3>3
            <7> HIDE DEF next
            <7>3. QED
              BY <7>1, <7>2
          <6>2. l - 1 \in s.mem + 1 .. Len(f.ends)
            BY <5>1, <5>4, <1>0
          <6>3. ~(f.ends[l - 1] > s.pos)
            BY <6>1, <6>2
          <6>4. QED
            BY <6>3, <5>1, <5>2, <1>0
        <5>5. QED
          BY <5>1, <5>3, <5>4, <1>0
      <4>3. QED
        BY <4>1, <4>2
    <3>7. MemberStart(f, l) \in Nat /\ f.ends[l] \in Nat
      <4>1. l \in 1 .. Len(f.ends) + 1
        BY <3>3, <1>0
      <4>2. MemberStart(f, l) \in Nat
        <5>1. \A k \in 1 .. Len(f.ends) + 1 : MemberStart(f, k) \in Nat
          BY MemberFacts
        <5>2. QED
          BY <5>1, <4>1
      <4>3. f.ends[l] \in Nat
        BY <3>3, <1>0
      <4>4. QED
        BY <4>2, <4>3
    <3>8. Holds(f, l) /\ InMember(f, l, s.pos + 1)
      <4>1. s.pos \in Nat /\ l \in DOMAIN f.ends
        BY <3>3, <1>0
      <4>2. s.pos < f.ends[l] /\ MemberStart(f, l) <= s.pos
        BY <3>2, <3>6, <1>0
      <4>3. MemberStart(f, l) < s.pos + 1 /\ s.pos + 1 <= f.ends[l] /\ f.ends[l] > MemberStart(f, l)
        BY <4>1, <4>2, <3>7
      <4>4. QED
        BY <4>1, <4>3 DEF Holds, InMember
    <3>9. SourceExact(f, fresh)
      <4>1. f.ends[l] >= s.pos /\ l # 0
        BY <3>2, <3>3, <3>7, <1>0
      <4> HIDE DEF fresh
      <4>2. QED
        BY <3>4, <3>5, <3>6, <3>8, <4>1 DEF SourceExact
    <3> HIDE DEF fresh
    <3>10. QED
      BY <2>2, <3>4, <3>8, <3>9
  <2>4. CASE next = {}
    <3>1. /\ fresh.mode = "done" /\ fresh.mem = Len(f.ends)
          /\ fresh.endedAt = upto /\ fresh.held = HeldThrough(f, s, upto)
          /\ upto = LastEnded(f)
      <4> HIDE DEF next
      <4> QED
        BY <2>4 DEF LastEnded
    <3>2. LastEnded(f) \in Nat /\ s.mem <= LastEnded(f) + 1
      BY <1>0 DEF LastEnded
    <3>3. HeldThrough(f, s, LastEnded(f)) = HeldUpTo(f, LastEnded(f))
      BY <3>2, <1>0, <1>5, HeldThroughIs
    <3> HIDE DEF fresh, upto
    <3>4. SourceExact(f, fresh)
      BY <3>1, <3>3 DEF SourceExact
    <3>5. ~(s.pos < Len(f.octets))
      BY <3>1, <2>2, <1>1
    <3>6. QED
      BY <3>4, <3>5, <2>2
  <2>5. QED
    BY <2>3, <2>4
<1>6. QED
  BY <1>0, <1>2, <1>3, <1>4, <1>5

\* The octet consumed is of the member that was filled.
LEMMA ConsumedExact ==
  ASSUME NEW f, Readable(f), NEW s, SourceOK(f, s), SourceExact(f, s), s.mode = "reading",
         InMember(f, s.mem, s.pos + 1)
  PROVE  SourceExact(f, Consumed(s))
<1>1. /\ s \in [mode : {"reading", "failed", "done"}, mem : Nat, pos : Nat,
                endedAt : Nat, held : Nat]
  BY DEF SourceOK
<1>2. /\ Consumed(s).mode = "reading" /\ Consumed(s).mem = s.mem /\ Consumed(s).pos = s.pos + 1
      /\ Consumed(s).held = s.held /\ s.pos \in Nat
  BY <1>1 DEF Consumed
<1>3. /\ s.mem \in DOMAIN f.ends /\ MemberStart(f, s.mem) < s.pos + 1 /\ s.pos + 1 <= f.ends[s.mem]
  BY DEF InMember
<1>4. s.mem \in 1 .. Len(f.ends) /\ MemberStart(f, s.mem) \in Nat /\ f.ends[s.mem] \in Nat
  <2>1. s.pos + 1 \in Int
    BY <1>2
  <2>2. QED
    BY <2>1, <1>3, OtherMembers
<1>5. s.mem # 0 /\ MemberStart(f, s.mem) <= s.pos + 1
  BY <1>2, <1>3, <1>4
<1>6. Holds(f, s.mem) /\ s.held = HeldUpTo(f, s.mem - 1)
  BY <1>5 DEF SourceExact
<1>7. QED
  BY <1>2, <1>3, <1>5, <1>6 DEF SourceExact

\* What the position says is so.
LEMMA PositionedExact ==
  ASSUME NEW f, Readable(f), NEW s, SourceOK(f, s), SourceExact(f, s)
  PROVE  /\ SourceExact(f, Positioned(f, s).to)
         /\ PositionExact(f, s.pos, Positioned(f, s).at)
<1> DEFINE filled == Filled(f, s)
           to == IF filled.read = "error" THEN [filled.to EXCEPT !.mode = "failed"]
                                          ELSE filled.to
           at == IF filled.read \in {"error", "eof"}
                 THEN [member |-> to.endedAt, boundary |-> TRUE, held |-> to.held]
                 ELSE [member |-> to.mem - 1,
                       boundary |-> to.pos = MemberStart(f, to.mem),
                       held |-> to.held]
<1>1. Positioned(f, s).to = to /\ Positioned(f, s).at = at
  BY DEF Positioned, PositionOnce
<1>2. /\ SourceOK(f, filled.to) /\ filled.to.pos = s.pos
      /\ s.pos < Len(f.octets) =>
           /\ filled.read = f.octets[s.pos + 1]
           /\ filled.to.mode = "reading" /\ filled.to.mem > 0
      /\ s.pos = Len(f.octets) =>
           /\ filled.read \in {"eof", "error"}
           /\ filled.to.mode = "done"
      /\ SourceExact(f, filled.to)
      /\ s.pos < Len(f.octets) => InMember(f, filled.to.mem, s.pos + 1)
  BY FilledIs, FilledExact
<1>3. /\ s.pos \in Nat /\ Len(f.octets) \in Nat /\ s.pos <= Len(f.octets)
  BY FileFacts DEF SourceOK
<1>4. /\ filled.to \in [mode : {"reading", "failed", "done"}, mem : Nat, pos : Nat,
                        endedAt : Nat, held : Nat]
      /\ filled.to.mem <= Len(f.ends) /\ filled.to.pos <= Len(f.octets)
  BY <1>2 DEF SourceOK
<1> HIDE DEF filled
<1>5. CASE s.pos < Len(f.octets)
  <2>1. filled.read \in Octets
    <3>1. s.pos + 1 \in 1 .. Len(f.octets)
      BY <1>3, <1>5
    <3>2. QED
      BY <3>1, <1>2, <1>5, FileFacts
  <2>2. filled.read \notin {"eof", "error"}
    BY <2>1 DEF Octets
  <2>3. to = filled.to
    BY <2>2
  <2>4. at = [member |-> filled.to.mem - 1,
              boundary |-> filled.to.pos = MemberStart(f, filled.to.mem),
              held |-> filled.to.held]
    BY <2>2
  <2>5. /\ at.member = filled.to.mem - 1
        /\ at.boundary = (s.pos = MemberStart(f, filled.to.mem))
        /\ at.held = filled.to.held
    BY <2>4, <1>2
  <2>6. filled.to.held = HeldUpTo(f, filled.to.mem - 1)
    <3>1. filled.to.mode = "reading" /\ filled.to.mem # 0
      BY <1>2, <1>4, <1>5
    <3>2. QED
      BY <3>1, <1>2 DEF SourceExact
  <2>7. filled.to.mem - 1 + 1 = filled.to.mem
    BY <1>4
  <2> HIDE DEF at, to
  <2>8. PositionExact(f, s.pos, at)
    <3>1. InMember(f, at.member + 1, s.pos + 1)
      BY <2>5, <2>7, <1>2, <1>5
    <3>2. at.boundary <=> MemberStart(f, at.member + 1) = s.pos
      BY <2>5, <2>7
    <3>3. at.held = HeldUpTo(f, at.member)
      BY <2>5, <2>6
    <3>4. QED
      BY <3>1, <3>2, <3>3, <1>5 DEF PositionExact
  <2>9. QED
    BY <1>1, <1>2, <2>3, <2>8
<1>6. CASE s.pos = Len(f.octets)
  <2>1. at = [member |-> to.endedAt, boundary |-> TRUE, held |-> to.held]
    BY <1>2, <1>6
  <2>2. /\ to.mode # "reading"
        /\ to.mem = filled.to.mem /\ to.held = filled.to.held /\ to.endedAt = filled.to.endedAt
    <3>1. CASE filled.read = "error"
      BY <3>1, <1>4
    <3>2. CASE filled.read # "error"
      BY <3>2, <1>2, <1>6
    <3>3. QED
      BY <3>1, <3>2
  <2>3. /\ filled.to.mem = Len(f.ends) /\ filled.to.endedAt = LastEnded(f)
        /\ filled.to.held = HeldUpTo(f, filled.to.endedAt)
    BY <1>2, <1>6 DEF SourceExact
  <2>4. at.member = to.endedAt /\ at.boundary /\ at.held = to.held
    BY <2>1
  <2> HIDE DEF at, to
  <2>5. SourceExact(f, to)
    BY <2>2, <2>3 DEF SourceExact
  <2>6. PositionExact(f, s.pos, at)
    BY <2>2, <2>3, <2>4, <1>3, <1>6 DEF PositionExact
  <2>7. QED
    BY <1>1, <2>5, <2>6
<1>7. QED
  BY <1>3, <1>5, <1>6

\* A line read leaves MemberReader where its last octet lies.
LEMMA LineReadExact ==
  ASSUME NEW f, Readable(f), NEW s, SourceOK(f, s), SourceExact(f, s)
  PROVE  SourceExact(f, LineRead(f, s).to)
<1> DEFINE first == Filled(f, s)
           next == Consumed(first.to)
           second == Filled(f, next)
           r == LineRead(f, s)
<1>1. r = LineOnce(first, second)
  BY DEF LineRead
<1>2. /\ s.pos \in Nat /\ Len(f.octets) \in Nat /\ s.pos <= Len(f.octets)
  BY FileFacts DEF SourceOK
<1>3. /\ SourceOK(f, first.to) /\ first.to.pos = s.pos
      /\ s.pos < Len(f.octets) => first.to.mode = "reading"
      /\ s.pos = Len(f.octets) => first.read \in {"eof", "error"}
      /\ SourceExact(f, first.to)
      /\ s.pos < Len(f.octets) => InMember(f, first.to.mem, s.pos + 1)
  BY FilledIs, FilledExact
<1>4. ASSUME s.pos < Len(f.octets)
      PROVE  SourceOK(f, next) /\ SourceExact(f, next) /\ next.pos = s.pos + 1
  BY <1>2, <1>3, <1>4, ConsumedIs, ConsumedExact
<1>5. ASSUME s.pos < Len(f.octets)
      PROVE  /\ SourceOK(f, second.to) /\ second.to.pos = s.pos + 1
             /\ s.pos + 1 < Len(f.octets) => second.to.mode = "reading"
             /\ s.pos + 1 = Len(f.octets) => second.read \in {"eof", "error"}
             /\ SourceExact(f, second.to)
             /\ s.pos + 1 < Len(f.octets) => InMember(f, second.to.mem, s.pos + 1 + 1)
  <2> HIDE DEF next
  <2> QED
    BY <1>4, <1>5, FilledIs, FilledExact
<1>6. CASE first.read \in {"eof", "error"}
  <2>1. r = [to |-> first.to, line |-> first.read, octets |-> 0]
    BY <1>1, <1>6 DEF LineOnce
  <2>2. r.to = first.to
    BY <2>1
  <2>3. QED
    BY <2>2, <1>3
<1>7. CASE first.read \notin {"eof", "error"}
  <2>1. s.pos < Len(f.octets)
    BY <1>2, <1>3, <1>7
  <2>2. CASE first.read = "cr" /\ second.read \in {"eof", "error"}
    <3>1. r = [to |-> second.to, line |-> second.read, octets |-> 1]
      BY <1>1, <2>2 DEF LineOnce
    <3>2. r.to = second.to
      BY <3>1
    <3>3. QED
      BY <3>2, <2>1, <1>5
  <2>3. CASE first.read = "cr" /\ second.read = "lf"
    <3>1. r = [to |-> Consumed(second.to), line |-> "blank", octets |-> 0]
      BY <1>1, <2>3 DEF LineOnce
    <3>2. r.to = Consumed(second.to)
      BY <3>1
    <3>3. s.pos + 1 < Len(f.octets)
      BY <2>1, <2>3, <1>2, <1>5
    <3> HIDE DEF second
    <3>4. SourceExact(f, Consumed(second.to))
      BY <3>3, <2>1, <1>5, ConsumedExact
    <3>5. QED
      BY <3>2, <3>4
  <2>4. CASE ~(first.read = "cr" /\ second.read \in {"eof", "error", "lf"})
    <3>1. r.to = next
      BY <1>1, <1>7, <2>4 DEF LineOnce
    <3>2. QED
      BY <3>1, <2>1, <1>4
  <2>5. QED
    BY <2>2, <2>3, <2>4
<1>8. QED
  BY <1>6, <1>7

\* The member begun last within the padding, after one more blank line.
LEMMA BeganOn ==
  ASSUME NEW f, Readable(f), NEW pos \in Nat, NEW b \in Nat \cup {None}, BeganExact(f, b, pos),
         Boundary(f, pos), NEW at \in Positions, PositionExact(f, pos, at),
         NEW to \in Nat, to <= Len(f.octets),
         \/ to = pos + 1 /\ f.octets[pos + 1] = "lf"
         \/ to = pos + 2 /\ f.octets[pos + 1] = "cr" /\ f.octets[pos + 2] = "lf"
  PROVE  BeganExact(f, IF at.boundary THEN at.member ELSE b, to)
<1> DEFINE now == IF at.boundary THEN at.member ELSE b
           m0 == at.member + 1
<1>0. Len(f.octets) \in Nat /\ at.member \in Nat /\ at.boundary \in BOOLEAN /\ None \notin Int
  BY FileFacts, NoneAssumption DEF Positions
<1>1. pos < Len(f.octets) /\ pos < to
  BY <1>0
<1>2. InMember(f, m0, pos + 1) /\ (at.boundary <=> MemberStart(f, m0) = pos)
  BY <1>1 DEF PositionExact
<1>3. \A n \in Nat : n > pos /\ n <= to => f.octets[n] \in {"cr", "lf"}
  BY BlankLineRead
<1>4. ASSUME NEW m, MemberStart(f, m) \in Nat, MemberStart(f, m) <= pos, BeginsBlank(f, m, pos)
      PROVE  BeginsBlank(f, m, to)
  <2>1. ASSUME NEW k \in MemberStart(f, m) + 1 .. to PROVE f.octets[k] \in {"cr", "lf"}
    <3>1. k \in Nat /\ (k \in MemberStart(f, m) + 1 .. pos \/ (k > pos /\ k <= to))
      BY <1>4
    <3>2. QED
      BY <3>1, <1>3, <1>4 DEF BeginsBlank, OnlyBlank
  <2>2. QED
    BY <2>1, <1>4 DEF BeginsBlank, OnlyBlank
<1>5. ASSUME NEW m \in DOMAIN f.ends
      PROVE  /\ m \in Nat /\ m0 \in DOMAIN f.ends /\ m0 \in Nat
             /\ MemberStart(f, m) \in Nat /\ f.ends[m] \in Nat /\ MemberStart(f, m0) \in Nat
             /\ MemberStart(f, m0) <= pos /\ f.ends[m0] \in Nat /\ pos < f.ends[m0]
             /\ m < m0 => f.ends[m] <= MemberStart(f, m0)
             /\ m > m0 => MemberStart(f, m) >= f.ends[m0]
  <2>1. pos + 1 \in Int /\ Len(f.ends) \in Nat
    BY FileFacts
  <2>2. /\ m0 \in 1 .. Len(f.ends) /\ m \in 1 .. Len(f.ends)
        /\ MemberStart(f, m0) \in Nat /\ f.ends[m0] \in Nat
        /\ MemberStart(f, m) \in Nat /\ f.ends[m] \in Nat
        /\ MemberStart(f, m0) < pos + 1 /\ pos + 1 <= f.ends[m0]
        /\ m < m0 => f.ends[m] <= MemberStart(f, m0)
        /\ m > m0 => MemberStart(f, m) >= f.ends[m0]
    BY <2>1, <1>2, OtherMembers
  <2>3. m0 \in DOMAIN f.ends
    BY <1>2 DEF InMember
  <2> HIDE DEF m0
  <2>4. QED
    BY <2>1, <2>2, <2>3
<1>6. ASSUME now # None
      PROVE  /\ now + 1 \in DOMAIN f.ends
             /\ MemberStart(f, now + 1) < to
             /\ BeginsBlank(f, now + 1, to)
  <2>1. CASE at.boundary
    <3>1. now + 1 = m0 /\ MemberStart(f, m0) = pos /\ m0 \in DOMAIN f.ends
      BY <2>1, <1>2 DEF InMember
    <3>2. OnlyBlank(f, pos, pos)
      BY DEF OnlyBlank
    <3>3. BeginsBlank(f, m0, pos)
      BY <3>1, <3>2 DEF BeginsBlank
    <3>4. BeginsBlank(f, m0, to)
      <4> HIDE DEF m0
      <4> QED
        BY <3>1, <3>3, <1>4
    <3>5. QED
      BY <3>1, <3>4, <1>1
  <2>2. CASE ~at.boundary
    <3>1. now = b
      BY <2>2
    <3>2. b + 1 \in DOMAIN f.ends /\ MemberStart(f, b + 1) < pos /\ BeginsBlank(f, b + 1, pos)
      BY <3>1, <1>6 DEF BeganExact
    <3>3. MemberStart(f, b + 1) \in Nat
      BY <3>2, <1>5
    <3>4. BeginsBlank(f, b + 1, to)
      BY <3>2, <3>3, <1>4
    <3>5. QED
      BY <3>1, <3>2, <3>3, <3>4, <1>1
  <2>3. QED
    BY <2>1, <2>2
<1>7. ASSUME NEW m \in DOMAIN f.ends, Holds(f, m), MemberStart(f, m) < to, BeginsBlank(f, m, to)
      PROVE  now # None /\ m <= now + 1
  <2>1. /\ m \in Nat /\ m0 \in Nat
        /\ MemberStart(f, m) \in Nat /\ f.ends[m] \in Nat /\ MemberStart(f, m0) \in Nat
        /\ MemberStart(f, m0) <= pos /\ f.ends[m0] \in Nat /\ pos < f.ends[m0]
        /\ m < m0 => f.ends[m] <= MemberStart(f, m0)
        /\ m > m0 => MemberStart(f, m) >= f.ends[m0]
        /\ MemberStart(f, m) < f.ends[m]
    BY <1>5, <1>7 DEF Holds
  <2>2. MemberStart(f, m) <= pos
    <3>1. CASE MemberStart(f, m) = pos + 1
      <4>1. to = pos + 2 /\ f.octets[pos + 1] = "cr"
        BY <3>1, <1>7
      <4>2. pos + 1 # 0
        OBVIOUS
      <4>3. ~Boundary(f, MemberStart(f, m))
        BY <3>1, <4>1, <4>2 DEF Boundary, LastOctet
      <4>4. QED
        BY <4>3, <1>7 DEF BeginsBlank
    <3>2. QED
      BY <3>1, <2>1, <1>7
  <2>3. m <= m0
    BY <2>1, <2>2
  <2>4. CASE at.boundary
    BY <2>4, <2>3, <1>0
  <2>5. CASE ~at.boundary
    <3>1. MemberStart(f, m) # pos
      <4>1. MemberStart(f, m0) # pos
        BY <2>5, <1>2
      <4>2. CASE m = m0
        BY <4>1, <4>2
      <4>3. CASE m < m0
        BY <4>1, <4>3, <2>1
      <4> HIDE DEF m0
      <4>4. QED
        BY <4>2, <4>3, <2>1, <2>3
    <3>2. MemberStart(f, m) < pos
      BY <3>1, <2>1, <2>2
    <3>3. BeginsBlank(f, m, pos)
      <4>1. ASSUME NEW k \in MemberStart(f, m) + 1 .. pos PROVE f.octets[k] \in {"cr", "lf"}
        <5>1. k \in MemberStart(f, m) + 1 .. to
          BY <2>1, <1>1
        <5>2. QED
          BY <5>1, <1>7 DEF BeginsBlank, OnlyBlank
      <4>2. QED
        BY <4>1, <1>7 DEF BeginsBlank, OnlyBlank
    <3>4. b # None /\ m <= b + 1
      BY <3>2, <3>3, <1>7 DEF BeganExact
    <3>5. QED
      BY <3>4, <2>5
  <2>6. QED
    BY <2>4, <2>5
<1> HIDE DEF now
<1>8. BeganExact(f, now, to)
  BY <1>6, <1>7 DEF BeganExact
<1>9. QED
  BY <1>8 DEF now

\* Where the record begins that follows the padding.
LEMMA StartIs ==
  ASSUME NEW f, Readable(f), NEW pos \in Nat, pos < Len(f.octets), NEW b \in Nat \cup {None},
         BeganExact(f, b, pos), Boundary(f, pos), NEW at \in Positions, PositionExact(f, pos, at)
  PROVE  StartExact(f, pos + 1,
            [at EXCEPT !.boundary = BeginsMember(IF at.boundary THEN at.member ELSE b, at)])
<1> DEFINE m0 == at.member + 1
           begins == BeginsMember(IF at.boundary THEN at.member ELSE b, at)
<1>0. at.member \in Nat /\ at.boundary \in BOOLEAN /\ None \notin Int
  BY NoneAssumption DEF Positions
<1>1. /\ InMember(f, m0, pos + 1) /\ (at.boundary <=> MemberStart(f, m0) = pos)
      /\ at.held = HeldUpTo(f, at.member)
  BY DEF PositionExact
<1>2. /\ [at EXCEPT !.boundary = begins].member = at.member
      /\ [at EXCEPT !.boundary = begins].boundary = begins
      /\ [at EXCEPT !.boundary = begins].held = at.held
  BY DEF Positions
<1>3. /\ m0 \in DOMAIN f.ends /\ MemberStart(f, m0) \in Nat /\ f.ends[m0] \in Nat
      /\ MemberStart(f, m0) <= pos /\ pos < f.ends[m0]
  <2>1. m0 \in DOMAIN f.ends /\ pos + 1 \in Int
    BY <1>1 DEF InMember
  <2>2. /\ MemberStart(f, m0) \in Nat /\ f.ends[m0] \in Nat
        /\ MemberStart(f, m0) < pos + 1 /\ pos + 1 <= f.ends[m0]
    <3> HIDE DEF m0
    <3> QED
      BY <2>1, <1>1, OtherMembers
  <2>3. QED
    BY <2>1, <2>2
<1>4. begins <=> BeginsBlank(f, m0, pos)
  <2>1. CASE at.boundary
    <3>1. begins
      BY <2>1 DEF BeginsMember
    <3>2. MemberStart(f, m0) = pos
      BY <2>1, <1>1
    <3>3. BeginsBlank(f, m0, pos)
      BY <3>2 DEF BeginsBlank, OnlyBlank
    <3>4. QED
      BY <3>1, <3>3
  <2>2. CASE ~at.boundary
    <3>1. begins <=> b = at.member
      BY <2>2 DEF BeginsMember
    <3>2. MemberStart(f, m0) < pos
      BY <2>2, <1>1, <1>3
    <3>3. ASSUME b = at.member PROVE BeginsBlank(f, m0, pos)
      <4>1. b # None /\ b + 1 = m0
        BY <3>3, <1>0
      <4>2. BeginsBlank(f, b + 1, pos)
        BY <4>1 DEF BeganExact
      <4>3. QED
        BY <4>1, <4>2
    <3>4. ASSUME BeginsBlank(f, m0, pos) PROVE b = at.member
      <4>1. Holds(f, m0)
        BY <1>3 DEF Holds
      <4>2. b # None /\ m0 <= b + 1
        BY <4>1, <3>2, <3>4, <1>3 DEF BeganExact
      <4>3. b \in Nat /\ b + 1 \in DOMAIN f.ends /\ MemberStart(f, b + 1) < pos
        BY <4>2 DEF BeganExact
      <4>4. PICK k \in DOMAIN f.ends : k = b + 1
        BY <4>3
      <4>5. k > m0 => MemberStart(f, k) >= f.ends[m0]
        <5>1. pos + 1 \in Int
          OBVIOUS
        <5> HIDE DEF m0
        <5>2. QED
          BY <5>1, <1>1, OtherMembers
      <4>6. MemberStart(f, k) \in Nat
        <5>1. pos + 1 \in Int
          OBVIOUS
        <5> HIDE DEF m0
        <5>2. QED
          BY <5>1, <1>1, OtherMembers
      <4>7. ~(k > m0)
        <5> HIDE DEF m0
        <5> QED
          BY <4>3, <4>4, <4>5, <4>6, <1>3
      <4>8. QED
        BY <4>2, <4>3, <4>4, <4>7, <1>0
    <3>5. QED
      BY <3>1, <3>3, <3>4
  <2>3. QED
    BY <2>1, <2>2
<1>5. pos + 1 - 1 = pos
  OBVIOUS
<1> HIDE DEF begins
<1>6. StartExact(f, pos + 1, [at EXCEPT !.boundary = begins])
  BY <1>1, <1>2, <1>4, <1>5 DEF StartExact
<1>7. QED
  BY <1>6 DEF begins

\* A record of a stream.
LEMMA RecordIs ==
  ASSUME NEW f, Readable(f), NEW n \in Records(f)
  PROVE  /\ n \in Nat /\ n >= 1 /\ n + 2 <= Len(f.octets) /\ Len(f.octets) \in Nat
         /\ f.octets[n] = "line" /\ f.octets[n + 2] = "body"
         /\ Boundary(f, n + 2) /\ OnlyBlank(f, n + 2, n + 2)
<1>1. f.octets \in Seq(Octets) /\ Len(f.octets) \in Nat
  BY FileFacts
<1>2. /\ n \in Nat /\ n >= 1 /\ n + 2 <= Len(f.octets)
      /\ f.octets[n] = "line" /\ f.octets[n + 2] = "body"
  BY <1>1 DEF Records
<1>3. Boundary(f, n + 2) /\ OnlyBlank(f, n + 2, n + 2)
  BY <1>2 DEF Boundary, LastOctet, OnlyBlank
<1>4. QED
  BY <1>1, <1>2, <1>3

\* Where a position after the record is a boundary, its members end there.
LEMMA EndIs ==
  ASSUME NEW f, Readable(f), f.gzip, NEW n \in Records(f), NEW pos \in Nat, n + 2 <= pos,
         pos <= Len(f.octets), OnlyBlank(f, n + 2, pos),
         NEW at \in Positions, PositionExact(f, pos, at), at.boundary
  PROVE  \/ EndsBroken(f, n)
         \/ at.member \in 0 .. LastEnded(f) /\ MemberStart(f, at.member + 1) = pos
<1>0. /\ Len(f.octets) \in Nat /\ Len(f.ends) \in Nat /\ f.broken \in BOOLEAN
      /\ DOMAIN f.ends = 1 .. Len(f.ends)
      /\ f.broken => Len(f.ends) > 0
      /\ MemberStart(f, Len(f.ends) + 1) = Len(f.octets)
      /\ at.member \in Nat /\ n \in Nat
  BY FileFacts, MemberFacts, RecordIs DEF Positions
<1>1. CASE pos < Len(f.octets)
  <2>1. InMember(f, at.member + 1, pos + 1) /\ MemberStart(f, at.member + 1) = pos
    BY <1>1 DEF PositionExact
  <2>2. at.member + 1 \in 1 .. Len(f.ends)
    BY <2>1, <1>0 DEF InMember
  <2>3. at.member \in 0 .. LastEnded(f)
    BY <2>2, <1>0 DEF LastEnded
  <2>4. QED
    BY <2>1, <2>3
<1>2. CASE pos = Len(f.octets)
  <2>1. at.member = LastEnded(f)
    BY <1>0, <1>2 DEF PositionExact
  <2>2. CASE ~f.broken
    BY <2>1, <2>2, <1>0, <1>2 DEF LastEnded
  <2>3. CASE f.broken
    <3>1. at.member + 1 = Len(f.ends) /\ at.member \in 0 .. LastEnded(f)
      BY <2>1, <2>3, <1>0 DEF LastEnded
    <3>2. MemberStart(f, Len(f.ends)) \in Nat /\ MemberStart(f, Len(f.ends)) <= Len(f.octets)
      <4>1. Len(f.ends) \in 1 .. Len(f.ends) + 1
        BY <2>3, <1>0
      <4>2. QED
        BY <4>1, MemberFacts
    <3>3. CASE MemberStart(f, Len(f.ends)) = Len(f.octets)
      BY <3>1, <3>3, <1>2
    <3>4. CASE MemberStart(f, Len(f.ends)) # Len(f.octets)
      <4>1. Len(f.octets) \in MemberStart(f, Len(f.ends)) + 1 .. Len(f.octets)
        BY <3>2, <3>4, <1>0
      <4>2. \A l \in n + 3 .. Len(f.octets) : f.octets[l] \in {"cr", "lf"}
        <5>1. n + 2 + 1 = n + 3
          BY <1>0
        <5>2. QED
          BY <5>1, <1>2 DEF OnlyBlank
      <4>3. EndsBroken(f, n)
        BY <4>1, <4>2, <2>3 DEF EndsBroken
      <4>4. QED
        BY <4>3
    <3>5. QED
      BY <3>3, <3>4
  <2>4. QED
    BY <2>2, <2>3
<1>3. QED
  BY <1>0, <1>1, <1>2

\* The placement of a record, once the padding was read up to another line.
LEMMA PlacedOn ==
  ASSUME NEW f, Readable(f), f.gzip, NEW n \in Records(f), NEW pos \in Nat, n + 2 <= pos,
         pos <= Len(f.octets), Boundary(f, pos), OnlyBlank(f, n + 2, pos),
         NEW place \in Placements, IsPlaced(f, n, place, pos - 1),
         NEW at \in Positions, PositionExact(f, pos, at)
  PROVE  IsPlaced(f, n, IF at.boundary THEN Extended(place, at) ELSE place, pos)
<1>0. /\ Len(f.octets) \in Nat /\ Len(f.ends) \in Nat
      /\ at.member \in Nat /\ n \in Nat /\ at.boundary \in BOOLEAN
      /\ place.offset \in Nat /\ place.length \in Int \cup {None} /\ None \notin Int
      /\ place \in [offset : Nat, length : Int \cup {None}, members : Int, begins : BOOLEAN]
  BY FileFacts, RecordIs, NoneAssumption DEF Positions, Placements
<1>1. CASE at.boundary
  <2>1. PICK v \in Int : v = at.member - place.offset
    BY <1>0
  <2> DEFINE new == [place EXCEPT !.length = v]
  <2>2. Extended(place, at) = new
    BY <2>1 DEF Extended
  <2>3. /\ new.offset = place.offset /\ new.length = v /\ new.members = place.members
        /\ new.begins = place.begins
    BY <1>0
  <2>4. new.offset + new.length = at.member /\ new.length # None
    BY <2>1, <2>3, <1>0
  <2>5. \/ EndsBroken(f, n)
        \/ at.member \in 0 .. LastEnded(f) /\ MemberStart(f, at.member + 1) = pos
    BY <1>1, EndIs
  <2> HIDE DEF new
  <2>6. IsPlaced(f, n, new, pos)
    BY <2>3, <2>4, <2>5 DEF IsPlaced
  <2>7. QED
    BY <2>2, <2>6, <1>1
<1>2. CASE ~at.boundary
  <2>1. pos < Len(f.octets)
    BY <1>0, <1>2 DEF PositionExact
  <2>2. InMember(f, at.member + 1, pos + 1) /\ MemberStart(f, at.member + 1) # pos
    BY <2>1, <1>2 DEF PositionExact
  <2>3. ASSUME NEW m \in DOMAIN f.ends, f.ends[m] = pos PROVE FALSE
    <3>1. PICK m0 : m0 = at.member + 1
      OBVIOUS
    <3>2. InMember(f, m0, pos + 1) /\ pos + 1 \in Int
      BY <3>1, <2>2
    <3>3. /\ MemberStart(f, m0) \in Nat /\ f.ends[m0] \in Nat /\ m \in Nat /\ m0 \in Nat
          /\ MemberStart(f, m) \in Nat
          /\ MemberStart(f, m0) < pos + 1 /\ pos + 1 <= f.ends[m0]
          /\ m < m0 => f.ends[m] <= MemberStart(f, m0)
          /\ m > m0 => MemberStart(f, m) >= f.ends[m0]
      <4>1. PICK i \in Int : i = pos + 1
        BY <3>2
      <4>2. InMember(f, m0, i)
        BY <3>2, <4>1
      <4>3. /\ m0 \in 1 .. Len(f.ends) /\ m \in 1 .. Len(f.ends)
            /\ MemberStart(f, m0) \in Nat /\ f.ends[m0] \in Nat /\ MemberStart(f, m) \in Nat
            /\ MemberStart(f, m0) < i /\ i <= f.ends[m0]
            /\ m < m0 => f.ends[m] <= MemberStart(f, m0)
            /\ m > m0 => MemberStart(f, m) >= f.ends[m0]
        BY <4>2, OtherMembers
      <4>4. m \in Nat /\ m0 \in Nat
        <5>1. m \in 1 .. Len(f.ends) /\ m0 \in 1 .. Len(f.ends)
          BY <4>3
        <5>2. QED
          BY <5>1
      <4>5. QED
        BY <4>1, <4>3, <4>4
    <3>4. MemberStart(f, m) <= f.ends[m]
      <4>1. /\ m \in 1 .. Len(f.ends) + 1 /\ m + 1 \in 1 .. Len(f.ends) + 1 /\ m <= m + 1
            /\ m \in 1 .. Len(f.ends)
        <5>1. DOMAIN f.ends = 1 .. Len(f.ends)
          BY MemberFacts
        <5>2. QED
          BY <5>1, <1>0
      <4>2. MemberStart(f, m + 1) = f.ends[m]
        BY <4>1, MemberFacts
      <4>3. MemberStart(f, m) <= MemberStart(f, m + 1)
        <5>1. \A j, k \in 1 .. Len(f.ends) + 1 :
                 j <= k => MemberStart(f, j) <= MemberStart(f, k)
          BY MemberFacts
        <5>2. QED
          BY <5>1, <4>1
      <4>4. QED
        BY <4>2, <4>3
    <3>5. QED
      BY <3>1, <3>3, <3>4, <2>2, <2>3
  <2>4. ASSUME place.length = None
        PROVE  \A m \in DOMAIN f.ends :
                  n + 2 <= f.ends[m] /\ f.ends[m] <= pos => ~Boundary(f, f.ends[m])
    <3>1. \A m \in DOMAIN f.ends :
             n + 2 <= f.ends[m] /\ f.ends[m] <= pos - 1 => ~Boundary(f, f.ends[m])
      BY <2>4 DEF IsPlaced
    <3>2. \A m \in DOMAIN f.ends : f.ends[m] \in Nat
      BY FileFacts, MemberFacts
    <3>3. \A m \in DOMAIN f.ends : f.ends[m] <= pos => f.ends[m] <= pos - 1
      BY <3>2, <2>3
    <3>4. QED
      BY <3>1, <3>3
  <2>5. IsPlaced(f, n, place, pos)
    BY <2>4 DEF IsPlaced
  <2>6. QED
    BY <2>5, <1>2
<1>3. QED
  BY <1>0, <1>1, <1>2

\* Every octet is in a member.
LEMMA MemberOf ==
  ASSUME NEW f, Readable(f), NEW n \in 1 .. Len(f.octets)
  PROVE  \E m \in DOMAIN f.ends : InMember(f, m, n)
<1> DEFINE S == {m \in 1 .. Len(f.ends) : n <= f.ends[m]}
<1>1. /\ Len(f.ends) \in Nat /\ Len(f.octets) \in Nat /\ DOMAIN f.ends = 1 .. Len(f.ends)
      /\ \A m \in 1 .. Len(f.ends) : f.ends[m] \in Nat /\ MemberStart(f, m + 1) = f.ends[m]
      /\ MemberStart(f, 1) = 0
      /\ Len(f.ends) > 0 => f.ends[Len(f.ends)] = Len(f.octets)
      /\ Len(f.ends) = 0 => Len(f.octets) = 0
  BY FileFacts, MemberFacts
<1>2. Len(f.ends) \in S
  BY <1>1
<1>3. S \subseteq Nat
  BY <1>1
<1>4. Least(S) \in S /\ \A k \in S : Least(S) <= k
  <2> HIDE DEF S
  <2> QED
    BY <1>2, <1>3, LeastIs
<1>5. PICK m \in 1 .. Len(f.ends) : m = Least(S) /\ n <= f.ends[m]
  BY <1>4
<1>6. MemberStart(f, m) < n
  <2>1. CASE m = 1
    BY <2>1, <1>1
  <2>2. CASE m # 1
    <3>1. m - 1 \in 1 .. Len(f.ends) /\ m - 1 + 1 = m /\ ~(m <= m - 1)
      BY <2>2, <1>1
    <3>2. m - 1 \notin S
      <4> HIDE DEF S
      <4> QED
        BY <3>1, <1>4, <1>5
    <3>3. MemberStart(f, m) = f.ends[m - 1] /\ f.ends[m - 1] \in Nat
      <4>1. MemberStart(f, m - 1 + 1) = f.ends[m - 1] /\ f.ends[m - 1] \in Nat
        BY <3>1, <1>1
      <4>2. QED
        BY <4>1, <3>1
    <3>4. QED
      BY <3>1, <3>2, <3>3
  <2>3. QED
    BY <2>1, <2>2
<1>7. QED
  BY <1>1, <1>5, <1>6 DEF InMember

\* The members that hold an octet of a record.
LEMMA MembersOfIs ==
  ASSUME NEW f, Readable(f), NEW n \in Nat, NEW m \in 1 .. Len(f.ends)
  PROVE  /\ MemberStart(f, m) \in Nat /\ f.ends[m] \in Nat /\ MemberStart(f, m) <= f.ends[m]
         /\ m \in MembersOf(f, n) <=>
              Holds(f, m) /\ MemberStart(f, m) < n + 2 /\ n <= f.ends[m]
<1>1. /\ Len(f.ends) \in Nat /\ DOMAIN f.ends = 1 .. Len(f.ends)
      /\ \A i \in 1 .. Len(f.ends) + 1 : MemberStart(f, i) \in Nat
      /\ \A i \in 1 .. Len(f.ends) : MemberStart(f, i + 1) = f.ends[i]
      /\ \A i, j \in 1 .. Len(f.ends) + 1 : i <= j => MemberStart(f, i) <= MemberStart(f, j)
  BY MemberFacts
<1>2. m \in 1 .. Len(f.ends) + 1 /\ m + 1 \in 1 .. Len(f.ends) + 1 /\ m <= m + 1
  BY <1>1
<1>3. MemberStart(f, m) \in Nat /\ f.ends[m] \in Nat /\ MemberStart(f, m) <= f.ends[m]
  BY <1>1, <1>2
<1>4. m \in MembersOf(f, n) <=>
        \E k \in n .. n + 2 : MemberStart(f, m) < k /\ k <= f.ends[m]
  BY <1>1 DEF MembersOf, OctetsOf
<1>5. ASSUME NEW k \in n .. n + 2, MemberStart(f, m) < k, k <= f.ends[m]
      PROVE  Holds(f, m) /\ MemberStart(f, m) < n + 2 /\ n <= f.ends[m]
  BY <1>3, <1>5 DEF Holds
<1>6. ASSUME Holds(f, m), MemberStart(f, m) < n + 2, n <= f.ends[m]
      PROVE  \E k \in n .. n + 2 : MemberStart(f, m) < k /\ k <= f.ends[m]
  <2>1. MemberStart(f, m) < f.ends[m]
    BY <1>6 DEF Holds
  <2>2. CASE MemberStart(f, m) < n
    <3>1. n \in n .. n + 2
      OBVIOUS
    <3>2. QED
      BY <3>1, <2>2, <1>6
  <2>3. CASE ~(MemberStart(f, m) < n)
    <3>1. PICK k \in n .. n + 2 : k = MemberStart(f, m) + 1
      BY <2>3, <1>3, <1>6
    <3>2. QED
      BY <3>1, <2>1, <1>3
  <2>4. QED
    BY <2>2, <2>3
<1>7. QED
  BY <1>3, <1>4, <1>5, <1>6

\* The members counted from where a record begins to where it ends are those that
\* hold it.
LEMMA MembersCounted ==
  ASSUME NEW f, Readable(f), f.gzip, NEW n \in Records(f), NEW from \in Positions,
         NEW to \in Positions, StartExact(f, n, from), PositionExact(f, n + 2, to),
         ~EndsBroken(f, n)
  PROVE  Between(from, to).members = Cardinality(MembersOf(f, n))
<1>0. /\ Len(f.octets) \in Nat /\ Len(f.ends) \in Nat /\ f.broken \in BOOLEAN
      /\ DOMAIN f.ends = 1 .. Len(f.ends)
      /\ f.broken => Len(f.ends) > 0
      /\ from.member \in Nat /\ to.member \in Nat /\ to.boundary \in BOOLEAN
      /\ from.held \in Nat /\ to.held \in Nat
      /\ n \in Nat /\ n >= 1 /\ n + 2 <= Len(f.octets)
  BY FileFacts, MemberFacts, RecordIs DEF Positions
<1>1. PICK a \in Nat \ {0}, z \in Nat :
        a = from.member + 1 /\ z = IF to.boundary THEN to.member ELSE to.member + 1
  BY <1>0
<1>2. \A m \in 1 .. Len(f.ends) :
        /\ MemberStart(f, m) \in Nat /\ f.ends[m] \in Nat /\ MemberStart(f, m) <= f.ends[m]
        /\ f.ends[m] <= Len(f.octets)
        /\ m \in MembersOf(f, n) <=>
             Holds(f, m) /\ MemberStart(f, m) < n + 2 /\ n <= f.ends[m]
        /\ Holds(f, m) <=> f.ends[m] > MemberStart(f, m)
  BY <1>0, MembersOfIs, FileFacts DEF Holds
<1>3. \A m, k \in 1 .. Len(f.ends) :
        m < k => f.ends[m] <= MemberStart(f, k)
  <2> SUFFICES ASSUME NEW m \in 1 .. Len(f.ends), NEW k \in 1 .. Len(f.ends), m < k
               PROVE  f.ends[m] <= MemberStart(f, k)
    OBVIOUS
  <2>1. m + 1 \in 1 .. Len(f.ends) + 1 /\ k \in 1 .. Len(f.ends) + 1 /\ m + 1 <= k
    BY <1>0
  <2>2. QED
    BY <2>1, MemberFacts
<1>4. InMember(f, a, n) /\ a \in 1 .. Len(f.ends) /\ from.held = HeldUpTo(f, a - 1)
  <2>1. InMember(f, from.member + 1, n) /\ from.held = HeldUpTo(f, from.member)
    BY DEF StartExact
  <2>2. a - 1 = from.member
    BY <1>0, <1>1
  <2>3. QED
    BY <2>1, <2>2, <1>0, <1>1 DEF InMember
<1>5. MemberStart(f, a) < n /\ n <= f.ends[a]
  BY <1>4 DEF InMember
<1>6. MembersOf(f, n) \subseteq 1 .. Len(f.ends)
  BY <1>0 DEF MembersOf
<1>7. a \in MembersOf(f, n)
  BY <1>0, <1>2, <1>4, <1>5
<1>8. /\ a <= z /\ z <= Len(f.ends)
      /\ \A m \in MembersOf(f, n) : m <= z
      /\ \A m \in 1 .. Len(f.ends) : m <= z /\ Holds(f, m) => MemberStart(f, m) < n + 2
      /\ to.held + (IF to.boundary THEN 0 ELSE 1) = HeldUpTo(f, z)
  <2>1. to.held = HeldUpTo(f, to.member)
    BY DEF PositionExact
  <2>2. CASE n + 2 < Len(f.octets)
    <3>1. PICK c \in 1 .. Len(f.ends) : c = to.member + 1
      <4>1. InMember(f, to.member + 1, n + 2 + 1)
        BY <2>2 DEF PositionExact
      <4>2. QED
        BY <4>1, <1>0 DEF InMember
    <3>2. /\ MemberStart(f, c) < n + 2 + 1 /\ n + 2 + 1 <= f.ends[c]
          /\ to.boundary <=> MemberStart(f, c) = n + 2
      BY <3>1, <2>2 DEF PositionExact, InMember
    <3>3. a <= c
      <4>1. c < a => f.ends[c] <= MemberStart(f, a)
        BY <1>3, <1>4
      <4>2. f.ends[c] \in Nat /\ MemberStart(f, a) \in Nat
        BY <1>2, <1>4
      <4>3. QED
        BY <3>2, <4>1, <4>2, <1>0, <1>4, <1>5
    <3>4. CASE to.boundary
      <4>1. MemberStart(f, c) = n + 2 /\ z = c - 1
        BY <3>1, <3>2, <3>4, <1>1
      <4>2. a # c
        BY <4>1, <1>0, <1>5
      <4>3. \A m \in MembersOf(f, n) : m < c
        <5>1. ASSUME NEW m \in MembersOf(f, n), m > c PROVE FALSE
          <6>1. m \in 1 .. Len(f.ends) /\ MemberStart(f, m) < n + 2
            BY <1>2, <1>6
          <6>2. f.ends[c] <= MemberStart(f, m)
            BY <6>1, <5>1, <1>3
          <6>3. QED
            BY <6>1, <6>2, <3>2, <1>0, <1>2
        <5>2. c \notin MembersOf(f, n)
          BY <4>1, <1>0, <1>2
        <5>3. QED
          BY <5>1, <5>2, <1>6
      <4>4. \A m \in 1 .. Len(f.ends) : m < c /\ Holds(f, m) => MemberStart(f, m) < n + 2
        <5>1. ASSUME NEW m \in 1 .. Len(f.ends), m < c, Holds(f, m) PROVE MemberStart(f, m) < n + 2
          <6>1. f.ends[m] <= MemberStart(f, c)
            BY <5>1, <1>3
          <6>2. QED
            BY <6>1, <5>1, <4>1, <1>0, <1>2
        <5>2. QED
          BY <5>1
      <4>5. to.held + (IF to.boundary THEN 0 ELSE 1) = HeldUpTo(f, z)
        BY <3>4, <2>1, <1>0, <1>1
      <4>6. \A m \in MembersOf(f, n) : m <= z
        BY <4>1, <4>3, <1>6
      <4>7. a <= z /\ z <= Len(f.ends)
        BY <4>1, <4>2, <3>3, <1>0
      <4>8. \A m \in 1 .. Len(f.ends) : m <= z /\ Holds(f, m) => MemberStart(f, m) < n + 2
        BY <4>1, <4>4
      <4>9. QED
        BY <4>5, <4>6, <4>7, <4>8
    <3>5. CASE ~to.boundary
      <4>1. MemberStart(f, c) < n + 2 /\ z = c
        BY <3>1, <3>2, <3>5, <1>0, <1>1, <1>2
      <4>2. \A m \in MembersOf(f, n) : m <= c
        <5>1. ASSUME NEW m \in MembersOf(f, n), m > c PROVE FALSE
          <6>1. m \in 1 .. Len(f.ends) /\ MemberStart(f, m) < n + 2
            BY <1>2, <1>6
          <6>2. f.ends[c] <= MemberStart(f, m)
            BY <6>1, <5>1, <1>3
          <6>3. QED
            BY <6>1, <6>2, <3>2, <1>0, <1>2
        <5>2. QED
          BY <5>1, <1>6
      <4>3. \A m \in 1 .. Len(f.ends) : m <= c /\ Holds(f, m) => MemberStart(f, m) < n + 2
        <5>1. ASSUME NEW m \in 1 .. Len(f.ends), m < c PROVE MemberStart(f, m) < n + 2
          <6>1. f.ends[m] <= MemberStart(f, c)
            BY <5>1, <1>3
          <6>2. QED
            BY <6>1, <4>1, <1>0, <1>2
        <5>2. QED
          BY <5>1, <4>1
      <4>4. Holds(f, c)
        BY <4>1, <3>2, <1>0, <1>2
      <4>5. HeldUpTo(f, c) = HeldUpTo(f, c - 1) + 1
        <5>1. c \in Nat \ {0} /\ c \in Nat /\ c <= c + 1
          OBVIOUS
        <5>2. HeldUpTo(f, c) = HeldUpTo(f, c - 1) + Cardinality({k \in c .. c : Holds(f, k)})
          BY <5>1, HeldSum
        <5>3. {k \in c .. c : Holds(f, k)} = {c}
          BY <4>4
        <5>4. Cardinality({c}) = 1
          BY FS_Singleton
        <5>5. QED
          BY <5>2, <5>3, <5>4
      <4>6. to.held + (IF to.boundary THEN 0 ELSE 1) = HeldUpTo(f, z)
        <5>1. to.held = HeldUpTo(f, c - 1)
          <6>1. c - 1 = to.member
            BY <3>1, <1>0
          <6>2. QED
            BY <6>1, <2>1
        <5>2. QED
          BY <5>1, <4>1, <4>5, <3>5, <1>0
      <4>7. QED
        BY <4>1, <4>2, <4>3, <4>6, <3>3, <1>0
    <3>6. QED
      BY <3>4, <3>5
  <2>3. CASE n + 2 = Len(f.octets)
    <3>1. to.member = LastEnded(f) /\ to.boundary /\ z = LastEnded(f)
      BY <2>3, <1>0, <1>1 DEF PositionExact
    <3>2. f.broken => Len(f.ends) \notin MembersOf(f, n)
      BY DEF EndsBroken
    <3>3. \A m \in MembersOf(f, n) : m <= z
      BY <3>1, <3>2, <1>0, <1>6 DEF LastEnded
    <3>4. z <= Len(f.ends)
      BY <3>1, <1>0 DEF LastEnded
    <3>5. \A m \in 1 .. Len(f.ends) : m <= z /\ Holds(f, m) => MemberStart(f, m) < n + 2
      BY <2>3, <1>0, <1>2
    <3>6. to.held + (IF to.boundary THEN 0 ELSE 1) = HeldUpTo(f, z)
      BY <3>1, <2>1, <1>0
    <3>7. QED
      BY <3>3, <3>4, <3>5, <3>6, <1>7
  <2>4. QED
    BY <2>2, <2>3, <1>0
<1>9. MembersOf(f, n) = {k \in a .. z : Holds(f, k)}
  <2>1. ASSUME NEW m \in MembersOf(f, n) PROVE m \in a .. z /\ Holds(f, m)
    <3>1. m \in 1 .. Len(f.ends) /\ m <= z /\ Holds(f, m) /\ n <= f.ends[m]
      BY <1>2, <1>6, <1>8
    <3>2. ~(m < a)
      <4>1. m < a => f.ends[m] <= MemberStart(f, a)
        BY <3>1, <1>3, <1>4
      <4>2. f.ends[m] \in Nat /\ MemberStart(f, a) \in Nat
        BY <3>1, <1>2, <1>4
      <4>3. QED
        BY <3>1, <4>1, <4>2, <1>0, <1>5
    <3>3. QED
      BY <3>1, <3>2
  <2>2. ASSUME NEW m \in a .. z, Holds(f, m) PROVE m \in MembersOf(f, n)
    <3>1. m \in 1 .. Len(f.ends) /\ m <= z
      BY <1>0, <1>8
    <3>2. n <= f.ends[m]
      <4>1. CASE m = a
        BY <4>1, <1>5
      <4>2. CASE m # a
        <5>1. f.ends[a] <= MemberStart(f, m)
          BY <4>2, <3>1, <1>3, <1>4
        <5>2. /\ f.ends[m] \in Nat /\ MemberStart(f, m) \in Nat
              /\ MemberStart(f, m) <= f.ends[m]
          BY <3>1, <1>2
        <5>3. f.ends[a] \in Nat
          BY <1>2, <1>4
        <5>4. n <= MemberStart(f, m)
          BY <5>1, <5>2, <5>3, <1>0, <1>5
        <5>5. QED
          BY <5>2, <5>4, <1>0
      <4>3. QED
        BY <4>1, <4>2
    <3>3. QED
      BY <3>1, <3>2, <2>2, <1>2, <1>8
  <2>3. QED
    BY <2>1, <2>2
<1>10. /\ HeldUpTo(f, z) = HeldUpTo(f, a - 1) + Cardinality({k \in a .. z : Holds(f, k)})
       /\ Cardinality({k \in a .. z : Holds(f, k)}) \in Nat
  <2>1. a <= z + 1
    BY <1>8
  <2>2. QED
    BY <2>1, HeldSum
<1>11. PICK extra \in Nat : extra = IF to.boundary THEN 0 ELSE 1
  OBVIOUS
<1>12. Between(from, to).members = to.held - from.held + extra
  BY <1>11 DEF Between
<1>13. PICK before \in Nat, within \in Nat :
          before = HeldUpTo(f, a - 1) /\ within = Cardinality(MembersOf(f, n))
  <2>1. Cardinality(MembersOf(f, n)) \in Nat
    BY <1>9, <1>10
  <2>2. HeldUpTo(f, a - 1) \in Nat
    BY <1>0, <1>4
  <2>3. QED
    BY <2>1, <2>2
<1>14. from.held = before
  BY <1>4, <1>13
<1>15. to.held + extra = HeldUpTo(f, z)
  BY <1>8, <1>11
<1>16. HeldUpTo(f, z) = before + within
  BY <1>9, <1>10, <1>13
<1>17. PICK last \in Nat : last = to.held
  BY <1>0
<1>18. last - before + extra = within
  <2>1. last + extra = before + within
    BY <1>15, <1>16, <1>17
  <2>2. QED
    BY <2>1
<1>19. Between(from, to).members = last - before + extra
  BY <1>12, <1>14, <1>17
<1>20. QED
  BY <1>13, <1>18, <1>19

\* The placement of a record that was just read.
LEMMA PlacedFirst ==
  ASSUME NEW f, Readable(f), f.gzip, NEW n \in Records(f), NEW from \in Positions,
         NEW to \in Positions, StartExact(f, n, from), PositionExact(f, n + 2, to)
  PROVE  IsPlaced(f, n, Between(from, to), n + 1)
<1> DEFINE place == Between(from, to)
<1>0. /\ n \in Nat /\ n + 2 <= Len(f.octets) /\ from.member \in Nat /\ to.member \in Nat
      /\ to.boundary \in BOOLEAN /\ None \notin Int
      /\ Boundary(f, n + 2) /\ OnlyBlank(f, n + 2, n + 2) /\ Len(f.octets) \in Nat
  BY RecordIs, NoneAssumption DEF Positions
<1>1. /\ place.offset = from.member /\ place.begins = from.boundary
      /\ place.length = IF to.boundary THEN to.member - from.member ELSE None
  BY DEF Between
<1>2. /\ InMember(f, place.offset + 1, n)
      /\ place.begins <=> BeginsBlank(f, place.offset + 1, n - 1)
  BY <1>1 DEF StartExact
<1>3. ~EndsBroken(f, n) => place.members = Cardinality(MembersOf(f, n))
  BY MembersCounted
<1>4. CASE to.boundary
  <2>1. place.length = to.member - from.member
    BY <1>1, <1>4
  <2>2. place.length # None /\ place.offset + place.length = to.member
    BY <2>1, <1>0, <1>1
  <2>3. PICK pos \in Nat : pos = n + 2
    BY <1>0
  <2>4. \/ EndsBroken(f, n)
        \/ to.member \in 0 .. LastEnded(f) /\ MemberStart(f, to.member + 1) = pos
    BY <2>3, <1>0, <1>4, EndIs
  <2> HIDE DEF place
  <2>5. IsPlaced(f, n, place, n + 1)
    BY <2>2, <2>3, <2>4, <1>0, <1>2, <1>3 DEF IsPlaced
  <2>6. QED
    BY <2>5 DEF place
<1>5. CASE ~to.boundary
  <2>1. place.length = None
    BY <1>1, <1>5
  <2>2. \A m \in DOMAIN f.ends : f.ends[m] \in Nat
    BY FileFacts, MemberFacts
  <2>3. \A m \in DOMAIN f.ends : ~(n + 2 <= f.ends[m] /\ f.ends[m] <= n + 1)
    BY <2>2, <1>0
  <2> HIDE DEF place
  <2>4. IsPlaced(f, n, place, n + 1)
    BY <2>1, <2>3, <1>2, <1>3 DEF IsPlaced
  <2>5. QED
    BY <2>4 DEF place
<1>6. QED
  BY <1>0, <1>4, <1>5

\* Octets that hold one record and whole blank lines around it are read as it.
LEMMA RecordAtIs ==
  ASSUME NEW f, Readable(f), NEW n \in Records(f), NEW frame, NEW lo \in Nat, NEW hi \in Nat,
         CoveredOctets(f, frame) = lo + 1 .. hi, lo < n, n + 2 <= hi, hi <= Len(f.octets),
         OnlyBlank(f, lo, n - 1), OnlyBlank(f, n + 2, hi), Boundary(f, hi),
         ~(f.broken /\ f.gzip /\ frame.offset + frame.length >= Len(f.ends))
  PROVE  RecordAt(f, frame) = n
<1> DEFINE window == CoveredOctets(f, frame)
           rest == {i \in window : \E k \in window : k <= i /\ f.octets[k] \notin {"cr", "lf"}}
<1>0. /\ n \in Nat /\ n >= 1 /\ f.octets[n] = "line" /\ f.octets[n + 2] = "body"
  BY RecordIs
<1>1. window = lo + 1 .. hi
  OBVIOUS
<1>2. /\ n \in window /\ n + 1 \in window /\ n + 2 \in window
  BY <1>0, <1>1
<1>3. n \in rest
  BY <1>0, <1>2
<1>4. \A i \in rest : n <= i
  <2> SUFFICES ASSUME NEW i \in rest PROVE n <= i
    OBVIOUS
  <2>1. PICK k \in window : k <= i /\ f.octets[k] \notin {"cr", "lf"}
    OBVIOUS
  <2>2. k \notin lo + 1 .. n - 1
    BY <2>1 DEF OnlyBlank
  <2>3. k \in lo + 1 .. hi /\ i \in lo + 1 .. hi
    BY <1>1
  <2>4. QED
    BY <2>1, <2>2, <2>3, <1>0
<1>5. Least(rest) = n
  <2>1. rest \subseteq Nat
    BY <1>1
  <2> HIDE DEF rest
  <2>2. Least(rest) \in rest /\ Least(rest) <= n
    BY <2>1, <1>3, LeastIs
  <2>3. PICK l \in Nat : l = Least(rest)
    BY <2>1, <2>2
  <2>4. n <= l /\ l <= n
    BY <2>2, <2>3, <1>4
  <2>5. QED
    BY <2>3, <2>4, <1>0
<1>6. ASSUME NEW k \in window, k > n + 2
      PROVE  f.octets[k] \in {"cr", "lf"} /\ (f.octets[k] = "cr" => k + 1 \in window)
  <2>1. k \in lo + 1 .. hi /\ k \in n + 2 + 1 .. hi
    BY <1>0, <1>1, <1>6
  <2>2. f.octets[k] \in {"cr", "lf"}
    BY <2>1 DEF OnlyBlank
  <2>3. f.octets[k] = "cr" => k # hi
    <3>1. hi # 0
      BY <1>0
    <3>2. QED
      BY <3>1 DEF Boundary, LastOctet
  <2>4. QED
    BY <2>1, <2>2, <2>3, <1>1
<1>7. rest # {}
  BY <1>3
<1> HIDE DEF window, rest
<1>8. RecordAt(f, frame) =
        LET i == Least(rest)
        IN  IF /\ rest # {}
               /\ f.octets[i] = "line"
               /\ {i, i + 1, i + 2} \subseteq window
               /\ f.octets[i + 2] = "body"
               /\ \A k \in window : k > i + 2 =>
                     f.octets[k] \in {"cr", "lf"} /\ (f.octets[k] = "cr" => k + 1 \in window)
               /\ ~(f.broken /\ f.gzip /\ frame.offset + frame.length >= Len(f.ends))
            THEN i ELSE 0
  BY DEF RecordAt, window, rest
<1>9. /\ f.octets[n] = "line" /\ {n, n + 1, n + 2} \subseteq window /\ f.octets[n + 2] = "body"
      /\ \A k \in window : k > n + 2 =>
            f.octets[k] \in {"cr", "lf"} /\ (f.octets[k] = "cr" => k + 1 \in window)
  BY <1>0, <1>2, <1>6
<1>10. QED
  BY <1>5, <1>7, <1>8, <1>9

\* In a plain stream the frame of a record is its octets.
LEMMA ItemPlain ==
  ASSUME NEW f, Readable(f), ~f.gzip, NEW n \in Records(f), NEW item, item.record = n,
         item.frame = [offset |-> n - 1, length |-> 3]
  PROVE  ItemPlaced(f, item)
<1>0. n \in Nat /\ n >= 1 /\ n + 2 <= Len(f.octets) /\ Len(f.octets) \in Nat /\ None \notin Int
      /\ Boundary(f, n + 2) /\ OnlyBlank(f, n + 2, n + 2)
  BY RecordIs, NoneAssumption
<1>1. PICK lo \in Nat, hi \in Nat : lo = n - 1 /\ hi = n + 2
  BY <1>0
<1>2. CoveredOctets(f, item.frame) = lo + 1 .. hi
  BY <1>0, <1>1 DEF CoveredOctets
<1>3. OnlyBlank(f, lo, n - 1) /\ OnlyBlank(f, n + 2, hi) /\ Boundary(f, hi)
  BY <1>0, <1>1 DEF OnlyBlank
<1>4. RecordAt(f, item.frame) = n
  <2>1. lo < n /\ n + 2 <= hi /\ hi <= Len(f.octets)
    BY <1>0, <1>1
  <2>2. QED
    BY <2>1, <1>2, <1>3, RecordAtIs
<1>5. item.frame # None
  <2>1. item.frame \in FramesRead
    BY <1>0 DEF FramesRead
  <2>2. QED
    BY <2>1, NoneAssumption
<1>6. QED
  BY <1>4, <1>5 DEF ItemPlaced

\* A record that stands alone in its members begins them, but for blank lines.
LEMMA AloneBegins ==
  ASSUME NEW f, Readable(f), NEW n \in Records(f), Alone(f, n), NEW m, InMember(f, m, n)
  PROVE  BeginsBlank(f, m, n - 1)
<1>0. /\ n \in Nat /\ n >= 1 /\ f.octets[n] = "line" /\ n <= Len(f.octets)
      /\ Len(f.octets) \in Nat
  BY RecordIs
<1>1. /\ m \in DOMAIN f.ends /\ m \in 1 .. Len(f.ends) /\ MemberStart(f, m) < n /\ n <= f.ends[m]
  <2>1. m \in DOMAIN f.ends /\ MemberStart(f, m) < n /\ n <= f.ends[m]
    BY DEF InMember
  <2>2. DOMAIN f.ends = 1 .. Len(f.ends)
    BY MemberFacts
  <2>3. QED
    BY <2>1, <2>2
<1>2. PICK s \in Nat : s = MemberStart(f, m)
  BY <1>1, MembersOfIs, <1>0
<1>3. f.ends[m] \in Nat
  BY <1>0, <1>1, MembersOfIs
<1>4. m \in MembersOf(f, n)
  <2>1. Holds(f, m)
    BY <1>1, <1>2, <1>3, <1>0 DEF Holds
  <2>2. MemberStart(f, m) < n + 2
    BY <1>0, <1>1, <1>2
  <2>3. QED
    BY <2>1, <2>2, <1>0, <1>1, MembersOfIs
<1>5. \A k \in s + 1 .. f.ends[m] \ OctetsOf(n) :
        /\ f.octets[k] = "cr" => k < f.ends[m]
        /\ f.octets[k] = "lf" => k > s + 1 \/ k = 1 \/ f.octets[k - 1] # "cr"
        /\ f.octets[k] \in {"cr", "lf"}
  BY <1>2, <1>4 DEF Alone
<1>6. ASSUME NEW k \in s + 1 .. n - 1
      PROVE  /\ f.octets[k] \in {"cr", "lf"}
             /\ f.octets[k] = "lf" => k > s + 1 \/ k = 1 \/ f.octets[k - 1] # "cr"
  <2>1. k \in s + 1 .. f.ends[m] \ OctetsOf(n)
    BY <1>0, <1>1, <1>3 DEF OctetsOf
  <2>2. QED
    BY <2>1, <1>5
<1>7. OnlyBlank(f, s, n - 1)
  BY <1>6 DEF OnlyBlank
<1>8. Boundary(f, s)
  <2>1. CASE s = 0
    BY <2>1 DEF Boundary, LastOctet
  <2>2. CASE s # 0
    <3>1. s \in 1 .. Len(f.octets) /\ s < Len(f.octets) /\ s + 1 - 1 = s
      BY <2>2, <1>0, <1>1, <1>2
    <3>2. /\ f.octets[s] \in {"lf", "body"} => f.octets[s + 1] \in {"cr", "lf", "line"}
          /\ f.octets[s] = "cr" => f.octets[s + 1] = "lf"
          /\ f.octets[s] = "line" => f.octets[s + 1] \in {"fields", "mess"}
          /\ f.octets[s] = "fields" => f.octets[s + 1] \in {"body", "slip"}
          /\ f.octets[s] \notin {"mess", "slip"}
      BY <3>1, Grammar
    <3>3. f.octets[s] \in Octets
      BY <3>1, FileFacts
    <3>4. f.octets[s + 1] \in {"cr", "lf", "line"} /\ (f.octets[s] = "cr" => f.octets[s + 1] # "lf")
      <4>1. CASE s + 1 = n
        BY <4>1, <1>0
      <4>2. CASE s + 1 # n
        <5>1. s + 1 \in s + 1 .. n - 1
          BY <4>2, <1>0, <1>1, <1>2
        <5>2. /\ f.octets[s + 1] \in {"cr", "lf"}
              /\ f.octets[s + 1] = "lf" => s + 1 > s + 1 \/ s + 1 = 1 \/ f.octets[s + 1 - 1] # "cr"
          BY <5>1, <1>6
        <5>3. ~(s + 1 > s + 1) /\ s + 1 # 1
          BY <2>2
        <5>4. f.octets[s + 1 - 1] = f.octets[s]
          BY <3>1
        <5>5. QED
          BY <5>2, <5>3, <5>4
      <4>3. QED
        BY <4>1, <4>2
    <3>5. f.octets[s] \in {"lf", "body"}
      BY <3>2, <3>3, <3>4 DEF Octets
    <3>6. QED
      BY <3>5, <2>2 DEF Boundary, LastOctet
  <2>3. QED
    BY <2>1, <2>2
<1>9. QED
  BY <1>2, <1>7, <1>8 DEF BeginsBlank

\* The member in which such a record ends, ends with a line.
LEMMA AloneEnds ==
  ASSUME NEW f, Readable(f), NEW n \in Records(f), Alone(f, n)
  PROVE  \E m \in DOMAIN f.ends :
            /\ f.ends[m] \in Nat /\ n + 2 <= f.ends[m] /\ f.ends[m] <= Len(f.octets)
            /\ Boundary(f, f.ends[m]) /\ OnlyBlank(f, n + 2, f.ends[m])
<1>0. /\ n \in Nat /\ n >= 1 /\ n + 2 <= Len(f.octets) /\ Len(f.octets) \in Nat
      /\ n + 2 \in 1 .. Len(f.octets) /\ Boundary(f, n + 2)
  BY RecordIs
<1>1. PICK m \in DOMAIN f.ends : InMember(f, m, n + 2)
  BY <1>0, MemberOf
<1>2. /\ m \in 1 .. Len(f.ends) /\ MemberStart(f, m) < n + 2 /\ n + 2 <= f.ends[m]
  <2>1. DOMAIN f.ends = 1 .. Len(f.ends)
    BY MemberFacts
  <2>2. QED
    BY <2>1, <1>1 DEF InMember
<1>3. MemberStart(f, m) \in Nat /\ f.ends[m] \in Nat /\ f.ends[m] <= Len(f.octets)
  BY <1>0, <1>2, MembersOfIs, FileFacts
<1>4. m \in MembersOf(f, n)
  <2>1. Holds(f, m) /\ n <= f.ends[m]
    BY <1>0, <1>2, <1>3 DEF Holds
  <2>2. QED
    BY <2>1, <1>0, <1>2, MembersOfIs
<1>5. ASSUME NEW k \in n + 2 + 1 .. f.ends[m]
      PROVE  f.octets[k] \in {"cr", "lf"} /\ (f.octets[k] = "cr" => k < f.ends[m])
  <2>1. k \in MemberStart(f, m) + 1 .. f.ends[m] \ OctetsOf(n)
    BY <1>0, <1>2, <1>3 DEF OctetsOf
  <2>2. QED
    BY <2>1, <1>4 DEF Alone
<1>6. OnlyBlank(f, n + 2, f.ends[m])
  BY <1>5 DEF OnlyBlank
<1>7. Boundary(f, f.ends[m])
  <2>1. CASE f.ends[m] = n + 2
    BY <2>1, <1>0
  <2>2. CASE f.ends[m] # n + 2
    <3>1. f.ends[m] \in n + 2 + 1 .. f.ends[m] /\ ~(f.ends[m] < f.ends[m]) /\ f.ends[m] # 0
      BY <2>2, <1>0, <1>2, <1>3
    <3>2. f.octets[f.ends[m]] = "lf"
      BY <3>1, <1>5
    <3>3. QED
      BY <3>1, <3>2 DEF Boundary, LastOctet
  <2>3. QED
    BY <2>1, <2>2
<1>8. QED
  BY <1>1, <1>2, <1>3, <1>6, <1>7

\* A record is yielded as it was placed, when the padding after it was read up to
\* another record or to the end.
LEMMA ItemPlacedIs ==
  ASSUME NEW f, Readable(f), f.gzip, NEW n \in Records(f), NEW pos \in Nat, n + 2 <= pos,
         pos <= Len(f.octets),
         \/ pos = Len(f.octets)
         \/ pos + 1 = Len(f.octets) /\ f.octets[pos + 1] = "cr"
         \/ pos + 1 <= Len(f.octets) /\ f.octets[pos + 1] = "line",
         NEW place \in Placements, IsPlaced(f, n, place, pos),
         NEW item, item.record = n, item.placement = place,
         item.frame = IF place.length # None /\ place.begins
                      THEN [offset |-> place.offset, length |-> place.length] ELSE None
  PROVE  ItemPlaced(f, item)
<1>0. /\ n \in Nat /\ n >= 1 /\ n + 2 <= Len(f.octets) /\ Len(f.octets) \in Nat
      /\ Len(f.ends) \in Nat /\ f.broken \in BOOLEAN /\ DOMAIN f.ends = 1 .. Len(f.ends)
      /\ f.broken => Len(f.ends) > 0
      /\ place.offset \in Nat /\ place.length \in Int \cup {None} /\ place.begins \in BOOLEAN
  BY FileFacts, MemberFacts, RecordIs DEF Placements
<1>1. PICK a \in 1 .. Len(f.ends) : a = place.offset + 1 /\ InMember(f, a, n)
  BY <1>0 DEF IsPlaced, InMember
<1>2. /\ MemberStart(f, a) < n /\ n <= f.ends[a] /\ MemberStart(f, a) \in Nat /\ f.ends[a] \in Nat
  BY <1>0, <1>1, MembersOfIs DEF InMember
<1>3. place.begins <=> BeginsBlank(f, a, n - 1)
  BY <1>1 DEF IsPlaced
<1>4. item.frame # None /\ ~EndsBroken(f, n) => RecordAt(f, item.frame) = n
  <2> SUFFICES ASSUME item.frame # None, ~EndsBroken(f, n) PROVE RecordAt(f, item.frame) = n
    OBVIOUS
  <2>1. /\ place.length # None /\ place.begins /\ place.length \in Int
        /\ item.frame = [offset |-> place.offset, length |-> place.length]
    BY <1>0
  <2>2. PICK upto \in Int : upto = place.offset + place.length
    BY <2>1, <1>0
  <2>3. PICK hi : hi = MemberStart(f, upto + 1)
    OBVIOUS
  <2>4. /\ upto \in 0 .. LastEnded(f) /\ n + 2 <= hi /\ Boundary(f, hi) /\ OnlyBlank(f, n + 2, hi)
    BY <2>1, <2>2, <2>3 DEF IsPlaced
  <2>5. upto + 1 \in 1 .. Len(f.ends) + 1 /\ ~(f.broken /\ upto >= Len(f.ends))
    <3>1. Len(f.ends) \in Nat
      BY <1>0
    <3>2. CASE f.broken
      <4>1. upto \in 0 .. Len(f.ends) - 1
        BY <2>4, <3>2 DEF LastEnded
      <4>2. QED
        BY <4>1, <3>1
    <3>3. CASE ~f.broken
      <4>1. upto \in 0 .. Len(f.ends)
        BY <2>4, <3>3 DEF LastEnded
      <4>2. QED
        BY <4>1, <3>1, <3>3
    <3>4. QED
      BY <3>2, <3>3
  <2>6. hi \in Nat /\ hi <= Len(f.octets)
    <3>1. \A m \in 1 .. Len(f.ends) + 1 :
             MemberStart(f, m) \in Nat /\ MemberStart(f, m) <= Len(f.octets)
      BY MemberFacts
    <3>2. QED
      BY <3>1, <2>3, <2>5
  <2>7. PICK lo \in Nat : lo = MemberStart(f, a)
    BY <1>2
  <2>8. item.frame.offset = place.offset /\ item.frame.length = place.length
    BY <2>1
  <2>9. CoveredOctets(f, item.frame) = lo + 1 .. hi
    BY <2>2, <2>3, <2>7, <2>8, <1>1 DEF CoveredOctets
  <2>10. OnlyBlank(f, lo, n - 1)
    BY <2>1, <2>7, <1>3 DEF BeginsBlank
  <2>11. ~(f.broken /\ f.gzip /\ item.frame.offset + item.frame.length >= Len(f.ends))
    BY <2>2, <2>5, <2>8
  <2>12. lo < n
    BY <2>7, <1>2
  <2>13. QED
    BY <2>4, <2>6, <2>9, <2>10, <2>11, <2>12, RecordAtIs
<1>5. Alone(f, n) => item.frame # None
  <2> SUFFICES ASSUME Alone(f, n) PROVE item.frame # None
    OBVIOUS
  <2>1. place.begins
    BY <1>1, <1>3, AloneBegins
  <2>2. place.length # None
    <3>1. PICK m \in DOMAIN f.ends :
            /\ f.ends[m] \in Nat /\ n + 2 <= f.ends[m] /\ f.ends[m] <= Len(f.octets)
            /\ Boundary(f, f.ends[m]) /\ OnlyBlank(f, n + 2, f.ends[m])
      BY AloneEnds
    <3>2. ~(f.ends[m] <= pos) => FALSE
      <4> SUFFICES ASSUME ~(f.ends[m] <= pos) PROVE FALSE
        OBVIOUS
      <4>1. pos + 1 \in n + 2 + 1 .. f.ends[m]
        BY <3>1, <1>0
      <4>2. f.octets[pos + 1] \in {"cr", "lf"}
        BY <4>1, <3>1 DEF OnlyBlank
      <4>3. pos + 1 = Len(f.octets) /\ f.octets[pos + 1] = "cr"
        BY <4>2, <3>1, <1>0
      <4>4. f.ends[m] = pos + 1 /\ f.ends[m] # 0
        BY <4>1, <4>3, <3>1
      <4>5. QED
        BY <4>3, <4>4, <3>1 DEF Boundary, LastOctet
    <3>3. QED
      BY <3>1, <3>2 DEF IsPlaced
  <2>3. item.frame = [offset |-> place.offset, length |-> place.length]
    BY <2>1, <2>2
  <2>4. item.frame \in FramesRead
    BY <2>2, <2>3, <1>0 DEF FramesRead
  <2>5. QED
    BY <2>4, NoneAssumption
<1>6. ~EndsBroken(f, n) =>
         /\ item.placement.offset + 1 = Least(MembersOf(f, n))
         /\ item.placement.members = Cardinality(MembersOf(f, n))
  <2>1. MembersOf(f, n) \subseteq 1 .. Len(f.ends)
    BY <1>0 DEF MembersOf
  <2>2. a \in MembersOf(f, n)
    <3>1. Holds(f, a) /\ MemberStart(f, a) < n + 2
      BY <1>0, <1>2 DEF Holds
    <3>2. QED
      BY <3>1, <1>0, <1>1, <1>2, MembersOfIs
  <2>3. \A m \in MembersOf(f, n) : a <= m
    <3> SUFFICES ASSUME NEW m \in MembersOf(f, n) PROVE a <= m
      OBVIOUS
    <3>1. m \in 1 .. Len(f.ends) /\ n <= f.ends[m]
      <4>1. m \in 1 .. Len(f.ends)
        BY <2>1
      <4>2. QED
        BY <4>1, <1>0, MembersOfIs
    <3>2. m < a => f.ends[m] <= MemberStart(f, a)
      BY <3>1, <1>0, <1>1, OtherMembers
    <3>3. f.ends[m] \in Nat
      BY <3>1, <1>0, MembersOfIs
    <3>4. QED
      BY <3>1, <3>2, <3>3, <1>0, <1>2
  <2>4. Least(MembersOf(f, n)) \in MembersOf(f, n) /\ Least(MembersOf(f, n)) <= a
    <3>1. MembersOf(f, n) \subseteq Nat
      BY <2>1, <1>0
    <3>2. QED
      BY <3>1, <2>2, LeastIs
  <2>5. Least(MembersOf(f, n)) = a
    <3>1. PICK l \in 1 .. Len(f.ends) : l = Least(MembersOf(f, n)) /\ l \in MembersOf(f, n)
      BY <2>1, <2>4
    <3>2. a <= l /\ l <= a
      BY <3>1, <2>3, <2>4
    <3>3. QED
      BY <3>1, <3>2, <1>0
  <2>6. QED
    BY <2>5, <1>1 DEF IsPlaced
<1>7. QED
  BY <1>4, <1>5, <1>6 DEF ItemPlaced

\* Half a blank line ends no member that a frame could end with.
LEMMA PlacedFurther ==
  ASSUME NEW f, Readable(f), NEW n \in Records(f), NEW pos \in Nat, NEW place,
         IsPlaced(f, n, place, pos), f.octets[pos + 1] = "cr"
  PROVE  IsPlaced(f, n, place, pos + 1)
<1>1. ASSUME place.length = None, NEW m \in DOMAIN f.ends, n + 2 <= f.ends[m], f.ends[m] <= pos + 1
      PROVE  ~Boundary(f, f.ends[m])
  <2>1. f.ends[m] \in Nat
    BY FileFacts, MemberFacts
  <2>2. CASE f.ends[m] = pos + 1
    <3>1. f.ends[m] # 0
      BY <2>2
    <3>2. QED
      BY <3>1, <2>2 DEF Boundary, LastOctet
  <2>3. CASE f.ends[m] # pos + 1
    <3>1. f.ends[m] <= pos
      BY <2>1, <2>3, <1>1
    <3>2. QED
      BY <3>1, <1>1 DEF IsPlaced
  <2>4. QED
    BY <2>2, <2>3
<1>2. QED
  BY <1>1 DEF IsPlaced

\* MemberReader after the octet that was filled is consumed.
LEMMA FilledConsumed ==
  ASSUME NEW f, Readable(f), NEW s, SourceOK(f, s), SourceExact(f, s), s.pos < Len(f.octets)
  PROVE  /\ SourceOK(f, Consumed(Filled(f, s).to)) /\ SourceExact(f, Consumed(Filled(f, s).to))
         /\ Consumed(Filled(f, s).to).pos = s.pos + 1
<1>1. PICK to : to = Filled(f, s).to
  OBVIOUS
<1>2. /\ SourceOK(f, to) /\ to.pos = s.pos /\ to.mode = "reading"
      /\ SourceExact(f, to) /\ InMember(f, to.mem, s.pos + 1)
  BY <1>1, FilledIs, FilledExact
<1>3. QED
  BY <1>1, <1>2, ConsumedIs, ConsumedExact

LEMMA RecordEndsExact ==
  ASSUME ReaderInv, NEW s, SourceOK(file, s), SourceExact(file, s), NEW from, RecordEnds(s, from)
  PROVE  SourceExact(file, source')
<1>1. Readable(file)
  BY StateFacts
<1>2. source' = IF file.gzip THEN Positioned(file, s).to ELSE s
  BY DEF RecordEnds
<1>3. QED
  BY <1>1, <1>2, PositionedExact

LEMMA ItemsAppended ==
  ASSUME ReaderInv, ItemsPlaced, file' = file, NEW x, items' = Append(items, x),
         x.record = 0 \/ ItemPlaced(file, x)
  PROVE  ItemsPlaced'
<1>1. items \in Seq(Yields)
  BY DEF ReaderInv, ReaderTypeOK
<1>2. Len(items) \in Nat /\ DOMAIN items = 1 .. Len(items)
  BY <1>1
<1>3. /\ items' \in Seq(Yields \cup {x}) /\ Len(items') = Len(items) + 1
      /\ items'[Len(items) + 1] = x
      /\ \A i \in 1 .. Len(items) : items'[i] = items[i]
  BY <1>1
<1>4. DOMAIN items' = 1 .. Len(items) + 1
  BY <1>2, <1>3
<1>5. ASSUME NEW i \in DOMAIN items', items'[i].record # 0
      PROVE  ItemPlaced(file, items'[i])
  <2>1. CASE i = Len(items) + 1
    BY <2>1, <1>3, <1>5
  <2>2. CASE i # Len(items) + 1
    <3>1. i \in 1 .. Len(items)
      BY <2>2, <1>2, <1>4
    <3>2. i \in Yielded
      BY <3>1, <1>2, <1>3, <1>5 DEF Yielded
    <3>3. QED
      BY <3>1, <3>2, <1>3 DEF ItemsPlaced
  <2>3. QED
    BY <2>1, <2>2
<1>6. QED
  BY <1>5 DEF ItemsPlaced, Yielded

LEMMA ItemsUnchanged ==
  ASSUME ItemsPlaced, file' = file, items' = items
  PROVE  ItemsPlaced'
BY DEF ItemsPlaced, Yielded

\* Between two calls, or past the end, no record is being placed.
LEMMA NothingPlaced ==
  ASSUME PlacedInv, file' = file, SourceExact(file, source'), ItemsPlaced',
         phase' \in {"end", "done"} \/ (phase' = "next" /\ (finished' \/ pendingError'))
  PROVE  PlacedInv'
BY DEF PlacedInv

LEMMA FailurePlaced ==
  ASSUME ReaderInv, ReaderInv', PlacedInv, file' = file, NEW s, SourceOK(file, s),
         SourceExact(file, s), Fuse(s)
  PROVE  PlacedInv'
<1>1. /\ ReaderTypeOK /\ start' \in Positions /\ offset' \in Nat /\ blankLines' \in Nat
  BY DEF ReaderInv, ReaderTypeOK
<1>2. /\ finished' = TRUE /\ phase' = "next"
      /\ \E x \in Yields : x.record = 0 /\ items' = Append(items, x)
  BY <1>1, FuseIs
<1>3. ItemsPlaced'
  BY <1>2, ItemsAppended DEF PlacedInv
<1>4. SourceExact(file, source')
  <2>1. RecordEnds(s, start')
    BY DEF Fuse
  <2>2. QED
    BY <2>1, RecordEndsExact
<1>5. QED
  BY <1>2, <1>3, <1>4, NothingPlaced

\* What is read of the padding says where the line after it lies.
LEMMA PaddingReadExact ==
  ASSUME ReaderInv, PlacedInv, phase \in {"padding", "ahead"}
  PROVE  /\ SourceExact(file, PaddingRead.to)
         /\ file.gzip =>
              \E at \in Positions :
                 /\ PositionExact(file, source.pos, at)
                 /\ PaddingRead.began = IF at.boundary THEN at.member ELSE began
                 /\ PaddingRead.line \in {"line", "eof"} =>
                      PaddingRead.start =
                        [at EXCEPT !.boundary =
                            BeginsMember(IF at.boundary THEN at.member ELSE began, at)]
                 /\ PaddingRead.placement = IF at.boundary /\ placement # None
                                            THEN Extended(placement, at) ELSE placement
<1> DEFINE position == IF file.gzip THEN Positioned(file, source)
                       ELSE [to |-> source, at |-> start]
           line == LineRead(file, position.to)
<1>0. /\ Readable(file) /\ SourceOK(file, source) /\ SourceExact(file, source)
  BY StateFacts DEF PlacedInv
<1>1. SourceOK(file, position.to) /\ SourceExact(file, position.to)
  <2>1. CASE file.gzip
    BY <2>1, <1>0, PositionedIs, PositionedExact
  <2>2. CASE ~file.gzip
    BY <2>2, <1>0
  <2>3. QED
    BY <2>1, <2>2
<1>2. PaddingRead = PaddingOnce(position, line)
  BY DEF PaddingRead
<1>3. SourceExact(file, line.to)
  <2> HIDE DEF position
  <2> QED
    BY <1>0, <1>1, LineReadExact
<1>4. PaddingRead.to = line.to /\ PaddingRead.line = line.line
  <2> HIDE DEF position, line
  <2> QED
    BY <1>2 DEF PaddingOnce
<1>5. ASSUME file.gzip
      PROVE  \E at \in Positions :
                 /\ PositionExact(file, source.pos, at)
                 /\ PaddingRead.began = IF at.boundary THEN at.member ELSE began
                 /\ PaddingRead.line \in {"line", "eof"} =>
                      PaddingRead.start =
                        [at EXCEPT !.boundary =
                            BeginsMember(IF at.boundary THEN at.member ELSE began, at)]
                 /\ PaddingRead.placement = IF at.boundary /\ placement # None
                                            THEN Extended(placement, at) ELSE placement
  <2>1. PICK at : at = Positioned(file, source).at
    OBVIOUS
  <2>2. at \in Positions /\ PositionExact(file, source.pos, at)
    BY <2>1, <1>0, PositionedIs, PositionedExact
  <2>3. position.at = at
    BY <2>1, <1>5
  <2> HIDE DEF position, line
  <2>4. PaddingRead.began = IF at.boundary THEN at.member ELSE began
    BY <2>3, <1>2, <1>5 DEF PaddingOnce
  <2>5. PaddingRead.placement = IF at.boundary /\ placement # None
                                THEN Extended(placement, at) ELSE placement
    BY <2>3, <1>2, <1>5 DEF PaddingOnce
  <2>6. PaddingRead.line \in {"line", "eof"} =>
          PaddingRead.start =
            [at EXCEPT !.boundary = BeginsMember(IF at.boundary THEN at.member ELSE began, at)]
    BY <2>3, <1>2, <1>4, <1>5 DEF PaddingOnce
  <2>7. QED
    BY <2>2, <2>4, <2>5, <2>6
<1>6. QED
  BY <1>3, <1>4, <1>5

\* At the beginning of the padding no member has begun within it.
LEMMA NoneBegan ==
  ASSUME NEW f, Readable(f), NEW pos \in Nat, pos <= Len(f.octets),
         LastOctet(f, pos) \in {"none", "body"}
  PROVE  BeganExact(f, None, pos)
<1>1. ASSUME NEW m \in DOMAIN f.ends, MemberStart(f, m) < pos, BeginsBlank(f, m, pos) PROVE FALSE
  <2>1. MemberStart(f, m) \in Nat
    <3>1. m \in 1 .. Len(f.ends) + 1
      BY MemberFacts
    <3>2. QED
      BY <3>1, MemberFacts
  <2>2. pos # 0 /\ pos \in MemberStart(f, m) + 1 .. pos
    BY <2>1, <1>1
  <2>3. f.octets[pos] \in {"cr", "lf"}
    BY <2>2, <1>1 DEF BeginsBlank, OnlyBlank
  <2>4. QED
    BY <2>2, <2>3 DEF LastOctet
<1>2. QED
  BY <1>1 DEF BeganExact

LEMMA InitPlaced == ReaderInit => PlacedInv
<1> SUFFICES ASSUME ReaderInit PROVE PlacedInv
  OBVIOUS
<1>1. /\ source = NewSource /\ phase = "next" /\ ahead = None /\ items = <<>>
  BY DEF ReaderInit
<1>2. SourceExact(file, source)
  BY <1>1 DEF NewSource, SourceExact
<1>3. ItemsPlaced
  BY <1>1 DEF ItemsPlaced, Yielded
<1>4. QED
  BY <1>1, <1>2, <1>3 DEF PlacedInv

LEMMA UnchangedPlaced ==
  ASSUME PlacedInv, UNCHANGED readerVars
  PROVE  PlacedInv'
<1>1. UNCHANGED <<file, source, phase, finished, ended, pendingError, ahead, padding, began, buffered,
                  blankLines, offset, verdict, start, placement, passed, items>>
  BY DEF readerVars, endVars, paddingVars, recordVars
<1>2. ItemsPlaced'
  BY <1>1, ItemsUnchanged DEF PlacedInv
<1>3. QED
  BY <1>1, <1>2 DEF PlacedInv

LEMMA FinishedPlaced ==
  ASSUME PlacedInv, Finished
  PROVE  PlacedInv'
<1>1. file' = file /\ source' = source /\ items' = items /\ phase' = "done"
  BY DEF Finished
<1>2. QED
  BY <1>1, ItemsUnchanged, NothingPlaced DEF PlacedInv

LEMMA YieldPendingPlaced ==
  ASSUME ReaderInv, ReaderInv', PlacedInv, YieldPending
  PROVE  PlacedInv'
<1>1. file' = file /\ Fuse(source)
  BY DEF YieldPending
<1>2. SourceOK(file, source) /\ SourceExact(file, source)
  BY StateFacts DEF PlacedInv
<1>3. QED
  BY <1>1, <1>2, FailurePlaced

LEMMA TakeAheadPlaced ==
  ASSUME ReaderInv, PlacedInv, TakeAhead
  PROVE  PlacedInv'
<1>1. /\ phase = "next" /\ ~finished /\ ~pendingError /\ ahead # None
      /\ offset' = source.pos - buffered
      /\ phase' = IF ahead.line = "line" THEN "header" ELSE "end"
      /\ file' = file /\ source' = source /\ start' = start /\ items' = items
  BY DEF TakeAhead
<1>2. source.pos \in Nat
  BY StateFacts
<1>3. CASE ahead.line = "line"
  <2>1. buffered = 1
    BY <1>1, <1>3 DEF ReaderInv, Standing, Found
  <2>2. offset' + 1 = source.pos
    BY <2>1, <1>1, <1>2
  <2>3. file.gzip => StartExact(file', offset' + 1, start')
    BY <2>2, <1>1, <1>3 DEF PlacedInv
  <2>4. ItemsPlaced' /\ SourceExact(file', source')
    BY <1>1, ItemsUnchanged DEF PlacedInv
  <2>5. QED
    BY <2>3, <2>4, <1>1, <1>3 DEF PlacedInv
<1>4. CASE ahead.line # "line"
  BY <1>1, <1>4, ItemsUnchanged, NothingPlaced DEF PlacedInv
<1>5. QED
  BY <1>3, <1>4

LEMMA StartPaddingPlaced ==
  ASSUME ReaderInv, PlacedInv, StartPadding
  PROVE  PlacedInv'
<1>1. /\ phase = "next" /\ ~finished /\ ~pendingError /\ ahead = None
      /\ phase' = "padding" /\ began' = None
      /\ file' = file /\ source' = source /\ items' = items
  BY DEF StartPadding
<1>2. LastOctet(file, source.pos) \in {"none", "body"}
  BY <1>1 DEF ReaderInv, Standing
<1>3. BeganExact(file, None, source.pos)
  BY <1>2, StateFacts, NoneBegan
<1>4. ItemsPlaced' /\ SourceExact(file', source') /\ BeganExact(file', began', source'.pos)
  BY <1>1, <1>3, ItemsUnchanged DEF PlacedInv
<1>5. QED
  BY <1>1, <1>4 DEF PlacedInv

\* The record held back while the stream is read ahead.
LEMMA HeldBack ==
  ASSUME ReaderInv, PlacedInv, phase = "ahead"
  PROVE  /\ file.gzip /\ offset + 1 \in Records(file)
         /\ offset + 1 \in Nat /\ offset + 1 + 2 = offset + 3 /\ offset + 3 <= source.pos
         /\ Boundary(file, source.pos)
         /\ OnlyBlank(file, offset + 3, source.pos)
         /\ placement \in Placements /\ IsPlaced(file, offset + 1, placement, source.pos - 1)
<1>1. file.gzip /\ placement # None /\ passed # <<>> /\ Boundary(file, source.pos)
      /\ passed[Len(passed)] = [record |-> offset + 1, verdict |-> verdict]
  BY DEF ReaderInv, Standing
<1>2. offset \in Nat /\ placement \in Placements \cup {None} /\ passed \in Seq(Passed)
  BY DEF ReaderInv, ReaderTypeOK
<1>3. Len(passed) \in DOMAIN passed /\ passed[Len(passed)].record = offset + 1
  BY <1>1, <1>2
<1>4. offset + 1 \in {n \in Records(file) : n + 2 <= source.pos}
  <2>1. {passed[i].record : i \in DOMAIN passed} = {n \in Records(file) : n + 2 <= source.pos}
    BY DEF ReaderInv, PassedExact, Passes
  <2>2. QED
    BY <2>1, <1>3
<1>5. offset + 1 + 2 = offset + 3 /\ offset + 3 <= source.pos /\ offset + 1 \in Nat
  BY <1>2, <1>4
<1>6. OnlyBlank(file, offset + 3, source.pos) /\ IsPlaced(file, offset + 1, placement, source.pos - 1)
  BY <1>1 DEF PlacedInv
<1>7. QED
  BY <1>1, <1>2, <1>4, <1>5, <1>6

\* Its placement is still exact once the padding was read up to another line.
LEMMA HeldBackOn ==
  ASSUME ReaderInv, PlacedInv, phase = "ahead"
  PROVE  IsPlaced(file, offset + 1, PaddingRead.placement, source.pos)
<1>1. PICK n \in Records(file), pos \in Nat : n = offset + 1 /\ pos = source.pos
  BY HeldBack, StateFacts
<1>2. /\ file.gzip /\ n + 2 <= pos /\ Boundary(file, pos) /\ OnlyBlank(file, n + 2, pos)
      /\ pos <= Len(file.octets) /\ Readable(file)
  BY <1>1, HeldBack, StateFacts
<1>3. PICK place \in Placements : place = placement /\ IsPlaced(file, n, place, pos - 1)
  BY <1>1, HeldBack
<1>4. PICK at \in Positions :
        /\ PositionExact(file, pos, at)
        /\ PaddingRead.placement = IF at.boundary /\ placement # None
                                   THEN Extended(placement, at) ELSE placement
  BY <1>1, <1>2, PaddingReadExact
<1>5. place # None
  BY NoneAssumption
<1>6. PaddingRead.placement = IF at.boundary THEN Extended(place, at) ELSE place
  BY <1>3, <1>4, <1>5
<1>7. IsPlaced(file, n, IF at.boundary THEN Extended(place, at) ELSE place, pos)
  BY <1>2, <1>3, <1>4, PlacedOn
<1>8. QED
  BY <1>1, <1>6, <1>7

LEMMA SkipBlankPlaced ==
  ASSUME ReaderInv, PlacedInv, SkipBlank
  PROVE  PlacedInv'
<1>0. /\ Readable(file) /\ source.pos \in Nat /\ Len(file.octets) \in Nat
      /\ source.pos <= Len(file.octets) /\ began \in Nat \cup {None} /\ offset \in Nat
  BY StateFacts
<1>1. PICK read \in {PaddingRead} : read.line = "blank" /\ TakeLine(read)
  BY DEF SkipBlank
<1>2. /\ phase \in {"padding", "ahead"}
      /\ file' = file /\ phase' = phase /\ offset' = offset /\ items' = items
  BY DEF SkipBlank, recordVars
<1>3. Boundary(file, source.pos) /\ Sound(file, source) /\ ReaderTypeOK
  BY <1>2 DEF ReaderInv, Standing, SourceSound
<1>4. LineFrom(file, source.pos, read)
  BY <1>3, PaddingReadIs
<1>5. source' = read.to /\ began' = read.began /\ placement' = read.placement
  BY <1>1 DEF TakeLine
<1>6. PICK to \in Nat :
        /\ to = read.to.pos /\ to <= Len(file.octets)
        /\ \/ to = source.pos + 1 /\ file.octets[source.pos + 1] = "lf"
           \/ /\ to = source.pos + 2
              /\ file.octets[source.pos + 1] = "cr" /\ file.octets[source.pos + 2] = "lf"
  BY <1>0, <1>1, <1>4 DEF LineFrom, SourceOK
<1>7. SourceExact(file', source') /\ ItemsPlaced'
  BY <1>1, <1>2, <1>5, PaddingReadExact, ItemsUnchanged DEF PlacedInv
<1>8. ASSUME file.gzip PROVE BeganExact(file', began', source'.pos)
  <2>1. PICK at \in Positions :
          /\ PositionExact(file, source.pos, at)
          /\ PaddingRead.began = IF at.boundary THEN at.member ELSE began
    BY <1>2, <1>8, PaddingReadExact
  <2>2. BeganExact(file, began, source.pos)
    BY <1>2, <1>8 DEF PlacedInv
  <2>3. PICK b \in Nat \cup {None}, pos \in Nat : b = began /\ pos = source.pos
    BY <1>0
  <2>4. BeganExact(file, IF at.boundary THEN at.member ELSE b, to)
    <3>1. /\ BeganExact(file, b, pos) /\ Boundary(file, pos) /\ PositionExact(file, pos, at)
          /\ \/ to = pos + 1 /\ file.octets[pos + 1] = "lf"
             \/ to = pos + 2 /\ file.octets[pos + 1] = "cr" /\ file.octets[pos + 2] = "lf"
      BY <2>1, <2>2, <2>3, <1>3, <1>6
    <3>2. QED
      BY <3>1, <1>0, <1>6, BeganOn
  <2>5. began' = IF at.boundary THEN at.member ELSE b
    BY <2>1, <2>3, <1>1, <1>5
  <2>6. QED
    BY <2>4, <2>5, <1>2, <1>5, <1>6
<1>9. ASSUME phase = "ahead"
      PROVE  /\ IsPlaced(file', offset' + 1, placement', source'.pos - 1)
             /\ OnlyBlank(file', offset' + 3, source'.pos)
             /\ offset' + 1 \in Records(file')
  <2>1. /\ offset + 1 \in Records(file) /\ OnlyBlank(file, offset + 3, source.pos)
        /\ IsPlaced(file, offset + 1, placement', source.pos)
    BY <1>1, <1>5, <1>9, HeldBack, HeldBackOn
  <2>2. IsPlaced(file, offset + 1, placement', to - 1)
    <3>1. CASE to = source.pos + 1
      <4>1. to - 1 = source.pos
        BY <3>1, <1>0
      <4>2. QED
        BY <4>1, <2>1
    <3>2. CASE to = source.pos + 2 /\ file.octets[source.pos + 1] = "cr"
      <4>1. to - 1 = source.pos + 1
        BY <3>2, <1>0
      <4>2. IsPlaced(file, offset + 1, placement', source.pos + 1)
        BY <2>1, <3>2, <1>0, PlacedFurther
      <4>3. QED
        BY <4>1, <4>2
    <3>3. QED
      BY <3>1, <3>2, <1>6
  <2>3. OnlyBlank(file, offset + 3, to)
    <3>1. \A k \in Nat : k > source.pos /\ k <= to => file.octets[k] \in {"cr", "lf"}
      BY <1>0, <1>6
    <3>2. ASSUME NEW k \in offset + 3 + 1 .. to PROVE file.octets[k] \in {"cr", "lf"}
      <4>1. k \in Nat /\ (k \in offset + 3 + 1 .. source.pos \/ (k > source.pos /\ k <= to))
        BY <1>0
      <4>2. QED
        BY <4>1, <3>1, <2>1 DEF OnlyBlank
    <3>3. QED
      BY <3>2 DEF OnlyBlank
  <2>4. QED
    BY <2>1, <2>2, <2>3, <1>2, <1>5, <1>6
<1>10. QED
  BY <1>2, <1>7, <1>8, <1>9 DEF PlacedInv

\* Where the line begins that was found after the padding.
LEMMA StartFound ==
  ASSUME ReaderInv, PlacedInv, phase \in {"padding", "ahead"}, file.gzip, PaddingRead.line = "line"
  PROVE  /\ PaddingRead.to.pos = source.pos + 1
         /\ StartExact(file, source.pos + 1, PaddingRead.start)
<1>0. /\ Readable(file) /\ source.pos \in Nat /\ Len(file.octets) \in Nat
      /\ source.pos <= Len(file.octets) /\ began \in Nat \cup {None}
  BY StateFacts
<1>1. Boundary(file, source.pos) /\ Sound(file, source) /\ ReaderTypeOK
  BY DEF ReaderInv, Standing, SourceSound
<1>2. LineFrom(file, source.pos, PaddingRead)
  BY <1>1, PaddingReadIs
<1>3. PaddingRead.to.pos = source.pos + 1 /\ source.pos < Len(file.octets)
  BY <1>0, <1>2 DEF LineFrom, SourceOK
<1>4. PICK at \in Positions :
        /\ PositionExact(file, source.pos, at)
        /\ PaddingRead.start =
             [at EXCEPT !.boundary = BeginsMember(IF at.boundary THEN at.member ELSE began, at)]
  BY PaddingReadExact
<1>5. BeganExact(file, began, source.pos)
  BY DEF PlacedInv
<1>6. PICK b \in Nat \cup {None}, pos \in Nat : b = began /\ pos = source.pos
  BY <1>0
<1>7. StartExact(file, pos + 1,
        [at EXCEPT !.boundary = BeginsMember(IF at.boundary THEN at.member ELSE b, at)])
  <2>1. /\ pos < Len(file.octets) /\ BeganExact(file, b, pos) /\ Boundary(file, pos)
        /\ PositionExact(file, pos, at)
    BY <1>1, <1>3, <1>4, <1>5, <1>6
  <2>2. QED
    BY <2>1, <1>0, StartIs
<1>8. QED
  BY <1>3, <1>4, <1>6, <1>7

LEMMA FindHeaderPlaced ==
  ASSUME ReaderInv, PlacedInv, FindHeader
  PROVE  PlacedInv'
<1>0. source.pos \in Nat
  BY StateFacts
<1>1. PICK read \in {PaddingRead} :
        /\ read.line \in {"line", "eof"}
        /\ TakeLine(read)
        /\ phase' = IF read.line = "line" THEN "header" ELSE "end"
  BY DEF FindHeader
<1>2. /\ phase = "padding" /\ offset' = source'.pos - buffered'
      /\ file' = file /\ items' = items
  BY DEF FindHeader
<1>3. /\ source' = read.to /\ buffered' = read.octets /\ start' = read.start
  BY <1>1 DEF TakeLine
<1>4. SourceExact(file', source') /\ ItemsPlaced'
  BY <1>1, <1>2, <1>3, PaddingReadExact, ItemsUnchanged DEF PlacedInv
<1>5. CASE read.line = "line"
  <2>1. Boundary(file, source.pos) /\ Sound(file, source) /\ ReaderTypeOK
    BY <1>2 DEF ReaderInv, Standing, SourceSound
  <2>2. read.octets = 1 /\ read.to.pos = source.pos + 1
    BY <2>1, <1>1, <1>5, PaddingReadIs DEF LineFrom
  <2>3. offset' + 1 = source.pos + 1
    BY <2>2, <1>0, <1>2, <1>3
  <2>4. file.gzip => StartExact(file', offset' + 1, start')
    BY <2>3, <1>1, <1>2, <1>3, <1>5, StartFound
  <2>5. QED
    BY <2>4, <1>1, <1>2, <1>4, <1>5 DEF PlacedInv
<1>6. CASE read.line # "line"
  BY <1>1, <1>2, <1>4, <1>6, NothingPlaced
<1>7. QED
  BY <1>5, <1>6

LEMMA PaddingFailsPlaced ==
  ASSUME ReaderInv, ReaderInv', PlacedInv, PaddingFails
  PROVE  PlacedInv'
<1>1. PICK read \in {PaddingRead} : Fuse(read.to)
  BY DEF PaddingFails
<1>2. phase = "padding" /\ file' = file
  BY DEF PaddingFails
<1>3. Boundary(file, source.pos) /\ Sound(file, source) /\ ReaderTypeOK
  BY <1>2 DEF ReaderInv, Standing, SourceSound
<1>4. SourceOK(file, read.to) /\ SourceExact(file, read.to)
  BY <1>1, <1>2, <1>3, PaddingReadIs, PaddingReadExact DEF LineFrom
<1>5. QED
  BY <1>1, <1>2, <1>4, FailurePlaced

LEMMA ReadAheadPlaced ==
  ASSUME ReaderInv, PlacedInv, ReadAhead
  PROVE  PlacedInv'
<1>0. /\ Readable(file) /\ source.pos \in Nat /\ Len(file.octets) \in Nat
      /\ source.pos <= Len(file.octets)
  BY StateFacts
<1>1. PICK read \in {PaddingRead} :
        /\ read.line # "blank"
        /\ TakeLine(read)
        /\ IF read.line = "error"
           THEN pendingError' = TRUE /\ UNCHANGED ahead
           ELSE ahead' = [blank |-> padding, line |-> read.line] /\ UNCHANGED pendingError
  BY DEF ReadAhead
<1>2. /\ phase = "ahead" /\ YieldRecord(placement', source.pos) /\ file' = file
  BY DEF ReadAhead
<1>3. Boundary(file, source.pos) /\ Sound(file, source) /\ ReaderTypeOK
  BY <1>2 DEF ReaderInv, Standing, SourceSound
<1>4. LineFrom(file, source.pos, read) /\ read.placement \in Placements \cup {None}
      /\ read.placement # None
  BY <1>2, <1>3, PaddingReadIs DEF ReaderInv, Standing
<1>5. /\ source' = read.to /\ start' = read.start /\ placement' = read.placement
  BY <1>1 DEF TakeLine
<1>6. SourceExact(file', source')
  BY <1>1, <1>2, <1>5, PaddingReadExact
<1>7. \/ source.pos = Len(file.octets)
      \/ source.pos + 1 = Len(file.octets) /\ file.octets[source.pos + 1] = "cr"
      \/ source.pos + 1 <= Len(file.octets) /\ file.octets[source.pos + 1] = "line"
  <2>1. CASE read.line = "line"
    BY <2>1, <1>1, <1>4 DEF LineFrom, SourceOK
  <2>2. CASE read.line # "line"
    <3>1. /\ read.octets \in {0, 1} /\ Len(file.octets) = source.pos + read.octets
          /\ read.octets = 1 => file.octets[source.pos + 1] = "cr"
      BY <2>2, <1>1, <1>4 DEF LineFrom
    <3>2. QED
      BY <3>1, <1>0
  <2>3. QED
    BY <2>1, <2>2
<1>8. /\ phase' = "next"
      /\ \/ items' = items
         \/ items' = Append(items, Item(offset + 1, placement', offset, source.pos, blankLines))
  BY <1>2 DEF YieldRecord
<1>9. ItemPlaced(file, Item(offset + 1, placement', offset, source.pos, blankLines))
  <2>1. PICK n \in Records(file), pos \in Nat, place \in Placements :
          n = offset + 1 /\ pos = source.pos /\ place = placement'
    BY <1>2, <1>4, <1>5, HeldBack, StateFacts
  <2>2. PICK item : item = Item(offset + 1, placement', offset, source.pos, blankLines)
    OBVIOUS
  <2>3. file.gzip
    BY <1>2, HeldBack
  <2>4. /\ item.record = n /\ item.placement = place
        /\ item.frame = IF place.length # None /\ place.begins
                        THEN [offset |-> place.offset, length |-> place.length] ELSE None
    BY <2>1, <2>2, <2>3 DEF Item, Frame
  <2>5. IsPlaced(file, n, place, pos)
    BY <2>1, <1>1, <1>2, <1>5, HeldBackOn
  <2>6. n + 2 <= pos /\ pos <= Len(file.octets)
    BY <2>1, <1>0, <1>2, HeldBack
  <2>7. \/ pos = Len(file.octets)
        \/ pos + 1 = Len(file.octets) /\ file.octets[pos + 1] = "cr"
        \/ pos + 1 <= Len(file.octets) /\ file.octets[pos + 1] = "line"
    BY <2>1, <1>7
  <2>8. ItemPlaced(file, item)
    BY <2>3, <2>4, <2>5, <2>6, <2>7, <1>0, ItemPlacedIs
  <2>9. QED
    BY <2>2, <2>8
<1>10. ItemsPlaced'
  <2>1. ItemsPlaced
    BY DEF PlacedInv
  <2>2. QED
    BY <2>1, <1>2, <1>8, <1>9, ItemsUnchanged, ItemsAppended
<1>11. CASE read.line = "error"
  BY <1>1, <1>2, <1>6, <1>8, <1>10, <1>11, NothingPlaced
<1>12. CASE read.line # "error"
  <2>1. ahead' = [blank |-> padding, line |-> read.line]
    BY <1>1, <1>12
  <2>2. ahead'.line = "line" => StartExact(file', source'.pos, start')
    <3>1. ahead'.line = read.line
      BY <2>1
    <3>2. file.gzip
      BY <1>2, HeldBack
    <3>3. QED
      BY <3>1, <3>2, <1>1, <1>2, <1>5, StartFound
  <2>3. QED
    BY <2>2, <1>6, <1>8, <1>10 DEF PlacedInv
<1>13. QED
  BY <1>11, <1>12

LEMMA ReadHeaderPlaced ==
  ASSUME ReaderInv, PlacedInv, ReadHeader
  PROVE  PlacedInv'
<1>0. /\ Readable(file) /\ SourceOK(file, source) /\ source.pos \in Nat
      /\ Len(file.octets) \in Nat /\ source.pos <= Len(file.octets)
      /\ SourceExact(file, source)
  BY StateFacts DEF PlacedInv
<1>1. PICK next \in {Filled(file, source)} :
        next.read = "fields" /\ source' = Consumed(next.to)
  BY DEF ReadHeader
<1>2. /\ phase = "header" /\ phase' = "body"
      /\ file' = file /\ offset' = offset /\ start' = start /\ items' = items
  BY DEF ReadHeader
<1>3. source.pos < Len(file.octets)
  <2>1. source.pos = Len(file.octets) => next.read \in {"eof", "error"}
    BY <1>0, FilledIs
  <2>2. QED
    BY <2>1, <1>0, <1>1
<1>4. SourceExact(file', source')
  BY <1>0, <1>1, <1>2, <1>3, FilledConsumed
<1>5. file.gzip => StartExact(file', offset' + 1, start')
  BY <1>2 DEF PlacedInv
<1>6. ItemsPlaced'
  BY <1>2, ItemsUnchanged DEF PlacedInv
<1>7. QED
  BY <1>2, <1>4, <1>5, <1>6 DEF PlacedInv

\* The source after the octet that a header block or a body fails at.
LEMMA FailedAt ==
  ASSUME ReaderInv, PlacedInv, NEW octet \in {"mess", "slip"}
  PROVE  LET next == Filled(file, source)
             s == IF next.read = octet THEN Consumed(next.to) ELSE next.to
         IN  SourceOK(file, s) /\ SourceExact(file, s)
<1> DEFINE next == Filled(file, source)
<1>0. /\ Readable(file) /\ SourceOK(file, source) /\ source.pos \in Nat
      /\ Len(file.octets) \in Nat /\ source.pos <= Len(file.octets)
      /\ SourceExact(file, source)
  BY StateFacts DEF PlacedInv
<1>1. SourceOK(file, next.to) /\ SourceExact(file, next.to)
  BY <1>0, FilledIs, FilledExact
<1>2. ASSUME next.read = octet PROVE SourceOK(file, Consumed(next.to)) /\ SourceExact(file, Consumed(next.to))
  <2>1. source.pos = Len(file.octets) => next.read \in {"eof", "error"}
    BY <1>0, FilledIs
  <2>2. source.pos < Len(file.octets)
    BY <2>1, <1>0, <1>2
  <2>3. QED
    BY <2>2, <1>0, FilledConsumed
<1> HIDE DEF next
<1>3. LET s == IF next.read = octet THEN Consumed(next.to) ELSE next.to
      IN  SourceOK(file, s) /\ SourceExact(file, s)
  BY <1>1, <1>2
<1>4. QED
  BY <1>3 DEF next

LEMMA HeaderFailsPlaced ==
  ASSUME ReaderInv, ReaderInv', PlacedInv, HeaderFails
  PROVE  PlacedInv'
<1>1. PICK s : /\ s = IF Filled(file, source).read = "mess" THEN Consumed(Filled(file, source).to)
                                                            ELSE Filled(file, source).to
               /\ Fuse(s)
  BY DEF HeaderFails
<1>2. SourceOK(file, s) /\ SourceExact(file, s)
  BY <1>1, FailedAt
<1>3. file' = file
  BY DEF HeaderFails
<1>4. QED
  BY <1>1, <1>2, <1>3, FailurePlaced

LEMMA BodyFailsPlaced ==
  ASSUME ReaderInv, ReaderInv', PlacedInv, BodyFails
  PROVE  PlacedInv'
<1>1. PICK s : /\ s = IF Filled(file, source).read = "slip" THEN Consumed(Filled(file, source).to)
                                                            ELSE Filled(file, source).to
               /\ Fuse(s)
  BY DEF BodyFails
<1>2. SourceOK(file, s) /\ SourceExact(file, s)
  BY <1>1, FailedAt
<1>3. file' = file
  BY DEF BodyFails
<1>4. QED
  BY <1>1, <1>2, <1>3, FailurePlaced

LEMMA EndFailsPlaced ==
  ASSUME ReaderInv, ReaderInv', PlacedInv, EndFails
  PROVE  PlacedInv'
<1>1. file' = file /\ Fuse(source)
  BY DEF EndFails
<1>2. SourceOK(file, source) /\ SourceExact(file, source)
  BY StateFacts DEF PlacedInv
<1>3. QED
  BY <1>1, <1>2, FailurePlaced

LEMMA ReadEndPlaced ==
  ASSUME ReaderInv, PlacedInv, ReadEnd
  PROVE  PlacedInv'
<1>1. file' = file /\ items' = items /\ phase' = "done" /\ RecordEnds(source, start)
  BY DEF ReadEnd
<1>2. SourceExact(file, source')
  BY <1>1, StateFacts, RecordEndsExact DEF PlacedInv
<1>3. QED
  BY <1>1, <1>2, ItemsUnchanged, NothingPlaced DEF PlacedInv

LEMMA ReadBodyPlaced ==
  ASSUME ReaderInv, PlacedInv, ReadBody
  PROVE  PlacedInv'
<1>0. /\ Readable(file) /\ SourceOK(file, source) /\ source.pos \in Nat
      /\ Len(file.octets) \in Nat /\ source.pos <= Len(file.octets)
      /\ start \in Positions /\ offset \in Nat /\ SourceExact(file, source)
  BY StateFacts DEF PlacedInv
<1>1. PICK next \in {Filled(file, source)} :
        next.read = "body" /\ RecordEnds(Consumed(next.to), start)
  BY DEF ReadBody
<1>2. /\ phase = "body" /\ file' = file /\ offset' = offset
      /\ \/ file.gzip /\ phase' = "ahead" /\ began' = None /\ items' = items
         \/ ~file.gzip /\ YieldRecord(placement', source'.pos)
      /\ ahead' = ahead /\ pendingError' = pendingError
  BY DEF ReadBody, recordVars
<1>3. /\ ahead = None /\ source.pos = offset + 2 /\ file.octets[offset + 1] = "line"
  BY <1>2 DEF ReaderInv, Standing
<1>4. source.pos < Len(file.octets) /\ file.octets[source.pos + 1] = "body"
  <2>1. /\ source.pos < Len(file.octets) => next.read = file.octets[source.pos + 1]
        /\ source.pos = Len(file.octets) => next.read \in {"eof", "error"}
    BY <1>0, FilledIs
  <2>2. QED
    BY <2>1, <1>0, <1>1
<1>5. PICK s : s = Consumed(next.to)
  OBVIOUS
<1>6. SourceOK(file, s) /\ SourceExact(file, s) /\ s.pos = source.pos + 1 /\ RecordEnds(s, start)
  BY <1>0, <1>1, <1>4, <1>5, FilledConsumed
<1>7. PICK n \in Records(file) : n = offset + 1
  <2>1. file.octets \in Seq(Octets)
    BY <1>0, FileFacts
  <2>2. /\ offset + 1 \in DOMAIN file.octets /\ offset + 1 + 2 <= Len(file.octets)
        /\ offset + 1 + 2 = source.pos + 1
    BY <2>1, <1>0, <1>3, <1>4
  <2>3. QED
    BY <2>2, <1>3, <1>4 DEF Records
<1>8. s.pos = n + 2 /\ n + 2 <= Len(file.octets) /\ n \in Nat
  BY <1>0, <1>3, <1>4, <1>6, <1>7
<1>9. SourceExact(file', source')
  BY <1>2, <1>6, RecordEndsExact
<1>10. CASE file.gzip
  <2>1. phase' = "ahead" /\ began' = None /\ items' = items
    BY <1>2, <1>10
  <2>2. PICK to \in Positions : to = Positioned(file, s).at /\ PositionExact(file, s.pos, to)
    BY <1>0, <1>6, PositionedIs, PositionedExact
  <2>3. /\ source' = Positioned(file, s).to /\ placement' = Between(start, to)
        /\ source'.pos = n + 2
    BY <2>2, <1>0, <1>6, <1>8, <1>10, PositionedIs DEF RecordEnds
  <2>4. StartExact(file, n, start)
    BY <1>2, <1>7, <1>10 DEF PlacedInv
  <2>5. IsPlaced(file, n, Between(start, to), n + 1)
    BY <2>2, <2>4, <1>0, <1>8, <1>10, PlacedFirst
  <2>6. IsPlaced(file', offset' + 1, placement', source'.pos - 1)
    <3>1. source'.pos - 1 = n + 1
      BY <2>3, <1>8
    <3>2. QED
      BY <3>1, <2>3, <2>5, <1>2, <1>7
  <2>7. OnlyBlank(file', offset' + 3, source'.pos)
    <3>1. offset' + 3 = n + 2
      BY <1>0, <1>2, <1>7
    <3>2. OnlyBlank(file, n + 2, n + 2)
      BY <1>0, RecordIs
    <3>3. QED
      BY <3>1, <3>2, <2>3, <1>2
  <2>8. BeganExact(file', began', source'.pos)
    <3>1. PICK pos \in Nat : pos = n + 2
      BY <1>8
    <3>2. LastOctet(file, pos) = "body"
      BY <3>1, <1>0, <1>8, RecordIs DEF LastOctet
    <3>3. BeganExact(file, None, pos)
      BY <3>1, <3>2, <1>0, <1>8, NoneBegan
    <3>4. QED
      BY <3>1, <3>3, <2>1, <2>3, <1>2
  <2>9. ItemsPlaced'
    BY <2>1, <1>2, ItemsUnchanged DEF PlacedInv
  <2>10. QED
    BY <2>1, <2>6, <2>7, <2>8, <2>9, <1>2, <1>7, <1>9 DEF PlacedInv
<1>11. CASE ~file.gzip
  <2>1. YieldRecord(placement', source'.pos) /\ source' = s
    BY <1>2, <1>6, <1>11 DEF RecordEnds
  <2>2. PICK item : item = Item(offset + 1, placement', offset, source'.pos, blankLines)
    OBVIOUS
  <2>3. phase' = "next" /\ (items' = items \/ items' = Append(items, item))
    BY <2>1, <2>2 DEF YieldRecord
  <2>4. item.record = n /\ item.frame = [offset |-> n - 1, length |-> 3]
    <3>1. offset = n - 1 /\ source'.pos - offset = 3
      BY <2>1, <1>0, <1>7, <1>8
    <3>2. item.record = n /\ item.frame = Frame(file, placement', offset, source'.pos)
      BY <2>2, <1>7 DEF Item
    <3>3. item.frame = [offset |-> offset, length |-> source'.pos - offset]
      BY <3>2, <1>11 DEF Frame
    <3>4. QED
      BY <3>1, <3>2, <3>3
  <2>5. ItemPlaced(file, item)
    BY <2>4, <1>0, <1>11, ItemPlain
  <2>6. ItemsPlaced'
    <3>1. ItemsPlaced
      BY DEF PlacedInv
    <3>2. QED
      BY <3>1, <2>3, <2>5, <1>2, ItemsUnchanged, ItemsAppended
  <2>7. QED
    BY <2>6, <1>2, <1>9, <1>11 DEF PlacedInv
<1>12. QED
  BY <1>10, <1>11

\* Reading keeps PlacedInv: MemberReader counts the members that held octets and
\* have ended, a record's start is where its first line lies, the member it is said
\* to begin is one it begins but for blank lines, and the placement of a record is
\* that of its octets while the padding after it is read ahead.
THEOREM ReaderPlacedInvariant == ReaderSpec => []PlacedInv
<1>1. ReaderInit => PlacedInv
  BY InitPlaced
<1>2. ReaderInv /\ ReaderInv' /\ PlacedInv /\ [ReaderNext]_readerVars => PlacedInv'
  <2>1. ASSUME ReaderInv, ReaderInv', PlacedInv, ReaderNext PROVE PlacedInv'
    <3>1. CASE Finished
      BY <2>1, <3>1, FinishedPlaced
    <3>2. CASE YieldPending
      BY <2>1, <3>2, YieldPendingPlaced
    <3>3. CASE TakeAhead
      BY <2>1, <3>3, TakeAheadPlaced
    <3>4. CASE StartPadding
      BY <2>1, <3>4, StartPaddingPlaced
    <3>5. CASE SkipBlank
      BY <2>1, <3>5, SkipBlankPlaced
    <3>6. CASE FindHeader
      BY <2>1, <3>6, FindHeaderPlaced
    <3>7. CASE PaddingFails
      BY <2>1, <3>7, PaddingFailsPlaced
    <3>8. CASE ReadAhead
      BY <2>1, <3>8, ReadAheadPlaced
    <3>9. CASE ReadHeader
      BY <2>1, <3>9, ReadHeaderPlaced
    <3>10. CASE HeaderFails
      BY <2>1, <3>10, HeaderFailsPlaced
    <3>11. CASE ReadEnd
      BY <2>1, <3>11, ReadEndPlaced
    <3>12. CASE EndFails
      BY <2>1, <3>12, EndFailsPlaced
    <3>13. CASE ReadBody
      BY <2>1, <3>13, ReadBodyPlaced
    <3>14. CASE BodyFails
      BY <2>1, <3>14, BodyFailsPlaced
    <3>15. CASE Exhausted
      BY <2>1, <3>15, UnchangedPlaced DEF Exhausted
    <3>16. QED
      BY <2>1, <3>1, <3>2, <3>3, <3>4, <3>5, <3>6, <3>7, <3>8, <3>9, <3>10, <3>11,
         <3>12, <3>13, <3>14, <3>15 DEF ReaderNext
  <2>2. QED
    BY <2>1, UnchangedPlaced
<1>3. QED
  BY <1>1, <1>2, ReaderInvariant, PTL DEF ReaderSpec

\* Whatever the stream is, and however it is cut into members, the frame an iterator
\* gives a record is read as that record and no other, every record that stands alone
\* in its members has one, and its placement counts the members that hold it.
THEOREM ReaderPlacesExactly == ReaderSpec => []StreamPlacedExactly
<1>1. PlacedInv => StreamPlacedExactly
  <2> SUFFICES ASSUME PlacedInv PROVE StreamPlacedExactly
    OBVIOUS
  <2>1. \A i \in Yielded : ItemPlaced(file, items[i])
    BY DEF PlacedInv, ItemsPlaced
  <2>2. FramesReadAlone
    BY <2>1 DEF FramesReadAlone, ItemPlaced
  <2>3. FramesComplete
    BY <2>1 DEF FramesComplete, ItemPlaced
  <2>4. PlacementExact
    BY <2>1 DEF PlacementExact, ItemPlaced
  <2>5. QED
    BY <2>2, <2>3, <2>4 DEF StreamPlacedExactly
<1>2. QED
  BY <1>1, ReaderPlacedInvariant, PTL

=============================================================================
