------------------------------- MODULE Writer -------------------------------
(***************************************************************************)
(* A writer of records: what of each record its sink has accepted, where   *)
(* the writer believes the sink to be, and the frames it reports.          *)
(* (src/io/write.rs)                                                       *)
(*                                                                         *)
(* A record takes some units of its sink, compressed or not.  The sink may *)
(* accept any of what it is offered, or fail at any unit of any write, and *)
(* go on afterwards; nothing a writer is told says what it kept.           *)
(***************************************************************************)
EXTENDS Naturals, SequencesExt

CONSTANTS
  StoredRecords,   \* the records that are written: [size, valid]
  MaxStored,       \* how many records are written
  MaxFailures      \* how often the sink fails

ASSUME WriterAssumption ==
  /\ StoredRecords \subseteq [size : Nat, valid : BOOLEAN]
  /\ MaxStored \in Nat /\ MaxFailures \in Nat

VARIABLES
  sink,            \* the units accepted: <<which write, which of its units>>
  position,        \* the offset the writer gives its next record
  gzip,            \* whether every record is a member of its own
  store,           \* the write in progress, if there is one
  stored,          \* the writes made so far: the record, and the frame if it succeeded
  failures         \* how often the sink failed

writerVars == <<sink, position, gzip, store, stored, failures>>

(* A member has a header and a trailer of its own, before and after.       *)
Trailer(n, record) == <<n, record.size + 1>>
UnitsOf(n, record) ==
  LET units == [i \in 1..record.size |-> <<n, i>>]
  IN  IF gzip THEN <<<<n, 0>>>> \o units \o <<Trailer(n, record)>> ELSE units

Idle == store = << >>

(* The file may have something in it: the position begins after that.      *)
WriterInit ==
  /\ gzip \in BOOLEAN
  /\ \/ sink = << >> /\ position = 0
     \/ sink = << <<0, 1>>, <<0, 2>> >> /\ position = 2
  /\ store = << >>
  /\ stored = << >>
  /\ failures = 0

(* A record that cannot be written is refused before anything is.          *)
Begin(record) ==
  /\ record.valid
  /\ store' = << [record |-> record, todo |-> UnitsOf(Len(stored) + 1, record), tapped |-> << >>,
                  failed |-> FALSE, closing |-> FALSE] >>

WriteRecord ==
  /\ Idle /\ Len(stored) < MaxStored
  /\ \E record \in StoredRecords :
       \/ Begin(record) /\ UNCHANGED stored
       \/ /\ ~record.valid
          /\ stored' = Append(stored, [record |-> record, frame |-> << >>])
          /\ UNCHANGED store
  /\ UNCHANGED <<sink, position, gzip, failures>>

(* The tap counts, and hashes, what the sink accepted of what it was given. *)
Accept ==
  /\ ~Idle
  /\ \E n \in DOMAIN store[1].todo :
       LET units == SubSeq(store[1].todo, 1, n)
       IN  /\ sink' = sink \o units
           /\ store' = [store EXCEPT ![1].todo = SubSeq(@, n + 1, Len(@)), ![1].tapped = @ \o units]
  /\ UNCHANGED <<position, gzip, stored, failures>>

(* An encoder that is dropped closes its member all the same, with what it *)
(* has compressed and its trailer; a second failure it keeps to itself.    *)
FailWrite ==
  /\ ~Idle /\ store[1].todo # << >> /\ failures < MaxFailures
  /\ failures' = failures + 1
  /\ IF gzip /\ ~store[1].closing
     THEN \E n \in 0..(Len(store[1].todo) - 1) :
            store' = [store EXCEPT ![1].todo = SubSeq(@, 1, n) \o <<Trailer(Len(stored) + 1, store[1].record)>>,
                                   ![1].failed = TRUE, ![1].closing = TRUE]
     ELSE store' = [store EXCEPT ![1].todo = << >>, ![1].failed = TRUE]
  /\ UNCHANGED <<sink, position, gzip, stored>>

(* Faulty: the position moves on when the write succeeds.                  *)
FrameIfWritten(written) == position' = IF store[1].failed THEN position ELSE position + Len(written)

(* frame: whatever became of the write, what was accepted is behind it.    *)
TakeFrame(written) == position' = position + Len(written)

FinishWrite ==
  /\ ~Idle /\ store[1].todo = << >>
  /\ TakeFrame(store[1].tapped)
  /\ stored' = Append(stored,
       [record |-> store[1].record,
        frame |-> IF store[1].failed THEN << >>
                  ELSE << [offset |-> position, length |-> Len(store[1].tapped), digest |-> store[1].tapped] >>])
  /\ store' = << >>
  /\ UNCHANGED <<sink, gzip, failures>>

(* The writer is finished with, and another opened on the same file, which *)
(* may compress its records or not.                                        *)
Reopen ==
  /\ Idle /\ stored # << >> /\ Len(stored) < MaxStored
  /\ position' = Len(sink)
  /\ gzip' \in BOOLEAN
  /\ UNCHANGED <<sink, store, stored, failures>>

WriterNext == WriteRecord \/ Accept \/ FailWrite \/ FinishWrite \/ Reopen

WriterSpec == WriterInit /\ [][WriterNext]_writerVars
-----------------------------------------------------------------------------
HeldIn(frame) == SubSeq(sink, frame.offset + 1, frame.offset + frame.length)

(* The octets of the frame are the whole of write n and no other's, and no *)
(* octet of it is anywhere else.                                           *)
FrameExact(n, frame) ==
  /\ frame.digest = HeldIn(frame)
  /\ \A k \in DOMAIN sink :
       sink[k][1] = n <=> (frame.offset < k /\ k <= frame.offset + frame.length)
  /\ \A i \in 1..stored[n].record.size :
       \E k \in DOMAIN HeldIn(frame) : HeldIn(frame)[k] = <<n, i>>

(* The frame of a record that was written holds that record, whole and     *)
(* alone, and its digest is that of the octets there, whatever failed      *)
(* before it; between writes the position is where the sink is; and a      *)
(* record that was refused has left nothing.                               *)
(* (WarcWriter::write, tapped, frame, from_path; TapWriter)                *)
WrittenFramesExact ==
  /\ \A n \in DOMAIN stored :
       /\ stored[n].frame # << >> => FrameExact(n, stored[n].frame[1])
       /\ ~stored[n].record.valid => \A k \in DOMAIN sink : sink[k][1] # n
  /\ Idle => position = Len(sink)
-----------------------------------------------------------------------------
(* The inductive invariant behind it (SessionProofs).                      *)

Units == Nat \X Nat
Frames == [offset : Nat, length : Nat, digest : Seq(Units)]
Stores == [record : StoredRecords, todo : Seq(Units), tapped : Seq(Units),
           failed : BOOLEAN, closing : BOOLEAN]

WriterTypeOK ==
  /\ sink \in Seq(Units) /\ position \in Nat /\ gzip \in BOOLEAN
  /\ store \in Seq(Stores) /\ Len(store) <= 1
  /\ stored \in Seq([record : StoredRecords, frame : Seq(Frames)])
  /\ failures \in Nat

(* What the tap has seen is what the sink has of the write in progress,    *)
(* and with what is to come, unless the sink failed, the whole record.     *)
Tapped ==
  LET s == store[1] n == Len(stored) + 1
  IN  ~Idle =>
        /\ s.record.valid
        /\ s.tapped = SubSeq(sink, position + 1, Len(sink))
        /\ \A k \in DOMAIN s.todo : s.todo[k][1] = n
        /\ ~s.failed => s.tapped \o s.todo = UnitsOf(n, s.record)

(* Behind the position are only the units of writes that have ended.       *)
BehindPosition ==
  /\ position <= Len(sink)
  /\ Idle => position = Len(sink)
  /\ \A k \in DOMAIN sink :
       IF k <= position THEN sink[k][1] <= Len(stored) ELSE sink[k][1] = Len(stored) + 1
  /\ \A n \in DOMAIN stored :
       stored[n].frame # << >> => stored[n].frame[1].offset + stored[n].frame[1].length <= position

WriterInv == WriterTypeOK /\ Tapped /\ BehindPosition /\ WrittenFramesExact
=============================================================================
