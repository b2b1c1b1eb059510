------------------------------- MODULE Reader -------------------------------
(***************************************************************************)
(* Iterating over the records of a WARC stream, plain or gzip: Reading,    *)
(* which every iterator shares (io/read.rs), over MemberReader             *)
(* (io/gzip.rs).                                                           *)
(*                                                                         *)
(* A stream is a sequence of octets that stand for what the reader tells   *)
(* apart: a blank line is "cr" and "lf" (or "lf" alone), and a record is   *)
(* the first line of its header block, the rest of it, and its body with   *)
(* the terminator.  "mess" ends a header block that cannot be parsed or is *)
(* too long, and "slip" is a body without its terminator, or too long: the *)
(* reader stops at either, so nothing follows.  The octets are cut into    *)
(* members anywhere, and a member of the file counts as one octet of it.   *)
(***************************************************************************)
EXTENDS Integers, Sequences, FiniteSets

CONSTANTS
    Files,      \* the streams that are read
    None        \* absent

Octets == {"cr", "lf", "line", "fields", "mess", "body", "slip"}

Successors(octet) ==
    CASE octet \in {"lf", "body"} -> {"cr", "lf", "line"}
      [] octet = "cr" -> {"lf"}
      [] octet = "line" -> {"fields", "mess"}
      [] octet = "fields" -> {"body", "slip"}
      [] OTHER -> {}

\* A file: its octets, where each of its members ends, and whether the last
\* member fails where it should end (it is cut short, its checksum is wrong, or
\* it is no member).  A plain file is one member that is not decompressed.
Readable(f) ==
    /\ f \in [gzip : BOOLEAN, octets : Seq(Octets), ends : Seq(Nat), broken : BOOLEAN]
    /\ f.octets # <<>> => f.octets[1] \in {"cr", "lf", "line"}
    /\ \A n \in 1 .. Len(f.octets) - 1 : f.octets[n + 1] \in Successors(f.octets[n])
    /\ \A m, k \in 1 .. Len(f.ends) : m <= k => f.ends[m] <= f.ends[k]
    /\ IF f.ends = <<>> THEN f.octets = <<>> /\ ~f.broken
                        ELSE f.ends[Len(f.ends)] = Len(f.octets)
    /\ ~f.gzip => Len(f.ends) = 1

ASSUME FilesAssumption == \A f \in Files : Readable(f)

\* The padding read ahead, with what followed it, where a record lies, and the
\* frame it has.
Aheads == [blank : Nat, line : {"line", "eof"}]
Placements == [offset : Nat, length : Int \cup {None}, members : Int, begins : BOOLEAN]
FramesRead == [offset : Nat, length : Int]

ASSUME NoneAssumption ==
    /\ None \notin Int
    /\ None \notin Aheads /\ None \notin Placements /\ None \notin FramesRead

VARIABLES
    file,
    source,     \* the MemberReader, or the plain stream
    phase,      \* where the iterator is within next, or "done" once it returned None
    finished,   \* set once the input has ended or an error has been yielded
    ended,      \* set once the input has ended at a record boundary
    pendingError, \* an error met reading ahead is still to be yielded
    ahead,      \* the padding read ahead, or None
    padding,    \* what read_past_padding has read: blank lines, and the line after them
    began,      \* the member it last saw the beginning of, or None
    buffered,   \* octets in the header buffer
    blankLines, \* blank lines before the record being read
    offset,     \* where its header block begins
    start,      \* the position of its first octet
    placement,  \* where the record read last lies in the members
    verdict,    \* what becomes of it: "kept", "skipped", or "refused", yielded as an error
    passed,     \* every record read, and its verdict
    items       \* what the iterator has yielded

paddingVars == <<ahead, padding, began, buffered>>
recordVars == <<blankLines, offset, verdict>>
endVars == <<finished, ended>>
readerVars == <<file, source, phase, endVars, pendingError, paddingVars, recordVars, start,
          placement, passed, items>>

-----------------------------------------------------------------------------
(* MemberReader.                                                           *)

Least(S) == CHOOSE n \in S : \A k \in S : n <= k

MemberStart(f, m) == IF m <= 1 THEN 0 ELSE f.ends[m - 1]
Holds(f, m) == f.ends[m] > MemberStart(f, m)

\* mem is the member opened last, pos the octets consumed, endedAt the offset
\* after the last completed member and held the completed ones that held octets.
NewSource == [mode |-> "reading", mem |-> 0, pos |-> 0, endedAt |-> 0, held |-> 0]

\* Faulty: members that hold nothing are counted.
HeldOrNot(f, s, upto) == s.held + Cardinality({m \in s.mem .. upto : m > 0})

\* The members holding octets that have ended, once s.mem and those after it have
\* up to upto.
HeldThrough(f, s, upto) ==
    s.held + Cardinality({m \in s.mem .. upto : m > 0 /\ Holds(f, m)})

\* fill_buf and refill: members are opened until one holds an octet.  A failure
\* is reported once.
Filled(f, s) ==
    LET next == {m \in s.mem + 1 .. Len(f.ends) : f.ends[m] > s.pos}
        upto == IF next # {} THEN Least(next) - 1
                ELSE IF f.broken THEN Len(f.ends) - 1 ELSE Len(f.ends)
    IN  CASE s.mode = "failed" -> [to |-> [s EXCEPT !.mode = "done"], read |-> "error"]
          [] s.mode = "done" -> [to |-> s, read |-> "eof"]
          [] s.mode = "reading" /\ s.mem > 0 /\ s.pos < f.ends[s.mem] ->
                [to |-> s, read |-> f.octets[s.pos + 1]]
          [] OTHER ->
                [to |-> [mode |-> IF next # {} THEN "reading" ELSE "done",
                         mem |-> IF next # {} THEN Least(next) ELSE Len(f.ends),
                         pos |-> s.pos,
                         endedAt |-> upto,
                         held |-> HeldThrough(f, s, upto)],
                 read |-> IF next # {} THEN f.octets[s.pos + 1]
                          ELSE IF f.broken THEN "error" ELSE "eof"]

Consumed(s) == [s EXCEPT !.pos = @ + 1]

\* Faulty: a failure met looking for the position is not kept.
PositionForgetting(f, filled) ==
    [to |-> filled.to,
     at |-> IF filled.read \in {"error", "eof"}
            THEN [member |-> filled.to.endedAt, boundary |-> TRUE, held |-> filled.to.held]
            ELSE [member |-> filled.to.mem - 1,
                  boundary |-> filled.to.pos = MemberStart(f, filled.to.mem),
                  held |-> filled.to.held]]

\* position: where the next octet lies, once filled.  A failure is kept for the
\* next read.
PositionOnce(f, filled) ==
    LET to == IF filled.read = "error" THEN [filled.to EXCEPT !.mode = "failed"]
                                       ELSE filled.to
    IN  [to |-> to,
         at |-> IF filled.read \in {"error", "eof"}
                THEN [member |-> to.endedAt, boundary |-> TRUE, held |-> to.held]
                ELSE [member |-> to.mem - 1,
                      boundary |-> to.pos = MemberStart(f, to.mem),
                      held |-> to.held]]

Positioned(f, s) == PositionOnce(f, Filled(f, s))

\* read_line_bounded: "blank", "line", "eof" or "error", and the octets of it
\* that are left in the header buffer.
LineOnce(first, second) ==
    CASE first.read \in {"eof", "error"} ->
            [to |-> first.to, line |-> first.read, octets |-> 0]
      [] first.read = "lf" ->
            [to |-> Consumed(first.to), line |-> "blank", octets |-> 0]
      [] first.read = "cr" /\ second.read \in {"eof", "error"} ->
            [to |-> second.to, line |-> second.read, octets |-> 1]
      [] first.read = "cr" /\ second.read = "lf" ->
            [to |-> Consumed(second.to), line |-> "blank", octets |-> 0]
      [] OTHER ->
            [to |-> Consumed(first.to), line |-> "line", octets |-> 1]

LineRead(f, s) ==
    LET first == Filled(f, s)
    IN  LineOnce(first, Filled(f, Consumed(first.to)))

-----------------------------------------------------------------------------
(* Placing a record.                                                       *)

\* Placement::between.
Between(from, to) ==
    [offset |-> from.member,
     length |-> IF to.boundary THEN to.member - from.member ELSE None,
     members |-> to.held - from.held + (IF to.boundary THEN 0 ELSE 1),
     begins |-> from.boundary]

\* Location::frame of the record read last, which began at from and was read up
\* to the octet after upto.
Frame(f, place, from, upto) ==
    IF ~f.gzip THEN [offset |-> from, length |-> upto - from]
    ELSE IF place.length # None /\ place.begins
    THEN [offset |-> place.offset, length |-> place.length]
    ELSE None

\* The octets that a frame covers.
CoveredOctets(f, frame) ==
    IF ~f.gzip THEN frame.offset + 1 .. frame.offset + frame.length
    ELSE MemberStart(f, frame.offset + 1) + 1 .. MemberStart(f, frame.offset + frame.length + 1)

\* raw_record_at: the first line of the one record a frame holds, or 0 if it
\* fails.
RecordAt(f, frame) ==
    LET window == CoveredOctets(f, frame)
        rest == {n \in window : \E k \in window : k <= n /\ f.octets[k] \notin {"cr", "lf"}}
        n == Least(rest)
    IN  IF /\ rest # {}
           /\ f.octets[n] = "line"
           /\ {n, n + 1, n + 2} \subseteq window
           /\ f.octets[n + 2] = "body"
           /\ \A k \in window : k > n + 2 =>
                 f.octets[k] \in {"cr", "lf"} /\ (f.octets[k] = "cr" => k + 1 \in window)
           /\ ~(f.broken /\ f.gzip /\ frame.offset + frame.length >= Len(f.ends))
        THEN n ELSE 0

-----------------------------------------------------------------------------
(* Reading.                                                                *)

ReaderInit ==
    /\ file \in Files
    /\ source = NewSource
    /\ phase = "next"
    /\ finished = FALSE
    /\ ended = FALSE
    /\ pendingError = FALSE
    /\ ahead = None
    /\ padding = 0
    /\ began = None
    /\ buffered = 0
    /\ blankLines = 0
    /\ offset = 0
    /\ start = [member |-> 0, boundary |-> FALSE, held |-> 0]
    /\ placement = None
    /\ verdict = "kept"
    /\ passed = <<>>
    /\ items = <<>>

\* end_record, up to reading ahead: the record that began at from ends where s
\* stands.
RecordEnds(s, from) ==
    IF file.gzip
    THEN \E end \in {Positioned(file, s)} :
            source' = end.to /\ placement' = Between(from, end.at)
    ELSE source' = s /\ UNCHANGED placement

Item(record, place, from, upto, blank) ==
    [record |-> record, refused |-> record # 0 /\ verdict = "refused",
     frame |-> Frame(file, place, from, upto), placement |-> place, blank |-> blank]

\* fuse_on_error: the error is yielded, and is the last.
Fuse(s) ==
    /\ finished' = TRUE
    /\ RecordEnds(s, start')
    /\ items' = Append(items, Item(0, placement', offset', s.pos, blankLines'))
    /\ phase' = "next"

\* next_header, once the iterator has come to its end.
Finished ==
    /\ phase = "next"
    /\ finished
    /\ phase' = "done"
    /\ UNCHANGED <<file, source, endVars, pendingError, paddingVars, recordVars, start,
                   placement, passed, items>>

\* next_header, after reading ahead failed.
YieldPending ==
    /\ phase = "next"
    /\ ~finished
    /\ pendingError
    /\ pendingError' = FALSE
    /\ offset' = source.pos - buffered
    /\ UNCHANGED <<file, ended, paddingVars, blankLines, verdict, start, passed>>
    /\ Fuse(source)

\* next_header, after reading ahead.
TakeAhead ==
    /\ phase = "next"
    /\ ~finished
    /\ ~pendingError
    /\ ahead # None
    /\ blankLines' = ahead.blank
    /\ offset' = source.pos - buffered
    /\ ahead' = None
    /\ phase' = IF ahead.line = "line" THEN "header" ELSE "end"
    /\ UNCHANGED <<file, source, endVars, pendingError, padding, began, buffered, verdict,
                   start, placement, passed, items>>

\* next_header, with nothing read ahead.
StartPadding ==
    /\ phase = "next"
    /\ ~finished
    /\ ~pendingError
    /\ ahead = None
    /\ phase' = "padding"
    /\ padding' = 0
    /\ began' = None
    /\ buffered' = 0
    /\ UNCHANGED <<file, source, endVars, pendingError, ahead, recordVars, start, placement,
                   passed, items>>

\* The record begins its member if it, or the padding within its member, does.
BeginsMember(began_, position) == began_ = position.member

\* The placement of the record read last, with what ended before position.
Extended(place, position) == [place EXCEPT !.length = position.member - place.offset]

\* One round of the loop of read_past_padding: the position of the next line, the
\* placement of the record read last extended to it, and the line.
PaddingOnce(position, read) ==
    LET boundary == file.gzip /\ position.at.boundary
        began_ == IF boundary THEN position.at.member ELSE began
    IN  [to |-> read.to,
         line |-> read.line,
         octets |-> read.octets,
         began |-> began_,
         start |-> IF file.gzip /\ read.line \in {"line", "eof"}
                   THEN [position.at EXCEPT !.boundary = BeginsMember(began_, position.at)]
                   ELSE position.at,
         placement |-> IF boundary /\ placement # None
                       THEN Extended(placement, position.at) ELSE placement]

PaddingRead ==
    LET position == IF file.gzip THEN Positioned(file, source)
                    ELSE [to |-> source, at |-> start]
    IN  PaddingOnce(position, LineRead(file, position.to))

TakeLine(read) ==
    /\ source' = read.to
    /\ buffered' = read.octets
    /\ began' = read.began
    /\ start' = read.start
    /\ placement' = read.placement

\* A blank line is skipped and counted.
SkipBlank ==
    /\ phase \in {"padding", "ahead"}
    /\ \E read \in {PaddingRead} :
          /\ read.line = "blank"
          /\ TakeLine(read)
    /\ padding' = padding + 1
    /\ UNCHANGED <<file, phase, endVars, pendingError, ahead, recordVars, passed, items>>

\* The line after the padding, or the end of the stream.
FindHeader ==
    /\ phase = "padding"
    /\ \E read \in {PaddingRead} :
          /\ read.line \in {"line", "eof"}
          /\ TakeLine(read)
          /\ phase' = IF read.line = "line" THEN "header" ELSE "end"
    /\ blankLines' = padding
    /\ offset' = source'.pos - buffered'
    /\ UNCHANGED <<file, endVars, pendingError, ahead, padding, verdict, passed, items>>

\* The stream fails instead.
PaddingFails ==
    /\ phase = "padding"
    /\ \E read \in {PaddingRead} :
          /\ read.line = "error"
          /\ buffered' = read.octets
          /\ began' = read.began
          /\ start' = read.start
          /\ offset' = read.to.pos - read.octets
          /\ UNCHANGED blankLines
          /\ Fuse(read.to)
    /\ UNCHANGED <<file, ended, pendingError, ahead, padding, verdict, passed>>

\* next_filtered: a header is parsed, lifted and held against the filter before
\* its body is read, or skipped, and then paired with it.
Outcome(parses, lifts, wanted, pairs) ==
    IF ~(parses /\ lifts) THEN "refused"
    ELSE IF ~wanted THEN "skipped"
    ELSE IF pairs THEN "kept" ELSE "refused"

\* What the six iterators do between them: those without a filter want all, at
\* the untyped level nothing is lifted or paired, at the raw one nothing parsed.
Verdicts ==
    {Outcome(parses, lifts, wanted, pairs) : parses, lifts, wanted, pairs \in BOOLEAN}

\* A record that was read is yielded, or the error it was refused with in its
\* place, unless the filter did not want it.
YieldRecord(place, upto) ==
    /\ phase' = "next"
    /\ items' = IF verdict = "skipped" THEN items
                ELSE Append(items, Item(offset + 1, place, offset, upto, blankLines))

\* end_record, reading ahead: what is found, or an error, is kept for the next call.
ReadAhead ==
    /\ phase = "ahead"
    /\ \E read \in {PaddingRead} :
          /\ read.line # "blank"
          /\ TakeLine(read)
          /\ IF read.line = "error"
             THEN pendingError' = TRUE /\ UNCHANGED ahead
             ELSE ahead' = [blank |-> padding, line |-> read.line] /\ UNCHANGED pendingError
    /\ YieldRecord(placement', source.pos)
    /\ UNCHANGED <<file, endVars, padding, recordVars, passed>>

\* next_header, with a line read: the rest of the header block is read and parsed,
\* and the iterator decides what becomes of the record.
ReadHeader ==
    /\ phase = "header"
    /\ \E next \in {Filled(file, source)} :
          /\ next.read = "fields"
          /\ source' = Consumed(next.to)
    /\ verdict' \in Verdicts
    /\ phase' = "body"
    /\ UNCHANGED <<file, endVars, pendingError, paddingVars, blankLines, offset, start,
                   placement, passed, items>>

\* The header block cannot be parsed, the stream ends within it, or it fails.
HeaderFails ==
    /\ phase = "header"
    /\ UNCHANGED <<file, ended, pendingError, paddingVars, recordVars, start, passed>>
    /\ \E next \in {Filled(file, source)} :
          /\ next.read # "fields"
          /\ Fuse(IF next.read = "mess" THEN Consumed(next.to) ELSE next.to)

\* next_header, at the end of the stream: a clean one only with nothing buffered.
ReadEnd ==
    /\ phase = "end"
    /\ buffered = 0
    /\ finished' = TRUE
    /\ ended' = TRUE
    /\ RecordEnds(source, start)
    /\ phase' = "done"
    /\ UNCHANGED <<file, pendingError, paddingVars, recordVars, start, passed, items>>

EndFails ==
    /\ phase = "end"
    /\ buffered > 0
    /\ UNCHANGED <<file, ended, pendingError, paddingVars, recordVars, start, passed>>
    /\ Fuse(source)

\* read_body or skip_body, and end_record.
ReadBody ==
    /\ phase = "body"
    /\ \E next \in {Filled(file, source)} :
          /\ next.read = "body"
          /\ RecordEnds(Consumed(next.to), start)
    /\ passed' = Append(passed, [record |-> offset + 1, verdict |-> verdict])
    /\ IF file.gzip
       THEN phase' = "ahead" /\ padding' = 0 /\ began' = None /\ buffered' = 0
            /\ UNCHANGED items
       ELSE /\ YieldRecord(placement', source'.pos)
            /\ UNCHANGED <<padding, began, buffered>>
    /\ UNCHANGED <<file, endVars, pendingError, ahead, recordVars, start>>

\* The body is cut short, or its terminator is missing: this error comes before
\* the record's own.
BodyFails ==
    /\ phase = "body"
    /\ UNCHANGED <<file, ended, pendingError, paddingVars, recordVars, start, passed>>
    /\ \E next \in {Filled(file, source)} :
          /\ next.read # "body"
          /\ Fuse(IF next.read = "slip" THEN Consumed(next.to) ELSE next.to)

\* Every call after the end returns None.
Exhausted == phase = "done" /\ UNCHANGED readerVars

ReaderNext == \/ Finished \/ YieldPending \/ TakeAhead \/ StartPadding
        \/ SkipBlank \/ FindHeader \/ PaddingFails \/ ReadAhead
        \/ ReadHeader \/ HeaderFails \/ ReadEnd \/ EndFails
        \/ ReadBody \/ BodyFails \/ Exhausted

ReaderSpec == ReaderInit /\ [][ReaderNext]_readerVars

-----------------------------------------------------------------------------
(* Properties.                                                             *)

\* The octets of the record whose first line is octet n, and their members.
OctetsOf(n) == n .. n + 2
MembersOf(f, n) ==
    {m \in DOMAIN f.ends : \E k \in OctetsOf(n) : MemberStart(f, m) < k /\ k <= f.ends[m]}

\* The record's members hold nothing else but whole blank lines.
Alone(f, n) ==
    \A m \in MembersOf(f, n) : \A k \in MemberStart(f, m) + 1 .. f.ends[m] \ OctetsOf(n) :
        /\ f.octets[k] = "cr" => k < f.ends[m]
        /\ f.octets[k] = "lf" => k > MemberStart(f, m) + 1 \/ k = 1 \/ f.octets[k - 1] # "cr"
        /\ f.octets[k] \in {"cr", "lf"}

\* The member that fails where it should end holds some of the record, or of the
\* blank lines after it.
EndsBroken(f, n) ==
    /\ f.gzip
    /\ f.broken
    /\ \/ Len(f.ends) \in MembersOf(f, n)
       \/ \E k \in MemberStart(f, Len(f.ends)) + 1 .. Len(f.octets) :
             \A l \in n + 3 .. k : f.octets[l] \in {"cr", "lf"}

Records(f) ==
    {n \in DOMAIN f.octets : f.octets[n] = "line" /\ n + 2 <= Len(f.octets)
                             /\ f.octets[n + 2] = "body"}

BlankLines(f, n) ==
    Cardinality({k \in 1 .. n - 1 : f.octets[k] = "lf"
                                    /\ \A l \in k .. n - 1 : f.octets[l] \in {"cr", "lf"}})

Clean(f) ==
    /\ ~f.broken
    /\ f.octets # <<>> => f.octets[Len(f.octets)] \in {"lf", "body"}

Yielded == {i \in DOMAIN items : items[i].record # 0}
Errors == DOMAIN items \ Yielded

\* read.rs:157-159, "the frame covers those members, and decompressing the octets
\* it covers yields the record alone": raw_record_at reads from the frame a
\* record was yielded with that record and no other.
FramesReadAlone ==
    \A i \in Yielded :
        LET item == items[i]
        IN  item.frame # None /\ ~EndsBroken(file, item.record) =>
                RecordAt(file, item.frame) = item.record

\* read.rs:157-158, "A record in a gzip stream has one when the members holding
\* it hold nothing else, blank lines aside", and every record of a plain stream
\* has one.  A record that has none cannot be found by an index.
FramesComplete ==
    \A i \in Yielded :
        LET item == items[i]
        IN  /\ ~file.gzip => item.frame # None
            /\ file.gzip /\ Alone(file, item.record) => item.frame # None

\* read.rs:104-113: a placement is of the member holding the record's first octet
\* and counts the members holding its octets.
PlacementExact ==
    \A i \in Yielded :
        LET item == items[i]
        IN  file.gzip /\ ~EndsBroken(file, item.record) =>
                /\ item.placement.offset + 1 = Least(MembersOf(file, item.record))
                /\ item.placement.members = Cardinality(MembersOf(file, item.record))

\* An index that keeps the frame of a record reads that record and no other there,
\* every record that stands alone in its members has one, and the members a record
\* is said to lie in are those that hold an octet of it.
StreamPlacedExactly == FramesReadAlone /\ FramesComplete /\ PlacementExact

\* Reading ahead loses nothing: when the iterator has returned None, it has read
\* every whole record of the stream once and in order, has yielded those it did
\* not skip with the blank lines before them, a refused one as an error in its
\* place, and has yielded one error of the stream, after all of them, or none, and
\* then the stream was sound and end says so.
AllRead ==
    /\ \A i, j \in DOMAIN passed : i < j => passed[i].record < passed[j].record
    /\ phase = "done" =>
          /\ {passed[i].record : i \in DOMAIN passed} = Records(file)
          /\ {items[i].record : i \in Yielded}
                = {passed[i].record : i \in {k \in DOMAIN passed : passed[k].verdict # "skipped"}}
          /\ \A i, j \in Yielded : i < j => items[i].record < items[j].record
          /\ \A i \in Yielded, k \in DOMAIN passed :
                passed[k].record = items[i].record =>
                    (items[i].refused <=> passed[k].verdict = "refused")
          /\ \A i \in Yielded : items[i].blank = BlankLines(file, items[i].record)
          /\ Errors = IF Clean(file) THEN {} ELSE {Len(items)}
          /\ ended <=> Clean(file)
          /\ ended => blankLines = BlankLines(file, Len(file.octets) + 1)

\* read.rs:158, "the frame covers those members", of every record yielded.
FramesCoverRecords ==
    \A i \in Yielded :
        items[i].frame # None => OctetsOf(items[i].record) \subseteq CoveredOctets(file, items[i].frame)

-----------------------------------------------------------------------------
(* The inductive invariant behind AllRead.                                 *)

Positions == [member : Nat, boundary : BOOLEAN, held : Nat]
RecordVerdicts == {"kept", "skipped", "refused"}
Passed == [record : Nat, verdict : RecordVerdicts]
Yields == [record : Nat, refused : BOOLEAN, frame : FramesRead \cup {None},
           placement : Placements \cup {None}, blank : Nat]

SourceOK(f, s) ==
    /\ s \in [mode : {"reading", "failed", "done"}, mem : Nat, pos : Nat,
              endedAt : Nat, held : Nat]
    /\ s.mem <= Len(f.ends)
    /\ s.pos <= Len(f.octets)
    /\ s.mode # "reading" => s.pos = Len(f.octets)

ReaderTypeOK ==
    /\ file \in Files
    /\ SourceOK(file, source)
    /\ phase \in {"next", "padding", "header", "body", "ahead", "end", "done"}
    /\ finished \in BOOLEAN /\ ended \in BOOLEAN /\ pendingError \in BOOLEAN
    /\ ahead \in Aheads \cup {None}
    /\ padding \in Nat /\ began \in Nat \cup {None}
    /\ buffered \in {0, 1} /\ buffered <= source.pos
    /\ blankLines \in Nat /\ offset \in Nat
    /\ start \in Positions
    /\ placement \in Placements \cup {None}
    /\ verdict \in RecordVerdicts
    /\ passed \in Seq(Passed)
    /\ items \in Seq(Yields)

\* The last of the octets read, or "none".
LastOctet(f, pos) == IF pos = 0 THEN "none" ELSE f.octets[pos]

Boundary(f, pos) == LastOctet(f, pos) \in {"none", "lf", "body"}

\* What was found after blank lines: a record's first line, or the end.
Found(f, pos, left, line, blank) ==
    /\ blank = BlankLines(f, pos - left + 1)
    /\ line = "line" => LastOctet(f, pos) = "line" /\ left = 1
    /\ line = "eof" => /\ pos = Len(f.octets)
                       /\ ~f.broken
                       /\ IF left = 0 THEN Boundary(f, pos) ELSE LastOctet(f, pos) = "cr"

\* Between two calls the record read last is the last octet read, unless the
\* stream was read ahead.
Standing ==
    /\ phase = "next" /\ ~finished =>
          IF pendingError THEN source.pos = Len(file.octets) /\ file.broken
          ELSE IF ahead = None THEN LastOctet(file, source.pos) \in {"none", "body"}
          ELSE Found(file, source.pos, buffered, ahead.line, ahead.blank)
    /\ phase \in {"padding", "ahead"} =>
          Boundary(file, source.pos) /\ padding = BlankLines(file, source.pos + 1)
    /\ phase = "ahead" =>
          /\ file.gzip
          /\ placement # None
          /\ passed # <<>>
          /\ passed[Len(passed)] = [record |-> offset + 1, verdict |-> verdict]
    /\ phase = "header" =>
          /\ Found(file, source.pos, buffered, "line", blankLines)
          /\ offset = source.pos - 1
    /\ phase = "end" =>
          /\ Found(file, source.pos, buffered, "eof", blankLines)
          /\ offset = source.pos - buffered
    /\ phase = "body" =>
          /\ source.pos = offset + 2
          /\ file.octets[offset + 1] = "line"
          /\ file.octets[offset + 2] = "fields"
    /\ phase \in {"body", "ahead"} => blankLines = BlankLines(file, offset + 1)
    /\ phase \in {"padding", "header", "body", "ahead", "end"} =>
          ~finished /\ ahead = None /\ ~pendingError

\* Until a failure of the stream was met, the source knows what the stream is.
Sound(f, s) ==
    /\ s.mode = "failed" => f.broken
    /\ s.mode = "done" => ~f.broken

SourceSound == ~finished /\ ~pendingError => Sound(file, source)

\* Of the octets read, every whole record has been passed.
Passes(f, pos, given) ==
    /\ {given[i].record : i \in DOMAIN given} = {n \in Records(f) : n + 2 <= pos}
    /\ \A i, j \in DOMAIN given : i < j => given[i].record < given[j].record

PassedExact == Passes(file, source.pos, passed)

\* Of the records passed, told has those that were not skipped, but for one that
\* may be held back.
Tells(f, told, given, held, failed) ==
    LET records == {i \in DOMAIN told : told[i].record # 0}
    IN  /\ {told[i].record : i \in records}
              = {given[k].record : k \in {k \in DOMAIN given : given[k].verdict # "skipped"}}
                \ held
        /\ \A i, j \in records : i < j => told[i].record < told[j].record
        /\ \A i \in records, k \in DOMAIN given :
              given[k].record = told[i].record =>
                  (told[i].refused <=> given[k].verdict = "refused")
        /\ \A i \in records : told[i].blank = BlankLines(f, told[i].record)
        /\ DOMAIN told \ records = IF failed THEN {Len(told)} ELSE {}

ItemsExact ==
    Tells(file, items, passed, IF phase = "ahead" THEN {offset + 1} ELSE {},
          finished /\ ~ended)

Ending ==
    /\ phase = "done" => finished
    /\ finished => source.pos = Len(file.octets)
    /\ ended => /\ finished
                /\ Clean(file)
                /\ blankLines = BlankLines(file, Len(file.octets) + 1)
    /\ finished /\ ~ended => ~Clean(file)

ReaderInv ==
    /\ ReaderTypeOK
    /\ Standing
    /\ SourceSound
    /\ PassedExact
    /\ ItemsExact
    /\ Ending

-----------------------------------------------------------------------------
(* The inductive invariant behind StreamPlacedExactly, beside ReaderInv.   *)

InMember(f, m, n) == m \in DOMAIN f.ends /\ MemberStart(f, m) < n /\ n <= f.ends[m]

\* The members up to m that hold octets.
HeldUpTo(f, m) == Cardinality({k \in 1 .. m : Holds(f, k)})

OnlyBlank(f, from, to) == \A k \in from + 1 .. to : f.octets[k] \in {"cr", "lf"}

\* The member that is known last to have ended.
LastEnded(f) == IF f.broken THEN Len(f.ends) - 1 ELSE Len(f.ends)

\* MemberReader is in the member that holds the octet read last, or past all.
SourceExact(f, s) ==
    IF s.mode = "reading"
    THEN IF s.mem = 0 THEN s.pos = 0 /\ s.held = 0
         ELSE /\ Holds(f, s.mem)
              /\ MemberStart(f, s.mem) <= s.pos /\ s.pos <= f.ends[s.mem]
              /\ s.held = HeldUpTo(f, s.mem - 1)
    ELSE /\ s.mem = Len(f.ends)
         /\ s.endedAt = LastEnded(f)
         /\ s.held = HeldUpTo(f, s.endedAt)

\* Where the octet after pos lies, or the end.
PositionExact(f, pos, at) ==
    /\ IF pos < Len(f.octets)
       THEN /\ InMember(f, at.member + 1, pos + 1)
            /\ at.boundary <=> MemberStart(f, at.member + 1) = pos
       ELSE at.member = LastEnded(f) /\ at.boundary
    /\ at.held = HeldUpTo(f, at.member)

\* Of member m nothing is before pos but whole blank lines.
BeginsBlank(f, m, pos) ==
    Boundary(f, MemberStart(f, m)) /\ OnlyBlank(f, MemberStart(f, m), pos)

\* The member begun last within the padding, which reaches to pos.
BeganExact(f, b, pos) ==
    /\ b # None => /\ b + 1 \in DOMAIN f.ends
                   /\ MemberStart(f, b + 1) < pos
                   /\ BeginsBlank(f, b + 1, pos)
    /\ \A m \in DOMAIN f.ends :
          Holds(f, m) /\ MemberStart(f, m) < pos /\ BeginsBlank(f, m, pos)
              => b # None /\ m <= b + 1

\* Where the record begins whose first line is octet n.
StartExact(f, n, at) ==
    /\ InMember(f, at.member + 1, n)
    /\ at.boundary <=> BeginsBlank(f, at.member + 1, n - 1)
    /\ at.held = HeldUpTo(f, at.member)

\* A placement of that record while the padding after it was read up to pos: its
\* members end together at the end of a line, if any members do.
IsPlaced(f, n, place, pos) ==
    /\ InMember(f, place.offset + 1, n)
    /\ place.begins <=> BeginsBlank(f, place.offset + 1, n - 1)
    /\ ~EndsBroken(f, n) => place.members = Cardinality(MembersOf(f, n))
    /\ IF place.length = None
       THEN \A m \in DOMAIN f.ends :
               n + 2 <= f.ends[m] /\ f.ends[m] <= pos => ~Boundary(f, f.ends[m])
       ELSE LET upto == place.offset + place.length
                end == MemberStart(f, upto + 1)
            IN  \/ EndsBroken(f, n)
                \/ /\ upto \in 0 .. LastEnded(f)
                   /\ n + 2 <= end /\ Boundary(f, end) /\ OnlyBlank(f, n + 2, end)

ItemPlaced(f, item) ==
    /\ item.frame # None /\ ~EndsBroken(f, item.record) => RecordAt(f, item.frame) = item.record
    /\ ~f.gzip => item.frame # None
    /\ f.gzip /\ Alone(f, item.record) => item.frame # None
    /\ f.gzip /\ ~EndsBroken(f, item.record) =>
          /\ item.placement.offset + 1 = Least(MembersOf(f, item.record))
          /\ item.placement.members = Cardinality(MembersOf(f, item.record))

ItemsPlaced == \A i \in Yielded : ItemPlaced(file, items[i])

PlacedInv ==
    /\ SourceExact(file, source)
    /\ file.gzip =>
          /\ phase \in {"padding", "ahead"} => BeganExact(file, began, source.pos)
          /\ phase \in {"header", "body"} => StartExact(file, offset + 1, start)
          /\ phase = "next" /\ ~finished /\ ahead # None /\ ~pendingError =>
                (ahead.line = "line" => StartExact(file, source.pos, start))
          /\ phase = "ahead" =>
                /\ IsPlaced(file, offset + 1, placement, source.pos - 1)
                /\ OnlyBlank(file, offset + 3, source.pos)
                /\ offset + 1 \in Records(file)
    /\ ItemsPlaced

=============================================================================
