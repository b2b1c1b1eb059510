---------------------------- MODULE Identifiers -----------------------------
(***************************************************************************)
(* The identifiers archivindex derives from what a record holds            *)
(* (archivindex-warc-identifier): of a record as read, and of a typed one, *)
(* which is given its identifier before it is written.                     *)
(*                                                                         *)
(* A date is <<instant, precision>>, the instant in microseconds; a URI is *)
(* <<uri, whether it is bracketed>>.  The hash of a preimage is known by   *)
(* the preimage, which is << >> of a record that has none.                 *)
(***************************************************************************)
EXTENDS Fields

CONSTANTS
  Before1970,    \* the instants that have no encoding
  IllFormed      \* a value that is not of its field's form

TypeByte == [warcinfo |-> 1, request |-> 2, response |-> 3, metadata |-> 4, revisit |-> 5]

SegmentFields == {"SegmentNumber", "SegmentOriginID", "SegmentTotalLength"}

(* The fields that are read of a record of a type.                         *)
IdentityFields(type) ==
  {"WarcType", "Date", "TargetURI"}
  \cup IF type = "revisit" THEN {"RefersToDate", "RefersToTargetURI"} ELSE {}

(* The fields in their order.  A URI is never empty, so a record without a *)
(* target is told from every record with one.                              *)
Preimage(type, date, target, block, original) ==
  <<1, TypeByte[type], date, IF target = << >> THEN "" ELSE target[1], block>> \o original

HasInstant(values) == values # << >> /\ values[1][1] \notin Before1970

(* Faulty: a revisit says nothing of its original.                         *)
IdentityOfCapture(r) ==
  IF /\ ~IsSegment(r) /\ r.type \in DOMAIN TypeByte
     /\ HasInstant(r.fields["Date"])
     /\ r.type = "revisit" =>
          HasInstant(r.fields["RefersToDate"]) /\ r.fields["RefersToTargetURI"] # << >>
  THEN LET target == Held(r, "TargetURI")
       IN  Preimage(r.type, r.fields["Date"][1][1],
                    [i \in DOMAIN target |-> target[i][1]], r.body, << >>)
  ELSE << >>

(* IdentityV1::from_record.                                                *)
IdentityOf(r) ==
  IF /\ ~IsSegment(r) /\ r.type \in DOMAIN TypeByte
     /\ HasInstant(r.fields["Date"])
     /\ r.type = "revisit" =>
          HasInstant(r.fields["RefersToDate"]) /\ r.fields["RefersToTargetURI"] # << >>
  THEN LET target == Held(r, "TargetURI")
       IN  Preimage(r.type, r.fields["Date"][1][1],
                    [i \in DOMAIN target |-> target[i][1]], r.body,
                    IF r.type = "revisit"
                    THEN <<r.fields["RefersToDate"][1][1], r.fields["RefersToTargetURI"][1][1]>>
                    ELSE << >>)
  ELSE << >>

(* Of a header: every field that is read is there once and well formed,    *)
(* and no field makes the record a segment.                                *)
IsDateAsRead(version, values) ==
  values # << >> /\ DateFits(values[1][2], version) /\ HasInstant(values)

IsIdentifiable(version, lines) ==
  LET types == ValuesOf(lines, "WarcType")
  IN  /\ Len(types) = 1 /\ types[1] \in DOMAIN TypeByte
      /\ \A f \in IdentityFields(types[1]) :
           /\ Len(ValuesOf(lines, f)) <= 1
           /\ \A v \in ToSet(ValuesOf(lines, f)) : v # IllFormed
      /\ IsDateAsRead(version, ValuesOf(lines, "Date"))
      /\ \A f \in SegmentFields : ValuesOf(lines, f) = << >>
      /\ types[1] = "revisit" =>
           /\ IsDateAsRead(version, ValuesOf(lines, "RefersToDate"))
           /\ ValuesOf(lines, "RefersToTargetURI") # << >>

(* Faulty: what a record refers to is part of it.                          *)
IdentityWithReferences(version, lines, block) ==
  IF IsIdentifiable(version, lines)
  THEN Preimage(ValuesOf(lines, "WarcType")[1], ValuesOf(lines, "Date")[1][1], << >>, block,
                ValuesOf(lines, "RefersTo"))
  ELSE << >>

(* IdentityV1::new: brackets are not part of a URI.                        *)
IdentityAsRead(version, lines, block) ==
  IF IsIdentifiable(version, lines)
  THEN LET type == ValuesOf(lines, "WarcType")[1]
           target == ValuesOf(lines, "TargetURI")
       IN  Preimage(type, ValuesOf(lines, "Date")[1][1],
                    [i \in DOMAIN target |-> target[i][1]], block,
                    IF type = "revisit"
                    THEN << ValuesOf(lines, "RefersToDate")[1][1],
                            ValuesOf(lines, "RefersToTargetURI")[1][1] >>
                    ELSE << >>)
  ELSE << >>
=============================================================================
