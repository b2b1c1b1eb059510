----------------------------- MODULE Operations -----------------------------
(***************************************************************************)
(* The operations that copy an archive record by record and change some of *)
(* what its headers say, one after another on one file: propagate,         *)
(* canonicalize, digest, compress and rewrite of warc-ops, and the id      *)
(* command.  Two of them read the file once before they copy it.  Each     *)
(* writes another file, which takes the place of its input when complete   *)
(* (Publication has how).                                                  *)
(*                                                                         *)
(* A line of a header is <<name, value, whether the name is spelled as the *)
(* standard prints it>>.  Identifiers are what normalize_id makes of them, *)
(* <<"urn", name>> or <<"derived", preimage>>; a length is the block it is *)
(* the length of; a digest is <<label, encoding, content>>; a block is     *)
(* <<kind, content>>, and the content of a block of fields a sequence of   *)
(* <<name, value>>, each value a sequence of words.                        *)
(***************************************************************************)
EXTENDS Identifiers, FiniteSetsExt

CONSTANTS
  Archives,      \* the files
  Tasks,         \* the operations, <<kind, what it is told>>
  HttpTargets,   \* the URIs of scheme http or https
  Computed,      \* the labels of digest algorithms of this build
  FramedOf,      \* [blocks with an HTTP body -> the body as it is framed]
  Unset,         \* a value an operation is not given
  MaxTasks       \* bound on the operations on one file

(* What the data described above are: a sequence holds its elements at     *)
(* their places, a line has three parts and a field of a block two.        *)
IsSequence(s) == s \in Seq(ToSet(s))
IsLine(line) == line = <<line[1], line[2], line[3]>>
IsHeader(lines) == IsSequence(lines) /\ \A i \in DOMAIN lines : IsLine(lines[i])
IsPair(field) == field = <<field[1], field[2]>>
IsFields(fields) == IsSequence(fields) /\ \A i \in DOMAIN fields : IsPair(fields[i])

IsRecord(r) ==
  /\ r = [version |-> r.version, lines |-> r.lines, block |-> r.block]
  /\ IsHeader(r.lines)
  /\ \A k \in DOMAIN ValuesOf(r.lines, "PayloadDigest") : IsLine(ValuesOf(r.lines, "PayloadDigest")[k])
  /\ r.block[1] = "fields" => r.block = <<"fields", r.block[2]>> /\ IsFields(r.block[2])

ASSUME ArchivesAssumption ==
  \A archive \in Archives : IsSequence(archive) /\ \A i \in DOMAIN archive : IsRecord(archive[i])

ASSUME TasksAssumption ==
  \A t \in Tasks : t[1] \in {"propagate", "canonicalize", "digest", "compress", "rewrite", "id"}

VARIABLES
  source,        \* the file before any operation
  file,          \* the file as the last operation left it
  task,          \* the operation under way, or << >>
  pass,          \* "idle", "planning" or "copying"
  plan,          \* what the first pass of the operation keeps
  output,        \* the records written
  last,          \* the operation that was published last, or << >>
  tasks,         \* how many were begun
  derived        \* whether every identifier is of a record as it now is

operationsVars == <<source, file, task, pass, plan, output, last, tasks, derived>>

(* header.rs.                                                              *)
ReferenceFields == {"WarcinfoID", "RefersTo", "ConcurrentTo", "SegmentOriginID"}

Has(r, f) == ValuesOf(r.lines, f) # << >>
First(r, f) == ValuesOf(r.lines, f)[1]
Declares(r, type) == Has(r, "WarcType") /\ First(r, "WarcType") = type

WithValue(lines, f, value) ==
  [i \in DOMAIN lines |-> IF lines[i][1] = f THEN [lines[i] EXCEPT ![2] = value] ELSE lines[i]]

(* Before the first field that follows it in the conventional order.       *)
Inserted(lines, f, value) ==
  LET later == {i \in DOMAIN lines : Rank(lines[i][1]) > Rank(f)}
  IN  InsertAt(lines, IF later = {} THEN Len(lines) + 1 ELSE Min(later), <<f, value, TRUE>>)

Without(lines, f) == Picked(lines, DOMAIN lines \ Places(lines, f))

(* The warcinfo records name the file they are in, if it can be named.     *)
Renamed(lines, filename) ==
  IF filename = Unset THEN Without(lines, "Filename")
  ELSE WithValue(lines, "Filename", filename)

Redirected(lines, redirects) ==
  [i \in DOMAIN lines |->
     IF lines[i][1] \in ReferenceFields /\ lines[i][2] \in DOMAIN redirects
     THEN [lines[i] EXCEPT ![2] = redirects[@]] ELSE lines[i]]
-----------------------------------------------------------------------------
(* propagate: a revisit is given the payload type of its original.         *)

IsMediaType(value) == value # IllFormed

Typed(archive) ==
  {i \in DOMAIN archive :
     /\ Declares(archive[i], "response")
     /\ Has(archive[i], "RecordID") /\ Has(archive[i], "IdentifiedPayloadType")
     /\ IsMediaType(First(archive[i], "IdentifiedPayloadType"))}

(* The first of several responses sharing an identifier counts.            *)
PayloadTypes(archive) ==
  [id \in {First(archive[i], "RecordID") : i \in Typed(archive)} |->
     First(archive[Min({i \in Typed(archive) : First(archive[i], "RecordID") = id})],
           "IdentifiedPayloadType")]

Propagated(r, types) ==
  IF /\ Declares(r, "revisit") /\ ~Has(r, "IdentifiedPayloadType")
     /\ Has(r, "RefersTo") /\ First(r, "RefersTo") \in DOMAIN types
  THEN [r EXCEPT !.lines = Inserted(@, "IdentifiedPayloadType", types[First(r, "RefersTo")])]
  ELSE r
-----------------------------------------------------------------------------
(* canonicalize: names are respelled and stably sorted.                    *)

Standardized(line) == IF line[1] \in Field THEN [line EXCEPT ![3] = TRUE] ELSE line

Precedes(lines, j, i) ==
  \/ Rank(lines[j][1]) < Rank(lines[i][1])
  \/ Rank(lines[j][1]) = Rank(lines[i][1]) /\ j < i

Canonical(lines) ==
  [n \in DOMAIN lines |->
     Standardized(lines[CHOOSE i \in DOMAIN lines :
                          Cardinality({j \in DOMAIN lines : Precedes(lines, j, i)}) = n - 1])]
-----------------------------------------------------------------------------
(* digest: payload digests are made again over bodies as they are framed.  *)

HoldsMessage(r) ==
  /\ Declares(r, "request") \/ Declares(r, "response")
  /\ Has(r, "TargetURI") /\ First(r, "TargetURI")[1] \in HttpTargets
  /\ Has(r, "ContentType") => First(r, "ContentType") = "http"

(* The digest of a segment covers the whole of its record.  A digest that  *)
(* cannot be made again is kept.                                           *)
IsRedigested(r) ==
  /\ HoldsMessage(r)
  /\ ~Has(r, "SegmentNumber") /\ Has(r, "PayloadDigest")
  /\ First(r, "PayloadDigest")[1] \in Computed
  /\ First(r, "PayloadDigest")[2] # IllFormed
  /\ r.block \in DOMAIN FramedOf
  /\ First(r, "PayloadDigest")[3] # FramedOf[r.block]

(* Only the first declaration is replaced.                                 *)
Redigested(r) ==
  IF ~IsRedigested(r) THEN r
  ELSE LET place == Min(Places(r.lines, "PayloadDigest"))
       IN  [r EXCEPT !.lines[place][2][3] = FramedOf[r.block]]
-----------------------------------------------------------------------------
(* rewrite: values are set in the block of every warcinfo record.          *)

(* A software is name/version, an operator name <email>: the head is what  *)
(* is before the first separator, if what ends a tail is at the end.       *)
SeparatorOf(f) == IF f = "software" THEN "/" ELSE " <"
IsTailed(f, value) ==
  /\ \E i \in DOMAIN value : value[i] = SeparatorOf(f)
  /\ f = "operator" => value[Len(value)] = ">"

HeadAndTail(f, value) ==
  IF ~IsTailed(f, value) THEN << value >>
  ELSE LET at == Min({i \in DOMAIN value : value[i] = SeparatorOf(f)})
       IN  << SubSeq(value, 1, at - 1),
              SubSeq(value, at + 1, IF f = "operator" THEN Len(value) - 1 ELSE Len(value)) >>

Joined2(f, parts) ==
  IF Len(parts) = 1 THEN parts[1]
  ELSE parts[1] \o <<SeparatorOf(f)>> \o parts[2] \o (IF f = "operator" THEN <<">">> ELSE << >>)

(* Faulty: the value joins those the field has.                            *)
AddedTo(fields, f, value) == Append(fields, <<f, value>>)

(* Body::set.                                                              *)
SetIn(fields, f, value) ==
  LET named == Places(fields, f)
      others == DOMAIN fields \ named
  IN  IF named = {} THEN Append(fields, <<f, value>>)
      ELSE Picked([fields EXCEPT ![Min(named)] = <<f, value>>], others \cup {Min(named)})

CurrentParts(fields, f) ==
  LET named == ValuesOf(fields, f) IN IF named = << >> THEN << >> ELSE HeadAndTail(f, named[1])

(* A head given alone keeps the tail there is; a tail given alone is set   *)
(* where there is one, and is missing a head otherwise.                    *)
MissesPart(fields, f, head, tail) ==
  head = Unset /\ tail # Unset /\ Len(CurrentParts(fields, f)) < 2

SetParts(fields, f, head, tail) ==
  LET current == CurrentParts(fields, f)
      heads == IF head = Unset THEN <<current[1]>> ELSE <<head>>
      tails == IF tail # Unset THEN <<tail>> ELSE IF Len(current) = 2 THEN <<current[2]>> ELSE << >>
  IN  IF head = Unset /\ tail = Unset THEN fields
      ELSE SetIn(fields, f, Joined2(f, heads \o tails))

RewrittenFields(fields, values) ==
  LET software == SetParts(fields, "software", values.name, values.version)
      operator == SetParts(software, "operator", values.operator, values.email)
  IN  IF values.collection = Unset THEN operator ELSE SetIn(operator, "isPartOf", values.collection)

(* Lifting the record, as Records has it: what the standard allows of a    *)
(* warcinfo, and a block of fields.                                        *)
IsWarcinfo(r) ==
  /\ \A i \in DOMAIN r.lines :
       LET f == r.lines[i][1]
       IN  f \in Field =>
             /\ f \in TakenFields("warcinfo") \cup {"WarcType"}
             /\ Len(ValuesOf(r.lines, f)) = 1 /\ r.lines[i][2] # IllFormed
  /\ Has(r, "RecordID") /\ Has(r, "Date") /\ DateFits(First(r, "Date")[2], r.version)
  /\ Has(r, "ContentType") /\ First(r, "ContentType") = "fields"
  /\ ~Has(r, "SegmentNumber")
  /\ r.block[1] = "fields"

CannotRewrite(r, values) ==
  IsWarcinfo(r) =>
    \/ Has(r, "BlockDigest") /\ First(r, "BlockDigest")[1] \notin Computed
    \/ MissesPart(r.block[2], "software", values.name, values.version)
    \/ MissesPart(r.block[2], "operator", values.operator, values.email)

(* Faulty: the digest that is declared is taken for the new block's.       *)
KeptDigest(r, block) == IF Has(r, "BlockDigest") THEN First(r, "BlockDigest")
                                                ELSE <<"sha256", "recommended", block>>

RefreshedDigest(r, block) ==
  <<IF Has(r, "BlockDigest") THEN First(r, "BlockDigest")[1] ELSE "sha256", "recommended", block>>

SetLine(lines, f, value) == <<<<f, value, TRUE>>>> \o Without(lines, f)

Rewritten(r, values) ==
  LET block == <<"fields", RewrittenFields(r.block[2], values)>>
      named == IF values.filename = Unset THEN r.lines ELSE SetLine(r.lines, "Filename", values.filename)
      measured == SetLine(named, "ContentLength", block)
  IN  [r EXCEPT !.block = block,
                !.lines = Canonical(SetLine(measured, "BlockDigest", RefreshedDigest(r, block)))]
-----------------------------------------------------------------------------
(* id: every record is given the identifier derived from it, and what      *)
(* refers to it follows.                                                   *)

NoId == <<"urn", "">>

WrittenId(r) == IF Has(r, "RecordID") /\ First(r, "RecordID") # NoId THEN <<First(r, "RecordID")>> ELSE << >>

DerivedId(r) ==
  LET identity == IdentityAsRead(r.version, r.lines, r.block)
  IN  IF identity = << >> THEN << >> ELSE << <<"derived", identity>> >>

Destination(r) == IF DerivedId(r) # << >> THEN DerivedId(r) ELSE WrittenId(r)

(* RepeatedRecordId, CollidingRecordIds.                                   *)
CannotIdentify(archive) ==
  \E i, j \in DOMAIN archive :
    /\ i < j
    /\ \/ WrittenId(archive[i]) # << >> /\ WrittenId(archive[i]) = WrittenId(archive[j])
       \/ Destination(archive[i]) # << >> /\ Destination(archive[i]) = Destination(archive[j])

Redirects(archive) ==
  LET changing == {i \in DOMAIN archive : WrittenId(archive[i]) # << >>
                                          /\ WrittenId(archive[i]) # Destination(archive[i])}
  IN  [id \in {WrittenId(archive[i])[1] : i \in changing} |->
         Destination(archive[CHOOSE i \in changing : WrittenId(archive[i]) = <<id>>])[1]]

Identified(r, redirects) ==
  LET redirected == [r EXCEPT !.lines = Redirected(@, redirects)]
      id == DerivedId(redirected)
  IN  IF id = << >> THEN redirected
      ELSE IF Has(r, "RecordID") THEN [redirected EXCEPT !.lines = WithValue(@, "RecordID", id[1])]
      ELSE [redirected EXCEPT !.lines = Inserted(@, "RecordID", id[1])]
-----------------------------------------------------------------------------
OperationsInit ==
  /\ source \in Archives /\ file = source
  /\ task = << >> /\ pass = "idle" /\ plan = << >> /\ output = << >> /\ last = << >> /\ tasks = 0
  /\ derived = FALSE

Begin ==
  /\ pass = "idle" /\ tasks < MaxTasks
  /\ task' \in Tasks
  /\ pass' = IF task'[1] \in {"propagate", "id"} THEN "planning" ELSE "copying"
  /\ tasks' = tasks + 1
  /\ UNCHANGED <<source, file, plan, output, last, derived>>

PlanCopy ==
  /\ pass = "planning"
  /\ task[1] = "id" => ~CannotIdentify(file)
  /\ pass' = "copying"
  /\ plan' = IF task[1] = "id" THEN Redirects(file) ELSE PayloadTypes(file)
  /\ UNCHANGED <<source, file, task, output, last, tasks, derived>>

CannotCopy(r) == task[1] = "rewrite" /\ Declares(r, "warcinfo") /\ CannotRewrite(r, task[2])

(* What an operation makes of a record.                                    *)
Copied(r) ==
  CASE task[1] = "propagate"    -> Propagated(r, plan)
    [] task[1] = "canonicalize" -> [r EXCEPT !.lines = Canonical(@)]
    [] task[1] = "digest"       -> Redigested(r)
    [] task[1] = "compress"     ->
         IF Declares(r, "warcinfo") THEN [r EXCEPT !.lines = Renamed(@, task[2])] ELSE r
    [] task[1] = "rewrite"      ->
         IF Declares(r, "warcinfo") THEN Rewritten(r, task[2]) ELSE r
    [] task[1] = "id"           -> Identified(r, plan)

CopyRecord ==
  /\ pass = "copying" /\ Len(output) < Len(file)
  /\ LET r == file[Len(output) + 1]
     IN  ~CannotCopy(r) /\ output' = Append(output, Copied(r))
  /\ UNCHANGED <<source, file, task, pass, plan, last, tasks, derived>>

EndTask == task' = << >> /\ pass' = "idle" /\ plan' = << >> /\ output' = << >>

(* The operation cannot do what it is asked of this file.                  *)
RefuseTask ==
  /\ \/ pass = "planning" /\ task[1] = "id" /\ CannotIdentify(file)
     \/ pass = "copying" /\ Len(output) < Len(file) /\ CannotCopy(file[Len(output) + 1])
  /\ EndTask
  /\ UNCHANGED <<source, file, last, tasks, derived>>

(* The file cannot be read, or the output not be written.                  *)
AbandonTask ==
  /\ pass # "idle"
  /\ EndTask
  /\ UNCHANGED <<source, file, last, tasks, derived>>

PublishTask ==
  /\ pass = "copying" /\ Len(output) = Len(file)
  /\ file' = output
  /\ last' = task
  /\ derived' = (task[1] = "id" \/ (derived /\ task[1] # "rewrite"))
  /\ EndTask
  /\ UNCHANGED <<source, tasks>>

OperationsNext ==
  Begin \/ PlanCopy \/ CopyRecord \/ RefuseTask \/ AbandonTask \/ PublishTask

OperationsSpec == OperationsInit /\ [][OperationsNext]_operationsVars
-----------------------------------------------------------------------------
NamedBy(archive, id) == {j \in DOMAIN archive : WrittenId(archive[j]) = <<id>>}

(* A reference names the record it named before any operation, by whatever *)
(* identifier that record has now; one that named none of the file's is as *)
(* it was, or names a record that was given that identifier since; and no  *)
(* two records come to share an identifier.                                *)
ReferencesFollow ==
  /\ \A i \in DOMAIN source, f \in ReferenceFields :
       LET before == ValuesOf(source[i].lines, f)
           now == ValuesOf(file[i].lines, f)
       IN  /\ Len(now) = Len(before)
           /\ \A k \in DOMAIN before :
                LET named == NamedBy(source, before[k])
                IN  \/ \E j \in named : Cardinality(named) = 1 /\ WrittenId(file[j]) = <<now[k]>>
                    \/ Cardinality(named) # 1 /\ now[k] = before[k]
                    \/ named = {} /\ NamedBy(file, now[k]) # {}
  /\ \A i, j \in DOMAIN file :
       (WrittenId(file[i]) # << >> /\ WrittenId(file[i]) = WrittenId(file[j]))
         => WrittenId(source[i]) = WrittenId(source[j])

(* Once identified, every record has the identifier derived from it, after *)
(* any other operation than the one that changes blocks too.               *)
IdentifiersDerived ==
  derived => \A i \in DOMAIN file : DerivedId(file[i]) # << >> => WrittenId(file[i]) = DerivedId(file[i])

(* However the operations follow each other, identifiers name what they    *)
(* named, and those derived from records stay so.  (id.rs, plan.rs,        *)
(* redirect_references, insert_field, IdentityV1)                          *)
IdentifiersHold == ReferencesFollow /\ IdentifiersDerived

OperatedFields ==
  ReferenceFields \cup {"RecordID", "Filename", "IdentifiedPayloadType", "PayloadDigest", "BlockDigest",
                        "ContentLength"}

FieldsKept(was, is) ==
  \A line \in ToSet(was.lines \o is.lines) :
    line[1] \notin OperatedFields => ValuesOf(was.lines, line[1]) = ValuesOf(is.lines, line[1])

BlockMeasured(was, is) ==
  is.block # was.block =>
    /\ Declares(was, "warcinfo")
    /\ ValuesOf(is.lines, "ContentLength") = <<is.block>>
    /\ First(is, "BlockDigest")[3] = is.block
    /\ \A field \in ToSet(was.block[2]) :
         field[1] \notin {"software", "operator", "isPartOf"}
           => ValuesOf(is.block[2], field[1]) = ValuesOf(was.block[2], field[1])

DigestsKept(was, is) ==
  LET digests(r) == ValuesOf(r.lines, "PayloadDigest")
  IN  /\ DOMAIN digests(is) = DOMAIN digests(was)
      /\ \A k \in DOMAIN digests(is), part \in 1..2 : digests(is)[k][part] = digests(was)[k][part]

PayloadType(r) == ValuesOf(r.lines, "IdentifiedPayloadType")

OriginalsOf(archive, r) ==
  {j \in Typed(archive) : /\ Has(r, "RefersTo")
                          /\ First(archive[j], "RecordID") = First(r, "RefersTo")}

(* Of the first response the revisit refers to, in the file before any     *)
(* operation or, when that response was given the identifier since, now.   *)
TypePropagated(i) ==
  /\ \/ PayloadType(file[i]) = PayloadType(source[i])
     \/ /\ PayloadType(source[i]) = << >> /\ Declares(source[i], "revisit")
        /\ \E originals \in {OriginalsOf(source, source[i]), OriginalsOf(file, file[i])} :
             /\ originals # {}
             /\ PayloadType(file[i]) = <<First(source[Min(originals)], "IdentifiedPayloadType")>>
  /\ /\ last # << >> /\ last[1] = "propagate" /\ Declares(source[i], "revisit")
     /\ \/ OriginalsOf(file, file[i]) # {}
        \/ OriginalsOf(source, source[i]) # {} /\ First(source[i], "RefersTo") # NoId
     => PayloadType(file[i]) # << >>

(* What is not an operation's to change is as it was read, in its order    *)
(* among fields of its name; a length and a block digest are of the block  *)
(* that was written; a payload type is the revisit's own or one that a     *)
(* response it refers to declares, and is there when there is such a       *)
(* response; a payload digest keeps its algorithm and encoding.            *)
(* (the promises of propagate.rs, canonicalize.rs, digest.rs, rewrite.rs)  *)
RecordsPreserved ==
  \A i \in DOMAIN file :
    /\ FieldsKept(source[i], file[i]) /\ BlockMeasured(source[i], file[i])
    /\ DigestsKept(source[i], file[i]) /\ TypePropagated(i)

(* A name given alone, without what follows it in its field, in which that *)
(* field's separator stands.                                               *)
HoldsSeparator(f, head, tail) ==
  head # Unset /\ tail = Unset /\ \E i \in DOMAIN head : head[i] = SeparatorOf(f)

GivesSeparator(t) ==
  /\ t[1] = "rewrite"
  /\ \/ HoldsSeparator("software", t[2].name, t[2].version)
     \/ HoldsSeparator("operator", t[2].operator, t[2].email)

(* An operation that is run again on what it made is not refused and       *)
(* changes nothing, unless it gave a name alone that holds a separator: of *)
(* that one, what is after the separator is taken for a version or an      *)
(* address, and kept beside it.  (all of them; TwoPartField::set)          *)
RunAgainChangesNothing ==
  [][task # << >> /\ task = last =>
       /\ ~RefuseTask
       /\ PublishTask => file' = file \/ GivesSeparator(task)]_operationsVars

TailOf(r, f) ==
  LET parts == CurrentParts(r.block[2], f) IN IF Len(parts) < 2 THEN << >> ELSE parts[2]

(* rewrite.rs:30-32, "a name given alone keeps the version or email        *)
(* address the record already has": what follows the name in the field is  *)
(* what followed it before.  It does not hold of a name with a separator.  *)
(* (TwoPartField::set, TwoPartField::split)                                *)
NameAloneKeepsTail ==
  [][PublishTask /\ task[1] = "rewrite" =>
       \A i \in DOMAIN file : Declares(file[i], "warcinfo") =>
         /\ task[2].name # Unset /\ task[2].version = Unset =>
              TailOf(file'[i], "software") = TailOf(file[i], "software")
         /\ task[2].operator # Unset /\ task[2].email = Unset =>
              TailOf(file'[i], "operator") = TailOf(file[i], "operator")]_operationsVars
=============================================================================
