---------------------------- MODULE FieldsBlocks ----------------------------
(***************************************************************************)
(* The blocks warcinfo and metadata records are written in: named fields,  *)
(* read, changed and written, and the types of a caller they are read as   *)
(* and written from.  (src/record/fields/)                                 *)
(*                                                                         *)
(* A line is <<text, ending>>, a block a sequence of lines of which only   *)
(* the last may be "cut".  A field is <<<<vocabulary, name>>, value>>, its  *)
(* value a text whose folds are joined.                                    *)
(***************************************************************************)
EXTENDS Lines, FiniteSets

CONSTANTS
  FieldsBlock,   \* the blocks that are read
  Values,        \* the texts bodies are given
  Schemas,       \* the types bodies are read as, with values of each: <<schema, values>>
  Shapes,        \* other values that are written as bodies
  NumberOf,      \* [text -> the number it reads as]
  Decimal,       \* [number -> the text it is written as]
  Keys,          \* the names bodies are given fields of
  MaxChanges     \* bound on the changes of one body

VARIABLES
  body,          \* [fields, source], or why there is none
  changes,       \* how many times it was changed
  held           \* the typed value the body was written from, with its type

fieldsVars == <<body, changes, held>>

(* The fields a record type defines come before the vocabulary, the        *)
(* vocabulary before any other, which is named in lower case.              *)
WarcinfoFields ==
  {"operator", "software", "robots", "hostname", "ip", "http-header-user-agent", "http-header-from"}
MetadataFields == {"via", "hopsFromSeed", "fetchTimeMs"}
Known(kind) == CASE kind = "warcinfo" -> WarcinfoFields [] kind = "metadata" -> MetadataFields

Elements ==
  {"contributor", "coverage", "creator", "date", "description", "format", "identifier", "language",
   "publisher", "relation", "rights", "source", "subject", "title", "type"}
DcmiTerms ==
  Elements \cup
  {"abstract", "accessRights", "accrualMethod", "accrualPeriodicity", "accrualPolicy", "alternative",
   "audience", "available", "bibliographicCitation", "conformsTo", "created", "dateAccepted",
   "dateCopyrighted", "dateSubmitted", "educationLevel", "extent", "hasFormat", "hasPart", "hasVersion",
   "instructionalMethod", "isFormatOf", "isPartOf", "isReferencedBy", "isReplacedBy", "isRequiredBy",
   "isVersionOf", "issued", "license", "mediator", "medium", "modified", "provenance", "references",
   "replaces", "requires", "rightsHolder", "spatial", "tableOfContents", "temporal", "valid"}

(* from_name.                                                              *)
FieldNamed(kind, name) ==
  <<IF name \in Known(kind) THEN "known" ELSE IF name \in DcmiTerms THEN "dcmi" ELSE "other", name>>
-----------------------------------------------------------------------------
(* Reading a block.                                                        *)

Content(line) == line[1]
IsContent(text) == ~Occurs(CR, text)

(* A continuation opens with white space, so that none is a field line.    *)
IsFold(line) == OpensWith(Space, Content(line)) /\ IsContent(Content(line))
IsFieldLine(line) == Colon(Content(line)) # 0 /\ IsContent(Content(line))

(* How many lines are read: up to the first that is neither.               *)
LinesRead(block) ==
  IF block = << >> \/ ~IsFieldLine(block[1]) THEN 0
  ELSE CHOOSE n \in DOMAIN block :
         /\ \A i \in 1..n : IsFieldLine(block[i]) \/ IsFold(block[i])
         /\ n < Len(block) => ~(IsFieldLine(block[n + 1]) \/ IsFold(block[n + 1]))

JoinFold(value, text) == (IF value = << >> THEN << >> ELSE Append(value, Space)) \o TrimLws(text)

(* The field of line i and its continuations.                              *)
FieldAt(kind, block, i) ==
  LET text == Content(block[i])
      last == CHOOSE n \in i..LinesRead(block) :
                /\ \A j \in (i + 1)..n : IsFold(block[j])
                /\ n < LinesRead(block) => ~IsFold(block[n + 1])
      folds == [j \in 1..(last - i) |-> Content(block[i + j])]
  IN  <<FieldNamed(kind, NameOf[text[1]]),
        FoldLeft(JoinFold, TrimLws(SubSeq(text, Colon(text) + 1, Len(text))), folds)>>

FieldsOf(kind, block) ==
  LET starts == SelectSeq([i \in 1..LinesRead(block) |-> i], LAMBDA i : IsFieldLine(block[i]))
  IN  [k \in DOMAIN starts |-> FieldAt(kind, block, starts[k])]

(* One blank line may close the block; anything else left is not a field.  *)
Remainder(block) ==
  LET rest == SubSeq(block, LinesRead(block) + 1, Len(block))
  IN  IF rest # << >> /\ Content(rest[1]) = << >> THEN Tail(rest) ELSE rest

ParseFaults(kind, block) ==
  IF Remainder(block) # << >> THEN << <<"NotANamedField", Len(block) - Len(Remainder(block))>> >>
  ELSE LET undecoded == SelectSeq(FieldsOf(kind, block), LAMBDA f : Occurs(Undecodable, f[2]))
       IN  IF undecoded = << >> THEN << >> ELSE << <<"InvalidValue", undecoded[1][1][2]>> >>

(* The block is kept as it was read until the body is changed.             *)
Parsed(kind, block) == [kind |-> kind, fields |-> FieldsOf(kind, block), source |-> <<block>>]
-----------------------------------------------------------------------------
(* Changing a body and writing it.                                         *)

(* check_writable.                                                         *)
IsWritable(field) ==
  /\ field[1][2] \in Token
  /\ IsText(field[2])
  /\ ~OpensWith(Space, field[2])

(* Faulty: the block it was read from is kept.                             *)
ChangedOnly(b, fields) == [b EXCEPT !.fields = fields]

Changed(b, fields) == [b EXCEPT !.fields = fields, !.source = << >>]

Pushed(b, field) == Changed(b, Append(b.fields, field))

(* The first appearance takes the value, and the others go.                *)
SetTo(b, field) ==
  LET same == {i \in DOMAIN b.fields : b.fields[i][1] = field[1]}
      first == CHOOSE i \in same : \A j \in same : i <= j
      kept == SelectSeq([i \in DOMAIN b.fields |-> i], LAMBDA i : i \notin same \/ i = first)
  IN  IF same = {} THEN Pushed(b, field)
      ELSE Changed(b, [k \in DOMAIN kept |-> IF kept[k] = first THEN field ELSE b.fields[kept[k]]])

FieldLine(field) == <<(<<field[1][2], ":", Space>> \o field[2]), "crlf">>

Rendered(b) ==
  IF b.source # << >> THEN b.source[1] ELSE [i \in DOMAIN b.fields |-> FieldLine(b.fields[i])]

(* The length, each symbol counted as one octet, computed without writing. *)
EndLength(ending) == CASE ending = "crlf" -> 2 [] ending = "lf" -> 1 [] ending = "cut" -> 0
BlockOctets(block) ==
  Total([i \in DOMAIN block |-> Len(Content(block[i])) + EndLength(block[i][2])])
RenderedLen(b) ==
  IF b.source # << >> THEN BlockOctets(b.source[1])
  ELSE Total([i \in DOMAIN b.fields |-> 1 + Len(b.fields[i][2]) + 4])

GetAll(b, name) ==
  LET named == SelectSeq(b.fields, LAMBDA f : f[1][2] = name)
  IN  [i \in DOMAIN named |-> named[i][2]]

-----------------------------------------------------------------------------
(* A caller's values and types.  A value is <<shape, content>>: a text, a  *)
(* number, "some" of a value, "none", a newtype of one, a sequence of      *)
(* them, a struct or map of <<key, value>>s, or a shape no line holds.  A  *)
(* type is written in the same way; "letter" is an enumeration of names.   *)

Variants == {<<"one">>, <<"two">>}

(* The lines of one field, one for each element of a sequence; or what     *)
(* keeps it from having lines.                                             *)
RECURSIVE LinesOf(_, _)
LinesOf(v, inSeq) ==
  CASE v[1] \in {"text", "letter"} -> << <<"line", v[2]>> >>
    [] v[1] = "number" -> << <<"line", Decimal[v[2]]>> >>
    [] v[1] = "none" -> << >>
    [] v[1] \in {"some", "newtype"} -> LinesOf(v[2], inSeq)
    [] v[1] = "seq" /\ ~inSeq -> FlattenSeq([i \in DOMAIN v[2] |-> LinesOf(v[2][i], TRUE)])
    [] OTHER -> << <<"fault", "Unsupported">> >>

(* A map's key is a text, if within newtypes; a struct's is one.           *)
RECURSIVE KeyOf(_)
KeyOf(k) ==
  CASE k[1] = "text" -> <<"key", k[2][1]>>
    [] k[1] = "newtype" -> KeyOf(k[2])
    [] OTHER -> <<"fault", "NOT_A_NAME">>

FieldOf(kind, key) == FieldNamed(kind, IF key \in Token THEN NameOf[key] ELSE key)

(* Each line goes through Body::push, and the first to fail is the fault.  *)
EntrySteps(kind, entry) ==
  LET key == KeyOf(entry[1])
      lines == LinesOf(entry[2], FALSE)
  IN  IF key[1] = "fault" THEN <<key>>
      ELSE [i \in DOMAIN lines |->
             IF lines[i][1] = "fault" THEN lines[i]
             ELSE IF IsWritable(<<FieldOf(kind, key[2]), lines[i][2]>>)
             THEN <<"field", <<FieldOf(kind, key[2]), lines[i][2]>>>>
             ELSE <<"fault", "UnwritableField">>]

RECURSIVE StepsOf(_, _)
StepsOf(kind, v) ==
  CASE v[1] \in {"struct", "map"} -> FlattenSeq([i \in DOMAIN v[2] |-> EntrySteps(kind, v[2][i])])
    [] v[1] = "none" -> << >>
    [] v[1] \in {"some", "newtype"} -> StepsOf(kind, v[2])
    [] OTHER -> << <<"fault", "NOT_A_BODY">> >>

ToBodyFaults(kind, v) == SelectSeq(StepsOf(kind, v), LAMBDA step : step[1] = "fault")
ToBody(kind, v) ==
  LET steps == StepsOf(kind, v)
  IN  [kind |-> kind, fields |-> [i \in DOMAIN steps |-> steps[i][2]], source |-> << >>]

(* What all the lines of a field read as; a shape takes one line, a        *)
(* sequence each of them.                                                  *)
RECURSIVE ReadAs(_, _)
ReadAs(type, texts) ==
  LET inner == ReadAs(type[2], texts)
      each == [i \in DOMAIN texts |-> ReadAs(type[2], <<texts[i]>>)]
      failed == SelectSeq(each, LAMBDA r : r[1] = "fault")
  IN  CASE type[1] \in {"text", "number", "letter"} ->
             IF Len(texts) # 1 THEN <<"fault", "RepeatedField">>
             ELSE IF \/ type[1] = "number" /\ texts[1] \notin DOMAIN NumberOf
                     \/ type[1] = "letter" /\ texts[1] \notin Variants
             THEN <<"fault", "UnreadableValue">>
             ELSE <<"ok", <<type[1], IF type[1] = "number" THEN NumberOf[texts[1]] ELSE texts[1]>>>>
        [] type[1] = "option" ->
             IF inner[1] = "fault" THEN inner ELSE <<"ok", <<"some", inner[2]>>>>
        [] type[1] = "newtype" ->
             IF inner[1] = "fault" THEN inner ELSE <<"ok", <<"newtype", inner[2]>>>>
        [] type[1] = "seq" ->
             IF failed # << >> THEN failed[1]
             ELSE <<"ok", <<"seq", [i \in DOMAIN each |-> each[i][2]]>>>>
        [] OTHER -> <<"fault", "Unsupported">>

(* from_body of a struct: a schema is the fields <<name, type, default>>.  *)
(* Fields come in the order the body first has them, those it lacks after. *)
Lacking(field) ==
  CASE field[2][1] = "option" -> <<"ok", <<"none", 0>>>>
    [] field[3] -> <<"ok", <<"seq", << >>>>>>
    [] OTHER -> <<"fault", "Message">>

FromBody(schema, b) ==
  LET Names(fields) == [i \in DOMAIN fields |-> fields[i][1][2]]
      read == [i \in DOMAIN schema |->
                 LET texts == GetAll(b, schema[i][1])
                 IN  IF texts = << >> THEN Lacking(schema[i]) ELSE ReadAs(schema[i][2], texts)]
      FaultOf(name) == SelectSeq([i \in DOMAIN schema |-> <<schema[i][1], read[i]>>],
                                 LAMBDA r : r[1] = name /\ r[2][1] = "fault")
      faults == FlattenSeq([k \in DOMAIN Names(b.fields) |-> FaultOf(Names(b.fields)[k])])
                \o SelectSeq([i \in DOMAIN schema |-> <<schema[i][1], read[i]>>],
                             LAMBDA r : r[2][1] = "fault")
  IN  IF faults # << >> THEN faults[1][2] ELSE <<"ok", [i \in DOMAIN read |-> read[i][2]]>>
-----------------------------------------------------------------------------
(* A body is read or written from a value, then changed; a block or value  *)
(* that is refused makes none.                                             *)
Refused(kind) == [kind |-> kind, fields |-> << >>, source |-> << >>]

ReadFrom(kind, block) ==
  /\ held = << >>
  /\ body = IF ParseFaults(kind, block) = << >> THEN Parsed(kind, block) ELSE Refused(kind)

WrittenFrom(kind, v, typed) ==
  LET written == ToBodyFaults(kind, v) = << >>
  IN  /\ body = IF written THEN ToBody(kind, v) ELSE Refused(kind)
      /\ held = IF written THEN typed ELSE << >>

StructOf(schema, values) ==
  <<"struct", [i \in DOMAIN schema |-> <<<<"text", <<schema[i][1]>>>>, values[i]>>]>>

FieldsInit ==
  /\ changes = 0
  /\ \E kind \in {"warcinfo", "metadata"} :
       \/ \E block \in FieldsBlock : ReadFrom(kind, block)
       \/ \E pair \in Schemas : \E values \in pair[2] :
            WrittenFrom(kind, StructOf(pair[1], values), <<pair[1], values>>)
       \/ \E v \in Shapes : WrittenFrom(kind, v, << >>)

Change(b) ==
  /\ changes < MaxChanges
  /\ body' = b
  /\ changes' = changes + 1
  /\ held' = << >>

(* push and set: a field that cannot be written changes nothing.           *)
Push ==
  \E key \in Keys, value \in Values :
    LET field == <<FieldOf(body.kind, key), value>>
    IN  IsWritable(field) /\ Change(Pushed(body, field))

SetField ==
  \E key \in Keys, value \in Values :
    LET field == <<FieldOf(body.kind, key), value>>
    IN  IsWritable(field) /\ Change(SetTo(body, field))

(* Written and read again.                                                 *)
Reread == body.source = << >> /\ Change(Parsed(body.kind, Rendered(body)))

FieldsNext == Push \/ SetField \/ Reread
-----------------------------------------------------------------------------
(* A body is written so that it reads as it is, whether as the block it    *)
(* was read from or, once it is changed, line by line; and is as long as   *)
(* it says it is.                                                          *)
(* (Body::parse, push, set, rendered_len and its Display)                  *)
BodyReadsBack ==
  LET block == Rendered(body)
  IN  /\ ParseFaults(body.kind, block) = << >>
      /\ FieldsOf(body.kind, block) = body.fields
      /\ RenderedLen(body) = BlockOctets(block)

(* What a line holds of a value: an absent element has none, and optional  *)
(* sequence without elements is absent.                                    *)
RECURSIVE Kept(_)
Kept(v) ==
  CASE v[1] = "seq" ->
         <<"seq", SelectSeq([i \in DOMAIN v[2] |-> Kept(v[2][i])], LAMBDA e : e[1] # "none")>>
    [] v[1] = "some" -> IF Kept(v[2]) = <<"seq", << >>>> THEN <<"none", 0>> ELSE <<"some", Kept(v[2])>>
    [] OTHER -> v

(* A value a caller writes as a body reads back as the value it was, if    *)
(* every field without a line may be absent.                               *)
(* (to_body and from_body)                                                 *)
ValueReadsBack ==
  held # << >> =>
    LET schema == held[1]
        kept == [i \in DOMAIN held[2] |-> Kept(held[2][i])]
        absent == {i \in DOMAIN schema : LinesOf(held[2][i], FALSE) = << >>}
    IN  IF \A i \in absent : Lacking(schema[i])[1] = "ok"
        THEN FromBody(schema, body) = <<"ok", kept>>
        ELSE FromBody(schema, body) = <<"fault", "Message">>

(* No block of fields and no typed value changes by being written.         *)
FieldsReadBack == BodyReadsBack /\ ValueReadsBack
=============================================================================
