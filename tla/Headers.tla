------------------------------ MODULE Headers -------------------------------
(***************************************************************************)
(* The header block of a record at its first two levels: raw, its field    *)
(* lines as they are written, and untyped, their values read against the   *)
(* grammar of their field.  (src/parse/, src/version/mod.rs)               *)
(*                                                                         *)
(* A block is a text.  A raw header is [version, headers, length], its     *)
(* headers <<name, value>> with the value as it is written, folds and all, *)
(* and the length that of the body it comes with.                          *)
(***************************************************************************)
EXTENDS Values, Fields

CONSTANTS
  HeaderBlocks,    \* the texts that are read as headers
  Assembled,       \* the raw headers a caller puts together
  VersionOf,       \* [a version line -> its version, or "other" if it has one unknown]
  StandardName,    \* [field -> the name the standard prints]
  LowerName,       \* [field -> its name in lower case]
  LengthOf,        \* [text -> the number of digits it is]
  DigitsOf,        \* [number -> the text it is written as]
  DateIn,          \* [token -> the date it spells]
  UriTokens,       \* the tokens that are URIs
  DigestTokens,    \* the tokens a digest may have as its value
  AddressOf        \* [token -> the IP address it is]

VARIABLES
  level,           \* block, raw, untyped or refused
  block,           \* the text the header was read from, until it is changed
  raw, parsed      \* the header at its levels

headersVars == <<level, block, raw, parsed>>

(* The lines a text has, each up to an LF, and what it ends with.          *)
LinesIn(text) ==
  LET breaks == SelectSeq([i \in DOMAIN text |-> i], LAMBDA i : text[i] = LF)
      start(k) == IF k = 1 THEN 1 ELSE breaks[k - 1] + 1
      crlf(k) == breaks[k] > start(k) /\ text[breaks[k] - 1] = CR
      rest == SubSeq(text, start(Len(breaks) + 1), Len(text))
  IN  [k \in DOMAIN breaks |-> <<SubSeq(text, start(k), breaks[k] - IF crlf(k) THEN 2 ELSE 1),
                                 IF crlf(k) THEN "crlf" ELSE "lf">>]
      \o IF rest = << >> THEN << >> ELSE << <<rest, "cut">> >>
-----------------------------------------------------------------------------
(* The raw level.                                                          *)

FieldName(name) == IF name \in Token THEN NameOf[name] ELSE name

(* next_line: a line ends with CRLF.                                       *)
LineFaults(lines, i) ==
  IF i > Len(lines) THEN <<"UnexpectedEndOfHeaderBlock">>
  ELSE CASE lines[i][2] = "crlf" -> << >>
         [] lines[i][2] = "lf"   -> <<"MalformedFieldLine">>
         [] lines[i][2] = "cut"  -> <<"UnexpectedEndOfHeaderBlock">>

VersionLineFaults(lines) ==
  LET line == lines[1][1]
  IN  IF Len(line) # 1 \/ line[1] \notin DOMAIN VersionOf THEN <<"MalformedVersionLine">>
      ELSE IF VersionOf[line[1]] \notin Versions THEN <<"MalformedVersion">> ELSE << >>

(* The lines a field or the blank line may begin at, the first of them all *)
(* after the version's; and the one that is blank.                         *)
Starts(lines) ==
  SelectSeq([i \in DOMAIN lines |-> i],
            LAMBDA i : i > 1 /\ (i = 2 \/ ~OpensWith(Space, lines[i][1])))
Blank(lines) ==
  LET blank == {i \in DOMAIN lines : i > 1 /\ lines[i][1] = << >>}
  IN  IF blank = {} THEN Len(lines) + 1 ELSE CHOOSE i \in blank : \A j \in blank : i <= j
FieldStarts(lines) == SelectSeq(Starts(lines), LAMBDA i : i < Blank(lines))

FoldsOf(lines, i) ==
  LET next == {j \in (i + 1)..Len(lines) : ~OpensWith(Space, lines[j][1])}
      last == IF next = {} THEN Len(lines) ELSE (CHOOSE j \in next : \A k \in next : j <= k) - 1
  IN  [k \in 1..(last - i) |-> i + k]

(* The value is contiguous: all that follows the colon, line breaks of     *)
(* folds included.                                                         *)
RawField(lines, i) ==
  <<lines[i][1][1],
    SubSeq(lines[i][1], 3, Len(lines[i][1]))
      \o FlattenSeq([k \in DOMAIN FoldsOf(lines, i) |-> <<CR, LF>> \o lines[FoldsOf(lines, i)[k]][1]])>>

(* What validate asks of the k-th field, as parse does of what it reads.   *)
RawFieldFaults(headers, k) ==
  IF headers[k][1] \notin Token \/ HasStrayBreak(headers[k][2]) THEN <<"MalformedFieldLine">>
  ELSE IF FieldName(headers[k][1]) # "ContentLength" THEN << >>
  ELSE IF \E j \in 1..(k - 1) : FieldName(headers[j][1]) = "ContentLength" THEN <<"RepeatedContentLength">>
  ELSE IF Unfolded(headers[k][2]) \notin DOMAIN LengthOf THEN <<"MalformedContentLength">> ELSE << >>

DeclaredLengths(headers) ==
  LET declared == SelectSeq(headers, LAMBDA f : FieldName(f[1]) = "ContentLength")
  IN  [i \in DOMAIN declared |-> LengthOf[Unfolded(declared[i][2])]]
LengthMissing(headers) ==
  IF \E k \in DOMAIN headers : FieldName(headers[k][1]) = "ContentLength" THEN << >>
  ELSE <<"MissingContentLength">>

OpensField(line) == Len(line) > 1 /\ line[1] \in Token /\ line[2] = ":"

ParseHeaderFaults(text) ==
  LET lines == LinesIn(text)
      starts == FieldStarts(lines)
      headers == [k \in DOMAIN starts |-> RawField(lines, starts[k])]
      FaultsAt(k) ==
        LineFaults(lines, starts[k])
        \o IF ~OpensField(lines[starts[k]][1]) THEN <<"MalformedFieldLine">>
           ELSE FlattenSeq([j \in DOMAIN FoldsOf(lines, starts[k]) |->
                             LineFaults(lines, FoldsOf(lines, starts[k])[j])])
                \o RawFieldFaults(headers, k)
  IN  LineFaults(lines, 1)
      \o (IF lines = << >> THEN << >> ELSE VersionLineFaults(lines))
      \o FlattenSeq([k \in DOMAIN starts |-> FaultsAt(k)])
      \o LineFaults(lines, Blank(lines))
      \o IF Blank(lines) < Len(lines) THEN <<"MalformedFieldLine">> ELSE LengthMissing(headers)

ParsedHeader(text) ==
  LET lines == LinesIn(text)
      starts == FieldStarts(lines)
      headers == [k \in DOMAIN starts |-> RawField(lines, starts[k])]
  IN  [version |-> VersionOf[lines[1][1][1]], headers |-> headers, length |-> DeclaredLengths(headers)[1]]

(* validate, of a header and of a record with its body.                    *)
HeaderFaults(h) ==
  FlattenSeq([k \in DOMAIN h.headers |-> RawFieldFaults(h.headers, k)]) \o LengthMissing(h.headers)
RecordFaults(h) ==
  HeaderFaults(h)
  \o IF HeaderFaults(h) = << >> /\ DeclaredLengths(h.headers)[1] # h.length
     THEN <<"ContentLengthMismatch">> ELSE << >>

WrittenHeader(h) ==
  <<CHOOSE line \in DOMAIN VersionOf : VersionOf[line] = h.version, CR, LF>>
  \o FlattenSeq([k \in DOMAIN h.headers |-> <<h.headers[k][1], ":">> \o h.headers[k][2] \o <<CR, LF>>])
  \o <<CR, LF>>

(* rendered_len, every symbol counted as one octet.                        *)
HeaderLength(h) == 3 + Total([k \in DOMAIN h.headers |-> 1 + 1 + Len(h.headers[k][2]) + 2]) + 2
-----------------------------------------------------------------------------
(* The untyped level: a name and how it is spelled, a value and its form.  *)

NameAsRead(name) ==
  LET field == FieldName(name)
  IN  IF field \notin Field THEN [field |-> << >>, spelling |-> <<"Other", name>>]
      ELSE [field |-> <<field>>,
            spelling |-> IF name = LowerName[field] THEN <<"Lower">>
                         ELSE IF name = StandardName[field] THEN <<"Standard">> ELSE <<"Other", name>>]

NameWritten(n) ==
  CASE n.spelling[1] = "Lower"    -> LowerName[n.field[1]]
    [] n.spelling[1] = "Standard" -> StandardName[n.field[1]]
    [] n.spelling[1] = "Other"    -> n.spelling[2]

Canonicalized(n) == IF n.field = << >> THEN n ELSE [n EXCEPT !.spelling = <<"Standard">>]

SameName(n, m) ==
  IF n.field # << >> /\ m.field # << >> THEN n.field = m.field
  ELSE n.field = m.field /\ FieldName(NameWritten(n)) = FieldName(NameWritten(m))

(* A URI may stand in angle brackets, which have to match.                 *)
FormFaults(kind, content) ==
  LET bracketed == OpensWith("<", content)
      inner == IF bracketed THEN SubSeq(content, 2, Len(content) - 1) ELSE content
      closed == content # << >> /\ content[Len(content)] = ">"
      Single(tokens) == IF Len(content) = 1 /\ content[1] \in tokens THEN << >> ELSE <<kind>>
  IN  CASE kind = "Uri"       -> IF bracketed = closed /\ Len(inner) = 1 /\ inner[1] \in UriTokens
                                 THEN << >> ELSE <<"Uri">>
        [] kind = "Date"      -> Single(DOMAIN DateIn)
        [] kind = "Digits"    -> IF content \in DOMAIN LengthOf THEN << >> ELSE <<"Digits">>
        [] kind = "Token"     -> IF IsToken(content) THEN << >> ELSE <<"Token">>
        [] kind = "Digest"    -> IF ~Occurs(":", content) THEN <<"NoSeparator">>
                                 ELSE IF content[1] \notin Token \/ FirstAt(":", content) # 2
                                 THEN <<"MalformedAlgorithm">>
                                 ELSE IF Len(content) # 3 \/ content[Len(content)] \notin DigestTokens
                                 THEN <<"MalformedValue">> ELSE << >>
        [] kind = "MediaType" -> MediaTypeFaults(content)
        [] kind = "Text"      -> TextFaults(content)
        [] kind = "IpAddress" -> Single(DOMAIN AddressOf)

ParsedForm(kind, content) ==
  CASE kind = "Uri"       -> IF OpensWith("<", content) THEN <<"Uri", content[2], TRUE>>
                             ELSE <<"Uri", content[1], FALSE>>
    [] kind = "Date"      -> <<"Date", DateIn[content[1]]>>
    [] kind = "Digits"    -> <<"Digits", LengthOf[content]>>
    [] kind = "MediaType" -> <<"MediaType", ParsedMediaType(content)>>
    [] kind = "Text"      -> <<"Text", ParsedText(content)>>
    [] kind = "IpAddress" -> <<"IpAddress", AddressOf[content[1]]>>
    [] OTHER              -> <<kind, content>>

(* Display of a form; the bytes a value made of one has.                   *)
FormText(form) ==
  CASE form[1] = "Uri"       -> IF form[3] THEN <<"<", form[2], ">">> ELSE <<form[2]>>
    [] form[1] = "Date"      -> <<CHOOSE t \in DOMAIN DateIn : DateIn[t] = form[2]>>
    [] form[1] = "Digits"    -> DigitsOf[form[2]]
    [] form[1] = "MediaType" -> MediaTypeText(form[2])
    [] form[1] = "Text"      -> TextBytes(form[2])
    [] form[1] = "IpAddress" -> <<form[2]>>
    [] OTHER                 -> form[2]

ValueFaults(field, value) ==
  IF HasStrayBreak(value) THEN <<"ControlCharacter">>
  ELSE IF field # << >> THEN FormFaults(FormOf(field[1]), Unfolded(value))
  ELSE IF IsText(Unfolded(value)) THEN << >> ELSE <<"ControlCharacter">>

ParsedValue(field, value) ==
  [raw |-> value, form |-> IF field = << >> THEN << >> ELSE ParsedForm(FormOf(field[1]), Unfolded(value))]

FromForm(form) == [raw |-> <<Space>> \o FormText(form), form |-> form]

UntypedFaults(h) ==
  FlattenSeq([k \in DOMAIN h.headers |->
    ValueFaults(NameAsRead(h.headers[k][1]).field, h.headers[k][2])])

ReadUntyped(h) ==
  [h EXCEPT !.headers = [k \in DOMAIN h.headers |->
    LET name == NameAsRead(h.headers[k][1])
    IN  <<name, ParsedValue(name.field, h.headers[k][2])>>]]

IntoRawHeader(h) ==
  [h EXCEPT !.headers = [k \in DOMAIN h.headers |-> <<NameWritten(h.headers[k][1]), h.headers[k][2].raw>>]]
-----------------------------------------------------------------------------
NoHeader == [version |-> "none", headers |-> << >>, length |-> 0]

HeadersInit ==
  /\ parsed = NoHeader
  /\ \/ level = "block" /\ block \in HeaderBlocks /\ raw = NoHeader
     \/ level = "raw" /\ block = << >> /\ raw \in Assembled

ParseHeader ==
  /\ level = "block"
  /\ IF ParseHeaderFaults(block) = << >>
     THEN level' = "raw" /\ raw' = ParsedHeader(block)
     ELSE level' = "refused" /\ UNCHANGED raw
  /\ UNCHANGED <<block, parsed>>

ReadFields ==
  /\ level = "raw" /\ parsed = NoHeader
  /\ IF UntypedFaults(raw) = << >>
     THEN level' = "untyped" /\ parsed' = ReadUntyped(raw)
     ELSE level' = "refused" /\ UNCHANGED parsed
  /\ UNCHANGED <<block, raw>>

(* Names are respelled, or a value is made of a form anew; either way the  *)
(* header is another text than it was read from.                           *)
Canonicalize ==
  /\ level = "untyped"
  /\ parsed' = [parsed EXCEPT !.headers =
                  [k \in DOMAIN @ |-> <<Canonicalized(@[k][1]), @[k][2]>>]]
  /\ block' = << >>
  /\ UNCHANGED <<level, raw>>

Remake ==
  /\ level = "untyped"
  /\ \E k \in DOMAIN parsed.headers :
       /\ parsed.headers[k][2].form # << >>
       /\ parsed' = [parsed EXCEPT !.headers[k][2] = FromForm(@.form)]
  /\ block' = << >>
  /\ UNCHANGED <<level, raw>>

BackToRaw ==
  /\ level = "untyped"
  /\ level' = "raw"
  /\ raw' = IntoRawHeader(parsed)
  /\ UNCHANGED <<block, parsed>>

HeadersNext == ParseHeader \/ ReadFields \/ Canonicalize \/ Remake \/ BackToRaw
-----------------------------------------------------------------------------
(* A header that may be written reads back as it is, octet for octet, and  *)
(* is as long as it says; one that was read may be written, and is still   *)
(* the text it was read from after a pass through the untyped level.      *)
(* (raw::RecordHeader::parse, validate, rendered_len, write; into_raw)     *)
WritesBack ==
  level = "raw" =>
    /\ HeaderFaults(raw) = << >> =>
         LET text == WrittenHeader(raw)
         IN  /\ ParseHeaderFaults(text) = << >>
             /\ ParsedHeader(text) = [raw EXCEPT !.length = DeclaredLengths(raw.headers)[1]]
             /\ HeaderLength(raw) = Len(text)
    /\ block # << >> => RecordFaults(raw) = << >> /\ WrittenHeader(raw) = block

(* What the untyped level says of a header holds of what it is written as: *)
(* its names denote the same fields, its values have the same forms.       *)
(* (HeaderName, HeaderValue::parse and From<ValueForm>)                    *)
FormsHold ==
  level = "untyped" =>
    LET written == IntoRawHeader(parsed)
        reread == ReadUntyped(written)
    IN  /\ UntypedFaults(written) = << >>
        /\ \A k \in DOMAIN parsed.headers :
             /\ SameName(parsed.headers[k][1], reread.headers[k][1])
             /\ reread.headers[k][2] = parsed.headers[k][2]
        /\ HeaderFaults(raw) = << >> => HeaderFaults(written) = << >>

HeadersReadBack == WritesBack /\ FormsHold
=============================================================================
