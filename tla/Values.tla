------------------------------- MODULE Values -------------------------------
(***************************************************************************)
(* The values a field can hold that have a structure of their own: text    *)
(* and media types, read from the content of a value and written again.    *)
(* (src/value/text.rs, media_type.rs; unquote of src/parsing.rs)           *)
(***************************************************************************)
EXTENDS Lines

Quote == "\""
Escape == "\\"

IsToken(text) == text # << >> /\ \A i \in DOMAIN text : text[i] \in Token

FirstAt(symbol, text) ==
  LET at == {i \in DOMAIN text : text[i] = symbol}
  IN  IF at = {} THEN 0 ELSE CHOOSE i \in at : \A j \in at : i <= j

TrimOws(text) == Reverse(DropLeading({Space}, Reverse(DropLeading({Space}, text))))
TrimOwsEnd(text) == Reverse(DropLeading({Space}, Reverse(text)))
-----------------------------------------------------------------------------
(* A quoted string: what is between its quotes, and for every symbol there *)
(* whether an escape right before it takes it as it is.                    *)
Inner(value) == SubSeq(value, 2, Len(value) - 1)

IsEscaped(inner) ==
  LET escaped[i \in 0..Len(inner)] == i > 1 /\ inner[i - 1] = Escape /\ ~escaped[i - 1]
  IN  escaped

QuotedFaults(value) ==
  LET inner == Inner(value)
      escaped == IsEscaped(inner)
      At(i) == CASE inner[i] = Escape /\ ~escaped[i] -> IF i = Len(inner) THEN <<"DanglingEscape">> ELSE << >>
                 [] inner[i] = Quote /\ ~escaped[i] -> <<"UnescapedQuote">>
                 [] inner[i] \in Control -> <<"ControlCharacter">>
                 [] OTHER -> << >>
  IN  IF Len(value) < 2 \/ value[1] # Quote \/ value[Len(value)] # Quote THEN <<"Unterminated">>
      ELSE FlattenSeq([i \in DOMAIN inner |-> At(i)])

Unquoted(value) ==
  LET inner == Inner(value)
      escaped == IsEscaped(inner)
  IN  FlattenSeq([i \in DOMAIN inner |-> IF inner[i] = Escape /\ ~escaped[i] THEN << >> ELSE <<inner[i]>>])

Quoted(content) ==
  <<Quote>> \o FlattenSeq([i \in DOMAIN content |->
    IF content[i] \in {Quote, Escape} THEN <<Escape, content[i]>> ELSE <<content[i]>>]) \o <<Quote>>
-----------------------------------------------------------------------------
(* Text is as it is written, or what a quoted string stands for.           *)
TextFaults(value) ==
  IF OpensWith(Quote, value) THEN QuotedFaults(value)
  ELSE IF IsText(value) THEN << >> ELSE <<"ControlCharacter">>

ParsedText(value) ==
  IF OpensWith(Quote, value) THEN [content |-> Unquoted(value), quoted |-> TRUE]
  ELSE [content |-> value, quoted |-> FALSE]

TextBytes(text) == IF text.quoted THEN Quoted(text.content) ELSE text.content
-----------------------------------------------------------------------------
(* A media type.  A semicolon inside a quoted string separates nothing.    *)

Separators(value) ==
  LET mode[i \in 0..Len(value)] ==
        IF i = 0 THEN "out"
        ELSE CASE mode[i - 1] = "escaping" -> "in"
               [] value[i] = Quote -> IF mode[i - 1] = "in" THEN "out" ELSE "in"
               [] value[i] = Escape /\ mode[i - 1] = "in" -> "escaping"
               [] OTHER -> mode[i - 1]
  IN  SelectSeq([i \in DOMAIN value |-> i], LAMBDA i : value[i] = ";" /\ mode[i - 1] = "out")

Essence(value) ==
  LET end == FirstAt(";", value)
  IN  TrimOws(IF end = 0 THEN value ELSE SubSeq(value, 1, end - 1))

(* The content of the k-th parameter, where it starts, and where it ends.  *)
Chunk(value, k) ==
  LET separators == Separators(value)
      from == separators[k] + 1
      to == IF k = Len(separators) THEN Len(value) ELSE separators[k + 1] - 1
      chunk == DropLeading({Space}, SubSeq(value, from, to))
  IN  [content |-> TrimOwsEnd(chunk), start |-> to - Len(chunk) + 1,
       end |-> to - Len(chunk) + Len(TrimOwsEnd(chunk))]

(* What separates it from what comes before, white space included.         *)
ContentEnd(value, k) ==
  IF k > 0 THEN Chunk(value, k).end
  ELSE Len(TrimOwsEnd(SubSeq(value, 1, FirstAt(";", value) - 1)))
Separator(value, k) == SubSeq(value, ContentEnd(value, k - 1) + 1, Chunk(value, k).start - 1)

(* A last semicolon may have nothing after it.                             *)
IsTrailing(value, k) == k = Len(Separators(value)) /\ Chunk(value, k).content = << >>

ParameterFaults(content) ==
  LET equals == FirstAt("=", content)
      value == SubSeq(content, equals + 1, Len(content))
  IN  IF equals = 0 \/ ~IsToken(SubSeq(content, 1, equals - 1)) THEN <<"MalformedParameter">>
      ELSE IF OpensWith(Quote, value)
      THEN IF QuotedFaults(value) # << >> THEN <<"MalformedQuotedValue">>
           ELSE IF Occurs(Undecodable, Unquoted(value)) THEN <<"NonUtf8ParameterValue">> ELSE << >>
      ELSE IF IsToken(value) THEN << >> ELSE <<"MalformedParameter">>

Parameter(value, k) ==
  LET content == Chunk(value, k).content
      equals == FirstAt("=", content)
  IN  [separator |-> Separator(value, k), name |-> SubSeq(content, 1, equals - 1),
       value |-> ParsedText(SubSeq(content, equals + 1, Len(content)))]

MediaTypeFaults(value) ==
  LET essence == Essence(value)
      slash == FirstAt("/", essence)
  IN  IF slash = 0 THEN <<"NoSubtype">>
      ELSE IF ~IsToken(SubSeq(essence, 1, slash - 1)) \/ ~IsToken(SubSeq(essence, slash + 1, Len(essence)))
      THEN <<"MalformedEssence">>
      ELSE FlattenSeq([k \in DOMAIN Separators(value) |->
             IF IsTrailing(value, k) THEN << >> ELSE ParameterFaults(Chunk(value, k).content)])

ParsedMediaType(value) ==
  LET last == Len(Separators(value))
      trailing == last > 0 /\ IsTrailing(value, last)
  IN  [essence |-> Essence(value),
       parameters |-> [k \in 1..(IF trailing THEN last - 1 ELSE last) |-> Parameter(value, k)],
       trailing |-> IF trailing THEN SubSeq(value, ContentEnd(value, last - 1) + 1, Len(value)) ELSE << >>]

MediaTypeText(m) ==
  m.essence \o FlattenSeq([k \in DOMAIN m.parameters |->
    m.parameters[k].separator \o m.parameters[k].name \o <<"=">> \o TextBytes(m.parameters[k].value)])
  \o m.trailing
=============================================================================
