------------------------------- MODULE Lines -------------------------------
(***************************************************************************)
(* The scanning both grammars of named fields share, a record's header and *)
(* a block of warc-fields.  (src/parsing.rs, token.rs of the digest crate) *)
(*                                                                         *)
(* A text is a sequence of symbols.  A symbol is a token, one of the       *)
(* separators, a stretch of other characters, or a control character; a    *)
(* tab is a space.  A line is its text and how it ends: with CRLF, with a  *)
(* bare LF, or cut off by the end of the block.                            *)
(***************************************************************************)
EXTENDS Naturals, SequencesExt

CONSTANTS NameOf    \* [token -> the field that goes by it]: names have no case

Token == DOMAIN NameOf
Space == " "
CR == "\r"
LF == "\n"
Control == {CR, LF, "\f"}
Undecodable == "\\xff"

Occurs(symbol, text) == \E i \in DOMAIN text : text[i] = symbol

Total(numbers) == FoldLeft(LAMBDA m, n : m + n, 0, numbers)

OpensWith(symbol, text) == text # << >> /\ text[1] = symbol

IsText(text) == \A i \in DOMAIN text : text[i] \notin Control

(* A text from its first symbol that is not one of these on.               *)
DropLeading(symbols, text) ==
  LET others == {i \in DOMAIN text : text[i] \notin symbols}
  IN  IF others = {} THEN << >>
      ELSE SubSeq(text, CHOOSE i \in others : \A j \in others : i <= j, Len(text))

TrimLws(text) == DropLeading({Space}, text)

(* trim_white_space: both ends, folds included.                            *)
Trimmed(text) ==
  LET white == {Space, CR, LF}
  IN  Reverse(DropLeading(white, Reverse(DropLeading(white, text))))

(* split_field_line: where the colon after the name is, or 0: the line     *)
(* opens with a token, and only white space stands between the two.        *)
Colon(text) ==
  LET after == {i \in DOMAIN text : i > 1 /\ text[i] # Space}
      first == CHOOSE i \in after : \A j \in after : i <= j
  IN  IF text # << >> /\ text[1] \in Token /\ after # {} /\ text[first] = ":" THEN first ELSE 0

(* A run of white space that a fold makes of a line break stands for one   *)
(* space.  Every CR of the value begins one.                               *)
Unfolded(value) ==
  LET text == Trimmed(value)
      InFold(i) == \E j \in DOMAIN text : /\ text[j] = CR /\ j < i
                                          /\ \A k \in (j + 1)..i : text[k] \in {LF, Space}
  IN  FlattenSeq([i \in DOMAIN text |->
        IF text[i] = CR THEN <<Space>> ELSE IF InFold(i) THEN << >> ELSE <<text[i]>>])

(* stray_line_break: a line break that is not the CRLF of a fold.          *)
HasStrayBreak(value) ==
  \E i \in DOMAIN value :
    \/ value[i] = CR /\ ~(i + 2 <= Len(value) /\ value[i + 1] = LF /\ value[i + 2] = Space)
    \/ value[i] = LF /\ ~(i > 1 /\ value[i - 1] = CR)
=============================================================================
