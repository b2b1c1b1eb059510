------------------------------- MODULE Dates --------------------------------
(***************************************************************************)
(* The date of a record: an instant kept at the precision it was written   *)
(* with.  (src/value/date.rs)                                              *)
(*                                                                         *)
(* An instant is <<year, month, day, hour, minute, second, nanosecond>>;   *)
(* a leap second has nanoseconds past those of its second.  A spelling is  *)
(* the numbers it gives, its fraction as <<how many digits, their number>>,*)
(* and whether it ends with the Z of a time.                               *)
(***************************************************************************)
EXTENDS Integers, SequencesExt

CONSTANTS
  Instants,   \* the instants dates are made of
  Spellings   \* texts that are read as dates: [parts, fraction, zoned]

VARIABLES
  instant,    \* the instant a date was made of, if it was
  date        \* [at, precision], or why there is none

datesVars == <<instant, date>>

NanosPerSecond == 1000000000
Second == <<"second", 0>>
Precisions == {<<"year", 0>>, <<"month", 0>>, <<"day", 0>>, <<"minute", 0>>, Second}
              \cup {<<"fraction", n>> : n \in 0..10}

Power[n \in 0..9] == IF n = 0 THEN 1 ELSE 10 * Power[n - 1]

IsLeapYear(y) == y % 4 = 0 /\ (y % 100 # 0 \/ y % 400 = 0)
DaysIn(y, m) ==
  CASE m \in {4, 6, 9, 11} -> 30 [] m = 2 -> IF IsLeapYear(y) THEN 29 ELSE 28 [] OTHER -> 31

(* Faulty: a leap second keeps its nanoseconds.                            *)
RenderableYear(t) ==
  IF t[1] < 0 THEN <<0, 1, 1, 0, 0, 0, 0>>
  ELSE IF t[1] > 9999 THEN <<9999, 12, 31, 23, 59, 59, NanosPerSecond - 1>>
  ELSE t

(* The nearest instant that has a spelling.                                *)
Renderable(t) ==
  IF t[1] < 0 THEN <<0, 1, 1, 0, 0, 0, 0>>
  ELSE IF t[1] > 9999 THEN <<9999, 12, 31, 23, 59, 59, NanosPerSecond - 1>>
  ELSE IF t[7] >= NanosPerSecond THEN [t EXCEPT ![7] = NanosPerSecond - 1]
  ELSE t

Clamped(n) == IF n < 1 THEN 1 ELSE IF n > 9 THEN 9 ELSE n

(* WarcDate::new: what the precision does not write is dropped.            *)
DateAt(t, precision) ==
  LET at == Renderable(t)
      digits == Clamped(precision[2])
      Upto(k) == [i \in 1..7 |-> IF i <= k THEN at[i] ELSE IF i \in {2, 3} THEN 1 ELSE 0]
  IN  CASE precision[1] = "year"     -> [at |-> Upto(1), precision |-> precision]
        [] precision[1] = "month"    -> [at |-> Upto(2), precision |-> precision]
        [] precision[1] = "day"      -> [at |-> Upto(3), precision |-> precision]
        [] precision[1] = "minute"   -> [at |-> Upto(5), precision |-> precision]
        [] precision[1] = "second"   -> [at |-> Upto(6), precision |-> precision]
        [] precision[1] = "fraction" ->
             [at |-> [at EXCEPT ![7] = at[7] - (at[7] % Power[9 - digits])],
              precision |-> <<"fraction", digits>>]

(* From an instant alone: as few digits as say all of it.                  *)
FromInstant(t) ==
  LET nanos == Renderable(t)[7]
      digits == CHOOSE n \in 1..9 : /\ nanos % Power[9 - n] = 0
                                    /\ n > 1 => nanos % Power[10 - n] # 0
  IN  DateAt(t, IF nanos = 0 THEN Second ELSE <<"fraction", digits>>)

(* to_string_for_version: 1.0 writes whole seconds, whatever the date has. *)
SpellingOf(d, version) ==
  LET parts == CASE version = "1.0" -> 6
                 [] d.precision[1] = "year" -> 1 [] d.precision[1] = "month" -> 2
                 [] d.precision[1] = "day" -> 3 [] d.precision[1] = "minute" -> 5
                 [] OTHER -> 6
      digits == d.precision[2]
  IN  [parts |-> SubSeq(d.at, 1, parts),
       fraction |-> IF version = "1.1" /\ d.precision[1] = "fraction"
                    THEN <<digits, d.at[7] \div Power[9 - digits]>> ELSE <<0, 0>>,
       zoned |-> parts > 3]

IsDateTime(parts) ==
  /\ parts[1] \in 0..9999
  /\ Len(parts) > 1 => parts[2] \in 1..12
  /\ Len(parts) > 2 => parts[3] \in 1..DaysIn(parts[1], parts[2])
  /\ Len(parts) > 3 => parts[4] \in 0..23 /\ parts[5] \in 0..59
  /\ Len(parts) > 5 => parts[6] \in 0..59

(* parse_v1_0 and parse_v1_1: a layout, its precision, and its numbers.    *)
PrecisionOf(s) ==
  CASE Len(s.parts) = 1 -> <<"year", 0>> [] Len(s.parts) = 2 -> <<"month", 0>>
    [] Len(s.parts) = 3 -> <<"day", 0>> [] Len(s.parts) = 5 -> <<"minute", 0>>
    [] OTHER -> IF s.fraction[1] = 0 THEN Second ELSE <<"fraction", s.fraction[1]>>

IsSpelling(s, version) ==
  /\ IF version = "1.0" THEN Len(s.parts) = 6 /\ s.fraction[1] = 0 ELSE Len(s.parts) \in {1, 2, 3, 5, 6}
  /\ s.zoned <=> Len(s.parts) > 3
  /\ s.fraction[1] > 0 => Len(s.parts) = 6 /\ s.fraction[2] < Power[s.fraction[1]]
  /\ IsDateTime(s.parts)

ReadDate(s) ==
  [at |-> [i \in 1..7 |-> IF i <= Len(s.parts) THEN s.parts[i]
                          ELSE IF i = 7 /\ s.fraction[1] > 0 THEN s.fraction[2] * Power[9 - s.fraction[1]]
                          ELSE IF i \in {2, 3} THEN 1 ELSE 0],
   precision |-> PrecisionOf(s)]

NoDate == [at |-> << >>, precision |-> << >>]
-----------------------------------------------------------------------------
DatesInit ==
  \/ \E t \in Instants : /\ instant = t
                         /\ \/ \E p \in Precisions : date = DateAt(t, p)
                            \/ date = FromInstant(t)
  \/ \E s \in Spellings, version \in {"1.0", "1.1"} :
       /\ instant = << >>
       /\ date = IF IsSpelling(s, version) THEN ReadDate(s) ELSE NoDate

(* Written to a record of another version and read from it.                *)
Rewrite ==
  \E version \in {"1.0", "1.1"} :
    /\ date # NoDate
    /\ date' = ReadDate(SpellingOf(date, version))
    /\ instant' = << >>

DatesNext == Rewrite
-----------------------------------------------------------------------------
Before(s, t) == \E i \in 1..7 : s[i] < t[i] /\ \A j \in 1..(i - 1) : s[j] = t[j]

(* A date reads back as it is from a record of version 1.1, and as its     *)
(* second from one of 1.0; it is never after the instant it was made of if *)
(* that has a spelling, and later instants make no earlier dates.          *)
(* (WarcDate::new, From<DateTime>, to_string_for_version and parse)        *)
DatesReadBack ==
  date # NoDate =>
    /\ IsSpelling(SpellingOf(date, "1.1"), "1.1") /\ ReadDate(SpellingOf(date, "1.1")) = date
    /\ IsSpelling(SpellingOf(date, "1.0"), "1.0") /\ ReadDate(SpellingOf(date, "1.0")) = DateAt(date.at, Second)
    /\ instant # << >> =>
         /\ instant[1] >= 0 => ~Before(instant, date.at)
         /\ \A t \in Instants : Before(instant, t) => ~Before(DateAt(t, date.precision).at, date.at)
=============================================================================
