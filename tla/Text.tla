-------------------------------- MODULE Text --------------------------------
(***************************************************************************)
(* Strings as the crate handles them.  A text is a sequence of bytes; a    *)
(* byte is named by its character, a keyword counts as one, and a          *)
(* character outside of ASCII is two bytes, Lead and Cont.  Slices are cut *)
(* at byte positions, and cutting inside of a character panics, but the    *)
(* scanners of the crate count characters (chars().enumerate()).           *)
(***************************************************************************)
EXTENDS Integers, Results, SequencesExt

Lead == "lead"
Cont == "cont"

IsAscii(s) == Cont \notin Range(s)

(* The characters of s, each named by its first byte. *)
chars(s) == SelectSeq(s, LAMBDA byte : byte # Cont)

is_char_boundary(s, at) == at = Len(s) \/ s[at + 1] # Cont

(* &s[from..to] *)
str_slice(s, from, to) ==
  IF /\ 0 <= from /\ from <= to /\ to <= Len(s)
     /\ is_char_boundary(s, from) /\ is_char_boundary(s, to)
  THEN Ok(SubSeq(s, from + 1, to)) ELSE Panic

starts_with(s, c) == s # <<>> /\ Head(s) = c
ends_with(s, c)   == s # <<>> /\ Last(s) = c

(* Texts with commas between them. *)
Joined(texts) ==
  FlattenSeq([i \in DOMAIN texts |-> IF i = 1 THEN texts[i] ELSE <<",">> \o texts[i]])

-----------------------------------------------------------------------------
(* Digits and numbers. *)

HexDigits == << "0", "1", "2", "3", "4", "5", "6", "7",
                "8", "9", "a", "b", "c", "d", "e", "f" >>
Digit  == [c \in Range(HexDigits) |-> (CHOOSE i \in 1..16 : HexDigits[i] = c) - 1]
Decimal == {HexDigits[i] : i \in 1..10}

IsNumeral(s) == s # <<>> /\ Range(s) \subseteq Decimal

NumeralValue(s) == FoldLeft(LAMBDA n, c : 10 * n + Digit[c], 0, s)

RECURSIVE Numeral(_)
Numeral(n) ==
  (IF n < 10 THEN <<>> ELSE Numeral(n \div 10)) \o <<HexDigits[(n % 10) + 1]>>
=============================================================================
