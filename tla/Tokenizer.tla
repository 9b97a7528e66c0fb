----------------------------- MODULE Tokenizer -----------------------------
(***************************************************************************)
(* Values as text: the tokenizers (token/mod.rs, strict.rs, lenient.rs)    *)
(* and the Display of tokens (token.rs).  The scanners of arrays and       *)
(* tuples look for the commas and brackets between their items in one pass *)
(* over the characters, and tokenize the text in between.                  *)
(***************************************************************************)
EXTENDS AbiTypes, Text

CONSTANTS
  HexBase,     \* hexadecimal digits: 16 in the code
  Ten,         \* decimal digits: 10
  Decimals,    \* digits that an ether, a gwei and a wei have: 18, 9 and 0
  Charset      \* the character of each byte: Charset[b + 1]

(* A byte is written in two digits, and decimal digits are hex digits. *)
ASSUME DigitsAssumption == /\ HexBase * HexBase = Radix
                           /\ Ten \in 2..HexBase /\ HexBase <= 16

ASSUME CharsetAssumption == /\ Len(Charset) = Radix
                            /\ \A i, j \in DOMAIN Charset : Charset[i] = Charset[j] => i = j

Prefix == "0x"
Quote  == "\""

RECURSIVE Power(_, _)
Power(base, n) == IF n = 0 THEN 1 ELSE base * Power(base, n - 1)

MaxUint == Power(Radix, WordLen) - 1

-----------------------------------------------------------------------------
(* Bytes and integers as text. *)

AllDigits(s, base) == \A i \in DOMAIN s : s[i] \in DOMAIN Digit /\ Digit[s[i]] < base

as_bytes(s) == [i \in DOMAIN s |-> CHOOSE b \in Byte : Charset[b + 1] = s[i]]
from_bytes(bytes) == [i \in DOMAIN bytes |-> Charset[bytes[i] + 1]]

hex_decode(s) ==
  IF Len(s) % 2 = 1 \/ ~AllDigits(s, HexBase) THEN Err
  ELSE Ok([i \in 1..(Len(s) \div 2) |-> HexBase * Digit[s[2 * i - 1]] + Digit[s[2 * i]]])

hex_encode(bytes) ==
  FlattenSeq([i \in DOMAIN bytes |-> << HexDigits[(bytes[i] \div HexBase) + 1],
                                        HexDigits[(bytes[i] % HexBase) + 1] >>])

Word(n) == [i \in 1..WordLen |-> (n \div Power(Radix, WordLen - i)) % Radix]
Number(w) == FoldLeft(LAMBDA n, byte : Radix * n + byte, 0, w)

(* Uint: arithmetic is checked, and a result of -1 stands for None. *)
None == -1
checked_mul(a, b) == IF a = None \/ (a > 0 /\ b > MaxUint \div a) THEN None ELSE a * b
checked_add(a, b) == IF a = None \/ a > MaxUint - b THEN None ELSE a + b

(* No digits at all are a zero. *)
from_dec_str(s) ==
  LET add(n, c) == checked_add(checked_mul(n, Ten), Digit[c])
      n == FoldLeft(LAMBDA sum, c : IF sum = None THEN None ELSE add(sum, c), 0, s)
  IN  IF ~AllDigits(s, Ten) THEN None ELSE n

-----------------------------------------------------------------------------
(* StrictTokenizer. *)

(* A mutant: fewer bytes are copied to the front of the array. *)
exactly_short(n, s) ==
  LET hex == hex_decode(s)
  IN  IF ~IsOk(hex) THEN hex
      ELSE IF Len(hex.val) > n THEN Err ELSE Ok(hex.val \o Zeros(n - Len(hex.val)))

(* tokenize_address, tokenize_fixed_bytes and tokenize_uint. *)
exactly(n, s) ==
  LET hex == hex_decode(s)
  IN  IF IsOk(hex) /\ Len(hex.val) # n THEN Err ELSE hex

tokenize_bool(s) ==
  CASE s \in {<<"true">>, <<"1">>}  -> Ok(<<1>>)
    [] s \in {<<"false">>, <<"0">>} -> Ok(<<0>>)
    [] OTHER -> Err

-----------------------------------------------------------------------------
(* LenientTokenizer: decimals, with a unit or a sign. *)

Units == DOMAIN Decimals

(* The number in front of blanks and a unit. *)
Amount(s) ==
  LET body == Front(s)
      ends == {k \in DOMAIN body : body[k] # " "}
  IN  SubSeq(body, 1, Max({0} \cup ends))

(* "Number[Spaces]Unit": a numeral, or two with a point between them. *)
Point(s) == Min({k \in DOMAIN s : s[k] = "."} \cup {Len(s) + 1})
Integer(s)  == SubSeq(s, 1, Point(s) - 1)
Fraction(s) == SubSeq(s, Point(s) + 1, Len(s))

IsQuantity(s) ==
  /\ s # <<>> /\ Last(s) \in Units
  /\ LET amount == Amount(s)
     IN  /\ Integer(amount) # <<>> /\ AllDigits(Integer(amount), Ten)
         /\ Point(amount) <= Len(amount) => /\ Fraction(amount) # <<>>
                                            /\ AllDigits(Fraction(amount), Ten)

(* A mutant: a fraction scaled as if it had one digit less. *)
quantity_scaled(s) ==
  LET amount   == Amount(s)
      units    == Decimals[Last(s)]
      fraction == Fraction(amount)
      integer  == checked_mul(from_dec_str(Integer(amount)), Power(Ten, units))
      scaled   == checked_mul(from_dec_str(fraction), Power(Ten, units - Len(fraction) + 1))
  IN  IF fraction = <<>> THEN integer
      ELSE IF Len(fraction) > units \/ scaled = None THEN None
      ELSE checked_add(integer, scaled)

quantity(s) ==
  LET amount   == Amount(s)
      units    == Decimals[Last(s)]
      fraction == Fraction(amount)
      integer  == checked_mul(from_dec_str(Integer(amount)), Power(Ten, units))
      scaled   == checked_mul(from_dec_str(fraction), Power(Ten, units - Len(fraction)))
  IN  IF fraction = <<>> THEN integer
      ELSE IF Len(fraction) > units \/ scaled = None THEN None
      ELSE checked_add(integer, scaled)

(* A mutant: what looks like a decimal is one. *)
lenient_uint_decimal(s) ==
  LET number == IF from_dec_str(s) # None THEN from_dec_str(s)
                ELSE IF IsQuantity(s) THEN quantity(s) ELSE None
  IN  IF number = None THEN exactly(WordLen, s) ELSE Ok(Word(number))

(* A hexadecimal word is one, even if it looks like a decimal. *)
lenient_uint(s) ==
  LET strict == exactly(WordLen, s)
      number == IF from_dec_str(s) # None THEN from_dec_str(s)
                ELSE IF IsQuantity(s) THEN quantity(s) ELSE None
  IN  IF IsOk(strict) THEN strict
      ELSE IF number = None THEN Err ELSE Ok(Word(number))

(* Half of the words are negative, in two's complement. *)
lenient_int(s) ==
  LET strict == exactly(WordLen, s)
      digits == {k \in DOMAIN s : s[k] # "-"}
      abs    == from_dec_str(SubSeq(s, Min(digits \cup {Len(s) + 1}), Len(s)))
      limit  == MaxUint \div 2
  IN  IF IsOk(strict) THEN strict
      ELSE IF abs = None THEN Err
      ELSE IF starts_with(s, "-")
           THEN IF abs = 0 THEN Ok(Word(0))
                ELSE IF abs > limit + 1 THEN Err ELSE Ok(Word((MaxUint - abs) + 1))
           ELSE IF abs > limit THEN Err ELSE Ok(Word(abs))

-----------------------------------------------------------------------------
(* The scan of a list.  "nested" counts its own brackets, "inner" the open *)
(* brackets of the other kind and "start" where the first one is, "last"   *)
(* is where the current item starts; "ignore" is true inside of quotes,    *)
(* and "behind" when the item has been taken with its own brackets.        *)

Scanning == [nested |-> 0, inner |-> 0, start |-> 1, last |-> 1, ignore |-> FALSE,
             behind |-> FALSE, result |-> <<>>, status |-> "Ok"]

Toggle(scan) == [scan EXCEPT !.behind = ~@]

push(scan, item) ==
  IF IsOk(item) THEN [scan EXCEPT !.result = Append(@, item.val)]
  ELSE [scan EXCEPT !.status = item.status]

RECURSIVE tokenize(_, _, _)

(* The text from..to-1 as the next item; "ts" are the types of the items. *)
item(value, from, to, ts, scan, lenient) ==
  LET sub == str_slice(value, from, to)
      n   == Len(scan.result) + 1
  IN  IF ~IsOk(sub) THEN sub
      ELSE IF n \notin DOMAIN ts THEN Err
      ELSE tokenize(ts[n], sub.val, lenient)

(* A bracket of the other kind opens or closes.  In a tuple, brackets that *)
(* close inside of parentheses are only counted.                           *)
inner_open(scan, pos) ==
  [scan EXCEPT !.inner = @ + 1, !.start = IF scan.inner = 0 THEN pos ELSE @]

inner_close(value, ts, scan, pos, lenient) ==
  LET n == scan.inner - 1
  IN  CASE n < 0 -> [scan EXCEPT !.status = "Err"]
        [] n = 0 -> Toggle(push([scan EXCEPT !.inner = 0],
                                item(value, scan.start, pos + 1, ts, scan, lenient)))
        [] n > 0 -> [scan EXCEPT !.inner = n]

(* A mutant: the next item starts one character too far. *)
end_item_after(value, ts, scan, pos, lenient) ==
  [push(scan, item(value, scan.last, pos, ts, scan, lenient)) EXCEPT !.last = pos + 2]

(* The item that started at "last" ends here. *)
end_item(value, ts, scan, pos, lenient) ==
  [push(scan, item(value, scan.last, pos, ts, scan, lenient)) EXCEPT !.last = pos + 1]

(* A mutant: an item with brackets of its own is taken again at the end. *)
own_close_again(value, ts, scan, pos, lenient) ==
  LET closed == [scan EXCEPT !.nested = @ - 1]
  IN  IF closed.nested = 0 THEN end_item(value, ts, closed, pos, lenient) ELSE closed

(* One of the list's own brackets closes. *)
own_close(value, ts, scan, pos, lenient) ==
  LET closed == [scan EXCEPT !.nested = @ - 1]
  IN  IF scan.behind THEN Toggle(closed)
      ELSE CASE closed.nested < 0 -> [closed EXCEPT !.status = "Err"]
             [] closed.nested = 0 -> end_item(value, ts, closed, pos, lenient)
             [] closed.nested > 0 -> closed

(* A character outside of inner brackets; inside of quotes only a quote    *)
(* counts.                                                                 *)
own_char(value, ts, own, scan, pos, lenient) ==
  LET c == chars(value)[pos + 1]
  IN  CASE c = Quote -> [scan EXCEPT !.ignore = ~@]
        [] c = own[1] /\ ~scan.ignore -> [scan EXCEPT !.nested = @ + 1]
        [] c = own[2] /\ ~scan.ignore -> own_close(value, ts, scan, pos, lenient)
        [] c = "," /\ scan.nested = 1 /\ ~scan.ignore ->
             IF scan.behind THEN Toggle(scan) ELSE end_item(value, ts, scan, pos, lenient)
        [] OTHER -> scan

(* What the scan of a text that has the list's brackets around it found. *)
Scanned(value, own, scan) ==
  IF ~(starts_with(value, own[1]) /\ ends_with(value, own[2])) THEN Err
  ELSE IF Len(chars(value)) = 2 THEN Ok(<<>>)
  ELSE IF scan.status # "Ok" THEN [status |-> scan.status, val |-> <<>>]
  ELSE IF scan.ignore THEN Err ELSE Ok(scan.result)

Positions(value) == [k \in 1..Len(chars(value)) |-> k - 1]

(* Types that are left over when the text ends are not missed. *)
tokenize_struct(value, ts, lenient) ==
  LET step(scan, pos) ==
        LET c == chars(value)[pos + 1]
        IN  IF scan.status # "Ok" THEN scan
            ELSE IF c = "[" /\ ~scan.ignore THEN inner_open(scan, pos)
            ELSE IF c = "]" /\ ~scan.ignore
                 THEN IF scan.nested > 0 THEN [scan EXCEPT !.inner = @ - 1]
                      ELSE inner_close(value, ts, scan, pos, lenient)
            ELSE IF scan.inner # 0 THEN scan
            ELSE own_char(value, ts, <<"(", ")">>, scan, pos, lenient)
  IN  Scanned(value, <<"(", ")">>, FoldLeft(step, Scanning, Positions(value)))

tokenize_array(value, t, lenient) ==
  LET ts == [n \in DOMAIN value |-> t]
      step(scan, pos) ==
        LET c == chars(value)[pos + 1]
        IN  IF scan.status # "Ok" THEN scan
            ELSE IF c = "(" /\ ~scan.ignore THEN inner_open(scan, pos)
            ELSE IF c = ")" /\ ~scan.ignore THEN inner_close(value, ts, scan, pos, lenient)
            ELSE IF scan.inner # 0 THEN scan
            ELSE own_char(value, ts, <<"[", "]">>, scan, pos, lenient)
  IN  Scanned(value, <<"[", "]">>, FoldLeft(step, Scanning, Positions(value)))

tokenize_fixed_array(value, t, n, lenient) ==
  LET res == tokenize_array(value, t, lenient)
  IN  IF IsOk(res) /\ Len(res.val) # n THEN Err ELSE res

strip_prefix(s) == IF starts_with(s, Prefix) THEN Tail(s) ELSE s

tokenize(t, value, lenient) ==
  LET leaf(res) == IF IsOk(res) THEN Ok(Token(t.kind, res.val, <<>>)) ELSE res
      node(res) == IF IsOk(res) THEN Ok(Token(t.kind, <<>>, res.val)) ELSE res
  IN  CASE t.kind = "Address"    -> leaf(exactly(WordLen - AddrPad, strip_prefix(value)))
        [] t.kind = "String"     -> leaf(Ok(as_bytes(value)))
        [] t.kind = "Bool"       -> leaf(tokenize_bool(value))
        [] t.kind = "Bytes"      -> leaf(hex_decode(strip_prefix(value)))
        [] t.kind = "FixedBytes" -> leaf(exactly(t.size, strip_prefix(value)))
        [] t.kind = "Uint" -> leaf(IF lenient THEN lenient_uint(value) ELSE exactly(WordLen, value))
        [] t.kind = "Int"  -> leaf(IF lenient THEN lenient_int(value) ELSE exactly(WordLen, value))
        [] t.kind = "Array"      -> node(tokenize_array(value, t.subs[1], lenient))
        [] t.kind = "FixedArray" -> node(tokenize_fixed_array(value, t.subs[1], t.size, lenient))
        [] t.kind = "Tuple"      -> node(tokenize_struct(value, t.subs, lenient))

-----------------------------------------------------------------------------
(* Display. *)

(* {:x} of an integer: no zeros in front, and no prefix. *)
lower_hex(w) ==
  LET digits == hex_encode(w)
      first  == Min({k \in DOMAIN digits : digits[k] # "0"} \cup {Len(digits)})
  IN  SubSeq(digits, first, Len(digits))

RECURSIVE display(_)
display(token) ==
  LET parts == Joined([i \in DOMAIN token.subs |-> display(token.subs[i])])
  IN  CASE token.kind = "Bool"   -> IF token.val = <<1>> THEN <<"true">> ELSE <<"false">>
        [] token.kind = "String" -> from_bytes(token.val)
        [] token.kind \in {"Address", "Bytes", "FixedBytes"} -> hex_encode(token.val)
        [] token.kind \in {"Uint", "Int"} -> lower_hex(token.val)
        [] token.kind \in {"Array", "FixedArray"} -> <<"[">> \o parts \o <<"]">>
        [] token.kind = "Tuple" -> <<"(">> \o parts \o <<")">>
=============================================================================
