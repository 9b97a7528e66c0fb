------------------------------ MODULE TypeNames ------------------------------
(***************************************************************************)
(* Reader and Writer (param_type/reader.rs, writer.rs): a type is read     *)
(* from its name and written to one.  Tuples are read in one pass over the *)
(* characters: a list of members of the outermost tuple, and one list for  *)
(* each tuple opened inside of it.                                         *)
(***************************************************************************)
EXTENDS AbiTypes, Text

(* str::parse of a usize: digits, perhaps behind a plus, that fit. *)
parse_number(s) ==
  LET digits == IF starts_with(s, "+") THEN Tail(s) ELSE s
  IN  IF IsNumeral(digits) /\ NumeralValue(digits) < UsizeSize
      THEN Ok(NumeralValue(digits)) ELSE Err

RECURSIVE read(_)

(* A name that does not end in a bracket or parenthesis. *)
read_word(name) ==
  LET sized(kind) ==
        LET size == parse_number(Tail(name))
        IN  IF IsOk(size) THEN Ok(ParamType(kind, size.val, <<>>)) ELSE size
  IN  CASE name = <<"address">> -> Ok(AddressT)
        [] name = <<"bytes">>   -> Ok(BytesT)
        [] name = <<"bool">>    -> Ok(BoolT)
        [] name = <<"string">>  -> Ok(StringT)
        [] name = <<"tuple">>   -> Ok(TupleT(<<>>))
        [] name = <<"int">>     -> Ok(IntT(256))
        [] name = <<"uint">>    -> Ok(UintT(256))
        [] Len(name) > 1 /\ Head(name) = "int"   -> sized("Int")
        [] Len(name) > 1 /\ Head(name) = "uint"  -> sized("Uint")
        [] Len(name) > 1 /\ Head(name) = "bytes" -> sized("FixedBytes")
        [] OTHER -> Ok(UintT(8))

(* A name that ends in "]".  What is subtracted from the length underflows *)
(* for "]" and "1]", and the slice panics.                                 *)
read_array(name) ==
  LET cs     == chars(name)
      opens  == {0} \cup {k \in 1..(Len(cs) - 1) : cs[k] = "["}
      num    == SubSeq(cs, Max(opens) + 1, Len(cs) - 1)
      size   == parse_number(num)
      inner  == str_slice(name, 0, Len(cs) - Len(num) - 2)
      element == read(inner.val)
  IN  IF num # <<>> /\ ~IsOk(size) THEN size
      ELSE IF ~IsOk(inner) THEN inner
      ELSE IF ~IsOk(element) THEN element
      ELSE Ok(IF num = <<>> THEN ArrayT(element.val)
                            ELSE FixedArrayT(element.val, size.val))

-----------------------------------------------------------------------------
(* The scan of a tuple.  "last" is where the current item starts, "top"    *)
(* the last "(", "subtuples" the members of the tuples inside, and the     *)
(* characters before "resume" have been consumed.                          *)

Scan == [nested |-> 0, top |-> 0, last |-> 1, resume |-> 0,
         subtypes |-> <<>>, subtuples |-> <<>>, status |-> "Ok"]

Stop(scan, outcome) == [scan EXCEPT !.status = outcome]
NextItem(scan, pos) == [scan EXCEPT !.last = pos + 1]

open_paren(scan, pos) ==
  IF scan.nested >= 1
  THEN [NextItem(scan, pos) EXCEPT !.nested = @ + 1, !.top = pos,
                                   !.subtuples = Append(@, <<>>)]
  ELSE [scan EXCEPT !.nested = @ + 1, !.top = pos]

(* subtypes.push *)
push_top(scan, res, pos) ==
  IF IsOk(res) THEN [NextItem(scan, pos) EXCEPT !.subtypes = Append(@, res.val)]
  ELSE Stop(scan, res.status)

(* subtuples[depth].push *)
push_nested(scan, depth, res, pos) ==
  IF IsOk(res)
  THEN [NextItem(scan, pos) EXCEPT !.subtuples[depth] = Append(@, res.val)]
  ELSE Stop(scan, res.status)

(* The members gathered at this depth, and the tuple inside, become a      *)
(* tuple of the outermost list, whatever the depth is.                     *)
take_nested(scan, depth, res, pos) ==
  IF IsOk(res)
  THEN [NextItem(scan, pos) EXCEPT
          !.subtypes = Append(@, TupleT(Append(scan.subtuples[depth], res.val))),
          !.subtuples[depth] = <<>>]
  ELSE Stop(scan, res.status)

(* Two mutants: brackets behind a tuple are left to the next item; and the *)
(* character after the item is taken with it.                              *)
InnerEnd_bare(cs, pos) == pos

InnerEnd_past(cs, pos) ==
  Min({k \in (pos + 1)..Len(cs) : k = Len(cs) \/ cs[k + 1] \in {",", ")"}})

(* Brackets behind a ")" belong to it: up to the next "," or ")". *)
InnerEnd(cs, pos) ==
  Min({k \in pos..(Len(cs) - 1) : k = Len(cs) - 1 \/ cs[k + 2] \in {",", ")"}})

close_paren(name, cs, before, pos) ==
  LET scan  == [before EXCEPT !.nested = @ - 1]
      item  == str_slice(name, scan.last, pos)
      end   == InnerEnd(cs, pos)
      inner == str_slice(name, scan.top, end + 1)
      tuple == IF IsOk(inner) THEN read(inner.val) ELSE inner
      after == [scan EXCEPT !.resume = end + 1]
  IN  IF scan.nested < 0 THEN Stop(scan, "Err")
      ELSE IF ~IsOk(item) THEN Stop(scan, "Panic")
      ELSE IF item.val = <<>> THEN NextItem(scan, pos)
      ELSE CASE scan.nested = 0 -> push_top(scan, read(item.val), pos)
             [] scan.nested = 1 -> push_top(after, tuple, end)
             [] OTHER           -> take_nested(after, scan.nested - 1, tuple, end)

comma(name, scan, pos) ==
  LET item == str_slice(name, scan.last, pos)
  IN  IF ~IsOk(item) THEN Stop(scan, "Panic")
      ELSE IF item.val = <<>> THEN NextItem(scan, pos)
      ELSE CASE scan.nested = 1 -> push_top(scan, read(item.val), pos)
             [] scan.nested > 1 -> push_nested(scan, scan.nested - 1, read(item.val), pos)
             [] OTHER           -> scan

(* A name that ends in ")". *)
read_tuple(name) ==
  LET cs == chars(name)
      step(scan, pos) ==
        IF scan.status # "Ok" \/ pos < scan.resume THEN scan
        ELSE CASE cs[pos + 1] = "(" -> open_paren(scan, pos)
               [] cs[pos + 1] = ")" -> close_paren(name, cs, scan, pos)
               [] cs[pos + 1] = "," -> comma(name, scan, pos)
               [] OTHER             -> scan
      scanned == FoldLeft(step, Scan, [i \in 1..Len(cs) |-> i - 1])
  IN  IF ~starts_with(name, "(") THEN Err
      ELSE IF scanned.status = "Ok" THEN Ok(TupleT(scanned.subtypes))
      ELSE [status |-> scanned.status, val |-> <<>>]

read(name) ==
  CASE ends_with(name, ")") -> read_tuple(name)
    [] ends_with(name, "]") -> read_array(name)
    [] OTHER                -> read_word(name)

-----------------------------------------------------------------------------
RECURSIVE write_for_abi(_, _)
write_for_abi(t, contents) ==
  LET inner == write_for_abi(t.subs[1], contents)
  IN  CASE t.kind = "Address"    -> <<"address">>
        [] t.kind = "Bytes"      -> <<"bytes">>
        [] t.kind = "Bool"       -> <<"bool">>
        [] t.kind = "String"     -> <<"string">>
        [] t.kind = "FixedBytes" -> <<"bytes">> \o Numeral(t.size)
        [] t.kind = "Int"        -> <<"int">> \o Numeral(t.size)
        [] t.kind = "Uint"       -> <<"uint">> \o Numeral(t.size)
        [] t.kind = "FixedArray" -> inner \o <<"[">> \o Numeral(t.size) \o <<"]">>
        [] t.kind = "Array"      -> inner \o <<"[", "]">>
        [] t.kind = "Tuple" /\ ~contents -> <<"tuple">>
        [] OTHER -> <<"(">> \o Joined([i \in DOMAIN t.subs |->
                                         write_for_abi(t.subs[i], contents)]) \o <<")">>

write(t) == write_for_abi(t, TRUE)
=============================================================================
