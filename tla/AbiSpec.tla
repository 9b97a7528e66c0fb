------------------------------ MODULE AbiSpec ------------------------------
(***************************************************************************)
(* What an ABI encoding is, stated apart from the code: the head/tail      *)
(* layout of the contract ABI specification, by the types alone, with      *)
(* offsets measured on the parts that are laid out and never predicted,    *)
(* and with numbers that do not wrap.                                      *)
(***************************************************************************)
EXTENDS AbiTokens, SequencesExt

Power[k \in Nat] == IF k = 0 THEN 1 ELSE Radix * Power[k - 1]

(* n as a whole word, and n mod Radix^WordLen if it is too large for one. *)
NumberWord(n) == [i \in 1..WordLen |-> (n \div Power[WordLen - i]) % Radix]

PadRight(bytes) == bytes \o Zeros(WordsFor(Len(bytes)) * WordLen - Len(bytes))

TotalLen(seqs) == Total[[i \in DOMAIN seqs |-> Len(seqs[i])]]

(* The heads of values in a row, then their tails: a value of a dynamic    *)
(* type has the offset of its tail for a head.                             *)
Layout(encs, dynamic) ==
  LET tails == [i \in DOMAIN encs |-> IF dynamic[i] THEN encs[i] ELSE <<>>]
      sizes == [i \in DOMAIN encs |-> IF dynamic[i] THEN Zeros(WordLen) ELSE encs[i]]
      offset(i) == TotalLen(sizes) + TotalLen(SubSeq(tails, 1, i - 1))
      heads == [i \in DOMAIN encs |-> IF dynamic[i] THEN NumberWord(offset(i)) ELSE encs[i]]
  IN  FlattenSeq(heads) \o FlattenSeq(tails)

(* The components of a value of type t, and the type of the i-th.          *)
Parts(t, token) ==
  IF t.kind \in {"Array", "FixedArray"} THEN DOMAIN token.subs ELSE DOMAIN t.subs

TypeOf(t, i) == t.subs[IF t.kind = "Tuple" THEN i ELSE 1]

(* A token that stands for a value of type t.  A check also passes tuples  *)
(* with too few members, and a bytesN with fewer bytes than N, even with   *)
(* none, from which the encoder makes no word; the encoder knows a dynamic *)
(* type by the elements, if there are any; and decode takes every bytesN   *)
(* for one word.                                                           *)
is_value[t \in ParamTypes] == [token \in Tokens |->
  LET n == Len(token.subs)
      m == Len(token.val)
  IN  /\ token.kind = t.kind
      /\ t.kind \in {"Array", "FixedArray", "Tuple"} =>
           token.val = <<>> /\ \A i \in 1..n : is_value[TypeOf(t, i)][token.subs[i]]
      /\ t.kind \notin {"Array", "FixedArray", "Tuple"} => token.subs = <<>>
      /\ CASE t.kind = "Address"         -> m = WordLen - AddrPad
           [] t.kind \in {"Int", "Uint"} -> m = WordLen
           [] t.kind = "Bool"            -> token.val \in {<<0>>, <<1>>}
           [] t.kind = "FixedBytes"      -> m \in 1..t.size /\ t.size <= WordLen
           [] t.kind = "Bytes"           -> TRUE
           [] t.kind = "String"          -> \A i \in 1..m : token.val[i] \notin InvalidUtf8
           [] t.kind = "Array"           -> n < U32
           [] t.kind = "FixedArray"      -> n = t.size /\ (n = 0 => t \notin DynamicTypes)
           [] t.kind = "Tuple"           -> n = Len(t.subs)]

(* A value as it is read: a bytesN has its full length. *)
as_read[t \in ParamTypes] == [token \in Tokens |->
  IF t.kind = "FixedBytes"
  THEN [token EXCEPT !.val = @ \o Zeros(t.size - Len(@))]
  ELSE [token EXCEPT
         !.subs = [i \in Parts(t, token) |-> as_read[TypeOf(t, i)][@[i]]]]]

has_bool[t \in ParamTypes] ==
  t.kind = "Bool" \/ \E i \in DOMAIN t.subs : has_bool[t.subs[i]]

(* A value that is read as it is. *)
Settled(t, token) == is_value[t][token] /\ as_read[t][token] = token

(* The encoding of a value of type t. *)
enc[t \in ParamTypes] == [token \in Tokens |->
  LET parts == Parts(t, token)
      row   == Layout([i \in parts |-> enc[TypeOf(t, i)][token.subs[i]]],
                      [i \in parts |-> TypeOf(t, i) \in DynamicTypes])
  IN  CASE t.kind = "Address"             -> Zeros(AddrPad) \o token.val
        [] t.kind \in {"Int", "Uint"}     -> token.val
        [] t.kind = "Bool"                -> NumberWord(token.val[1])
        [] t.kind = "FixedBytes"          ->
             token.val \o Zeros(WordsFor(t.size) * WordLen - Len(token.val))
        [] t.kind \in {"Bytes", "String"} ->
             NumberWord(Len(token.val)) \o PadRight(token.val)
        [] t.kind = "Array"               -> NumberWord(Len(token.subs)) \o row
        [] t.kind \in {"FixedArray", "Tuple"} -> row]

(* The encoding of values of these types. *)
EncAll(tokens, ts) ==
  Layout([i \in DOMAIN ts |-> enc[ts[i]][tokens[i]]],
         [i \in DOMAIN ts |-> ts[i] \in DynamicTypes])
=============================================================================
