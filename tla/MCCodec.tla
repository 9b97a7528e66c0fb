------------------------------- MODULE MCCodec -------------------------------
(***************************************************************************)
(* Codec on callers' tokens of every type of module MCData, and on data    *)
(* that need not be an encoding of anything.                               *)
(***************************************************************************)
EXTENDS Codec, MCData

CONSTANT Long    \* the most elements of an array

(* A few values of each type; strings are valid UTF-8. *)
ByteStrings ==
  { <<>>, <<1, 0, 2>>, <<0, 0, 0, 0, 1>>, [i \in 1..(WordLen + 1) |-> i % 2] }

Filled(n) == {[i \in 1..n |-> 0], [i \in 1..n |-> (i + 1) % Radix]}

(* Every way to take one element of each set. *)
OneOfEach(sets) ==
  {f \in [DOMAIN sets -> UNION Range(sets)] : \A i \in DOMAIN sets : f[i] \in sets[i]}

RECURSIVE Values(_)
Values(t) ==
  CASE t.kind = "Address" -> {Token(t.kind, v, <<>>) : v \in Filled(WordLen - AddrPad)}
    [] t.kind \in {"Int", "Uint"} -> {Token(t.kind, v, <<>>) : v \in Filled(WordLen)}
    [] t.kind = "Bool" -> {Token(t.kind, <<b>>, <<>>) : b \in {0, 1}}
    [] t.kind = "FixedBytes" -> {Token(t.kind, v, <<>>) : v \in Filled(t.size)}
    [] t.kind \in {"Bytes", "String"} -> {Token(t.kind, v, <<>>) : v \in ByteStrings}
    [] t.kind = "Array" ->
         {Token(t.kind, <<>>, s) :
            s \in UNION {[1..n -> Values(t.subs[1])] : n \in 0..Long}}
    [] t.kind = "FixedArray" ->
         {Token(t.kind, <<>>, s) : s \in [1..t.size -> Values(t.subs[1])]}
    [] t.kind = "Tuple" ->
         {Token(t.kind, <<>>, s) :
            s \in OneOfEach([i \in DOMAIN t.subs |-> Values(t.subs[i])])}

CallsOf(lists) ==
  UNION {[types : {ts}, tokens : OneOfEach([i \in DOMAIN ts |-> Values(ts[i])])] :
           ts \in lists}

(* An array of no strings. *)
NoStrings == FixedArrayT(StringT, 0)

(* The types whose encoding and decoding agree.  The other ones of MCData  *)
(* are bytesN for N = 0 or more than a word, and the types without any     *)
(* bytes, whose encodings decode refuses or the encoder takes for static:  *)
(* callers pass values of these too, all but NoStrings only alone, and no  *)
(* data is received for them.                                              *)
Odd == {FixedBytesT(0), FixedBytesT(7), NoStrings, TupleT(<<>>)}

SettledTypes == MCParamTypes \ Odd

SettledLists ==
  {<<t>> : t \in SettledTypes} \cup
  { <<>>, <<FixedArrayT(StringT, 2), BoolT>>, <<BytesT, BytesT>>,
    <<ArrayT(UintT(8)), BytesT>>, <<BoolT, Flat>> }

One(kind) == Token(kind, <<1>>, <<>>)

(* Tokens that do not fit: another kind, too many of them, too long. *)
Misfits ==
  { [types |-> <<UintT(8)>>, tokens |-> <<Token("Bool", <<1>>, <<>>)>>],
    [types |-> <<BoolT>>, tokens |-> <<>>],
    [types |-> <<FixedBytesT(3)>>,
     tokens |-> <<Token("FixedBytes", <<1, 1, 1, 1>>, <<>>)>>],
    [types |-> <<FixedArrayT(BoolT, 2)>>, tokens |-> <<Token("FixedArray", <<>>, <<>>)>>],
    [types |-> <<BoolT>>, tokens |-> <<One("Bool"), One("Bool")>>],
    [types |-> <<BoolT, BoolT>>, tokens |-> <<One("Bool")>>] }

(* Members that fit a pair or do not, and too few or too many of them, in  *)
(* a tuple that stands alone or inside of something else.                  *)
Members ==
  {<<>>} \cup UNION {[1..n -> {Token("Uint", Zeros(WordLen), <<>>), One("Bytes")}] : n \in 1..3}

Pairs == {Token("Tuple", <<>>, ms) : ms \in Members}

Tuples ==
  [types : {<<Pair>>}, tokens : {<<p>> : p \in Pairs}]
  \cup [types : {<<ArrayT(Pair)>>}, tokens : {<<Token("Array", <<>>, <<p, q>>)>> : p, q \in Pairs}]
  \cup [types : {<<FixedArrayT(Pair, 2)>>},
        tokens : {<<Token("FixedArray", <<>>, <<p, q>>)>> : p, q \in Pairs}]
  \cup [types : {<<TupleT(<<Flat, StringT>>)>>},
        tokens : {<<Token("Tuple", <<>>, <<p, One("String")>>)>> : p \in Pairs}]

(* A bytesN with too few bytes, or none. *)
Shorts ==
  [types  : {<<FixedBytesT(3)>>},
   tokens : [{1} -> [kind : {"FixedBytes"}, val : {<<>>, <<1>>, <<1, 2>>}, subs : {<<>>}]]]
  \cup
  [types  : {<<TupleT(<<ArrayT(UintT(8)), FixedBytesT(3)>>)>>},
   tokens : { <<Token("Tuple", <<>>, << Token("Array", <<>>, <<>>),
                                       Token("FixedBytes", val, <<>>) >>)>> :
                val \in {<<>>, <<1>>} }]

(* Two values of which the second has the last offset that is a u32, or    *)
(* the first one that is not, and lengths on both sides of U32.            *)
Boundary == {U32 - 4 * WordLen, U32 - 3 * WordLen - 1, U32 - 3 * WordLen, U32 - 1, U32 + 1}

Longs ==
  [types  : {<<BytesT, BytesT>>},
   tokens : { << Token("Bytes", [i \in 1..n |-> i % 2], <<>>), Token("Bytes", second, <<>>) >> :
                n \in Boundary, second \in {<<>>, <<1, 0, 2>>} }]

(* Before and behind other values, too. *)
NoStringsLists ==
  { <<NoStrings, BoolT>>, <<BoolT, NoStrings>>, <<NoStrings, BytesT>>, <<BytesT, NoStrings>>,
    <<UintT(8), NoStrings, Flat>>, <<NoStrings, NoStrings>> }

MCCalls == CallsOf(SettledLists \cup {<<t>> : t \in Odd} \cup NoStringsLists) \cup Misfits \cup Tuples \cup Shorts \cup Longs

MCInputs == [types : {<<t>> : t \in SettledTypes}
                       \cup {<<BytesT, BytesT>>, <<AddressT, FixedBytesT(3)>>},
             data  : AllData]

-----------------------------------------------------------------------------
(* Where the code and its documentation disagree. *)

NoInputs == {}

DynamicCalls == CallsOf({<<BytesT>>})
==============================================================================
