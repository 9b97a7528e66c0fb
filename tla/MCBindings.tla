----------------------------- MODULE MCBindings -----------------------------
(***************************************************************************)
(* Bindings on contracts of functions and events that compile, whose calls *)
(* and logs are followed, and of names and types that do not.              *)
(***************************************************************************)
EXTENDS Bindings

CONSTANT Missing    \* a path without a file

(* Names, as the ABI and as heck write them. *)
NameTable == {
  << <<"transfer">>, <<"transfer">>, <<"Transfer">> >>,
  << <<"Transfer">>, <<"transfer">>, <<"Transfer">> >>,
  << <<"balanceOf">>, <<"balance_of">>, <<"BalanceOf">> >>,
  << <<"BalanceOf">>, <<"balance_of">>, <<"BalanceOf">> >>,
  << <<"ERC20Sent">>, <<"erc20_sent">>, <<"Erc20Sent">> >>,
  << <<"Sent">>, <<"sent">>, <<"Sent">> >>,
  << <<"_value">>, <<"value">>, <<"Value">> >>,
  << <<"value">>, <<"value">>, <<"Value">> >>,
  << <<"self">>, <<"self">>, <<"Self">> >>,
  << <<"type">>, <<"type">>, <<"Type">> >>,
  << <<"f">>, <<"f">>, <<"F">> >>,
  << <<"c">>, <<"c">>, <<"C">> >>,
  << <<"code">>, <<"code">>, <<"Code">> >>,
  << <<"event">>, <<"event">>, <<"Event">> >>,
  << <<"_">>, <<>>, <<>> >>,
  << <<"param", "0">>, <<"param", "0">>, <<"Param", "0">> >> }

ABINames == {row[1] : row \in NameTable}

MCSnake == [name \in ABINames |-> (CHOOSE row \in NameTable : row[1] = name)[2]]
MCUpperCamel == [name \in ABINames |-> (CHOOSE row \in NameTable : row[1] = name)[3]]

MCKeywords == {<<"self">>, <<"Self">>, <<"type">>}

U == UintT(256)
Word32 == FixedBytesT(WordLen)
B3 == FixedBytesT(3)

Bools == FixedArrayT(BoolT, 2)
Pair == TupleT(<<BoolT, BytesT>>)

MCTypes == {U, IntT(256), AddressT, BoolT, BytesT, StringT, Word32, B3, Bools, Pair,
            ArrayT(BoolT), ArrayT(ArrayT(BoolT)), ArrayT(StringT), ArrayT(Bools), ArrayT(Pair)}

RECURSIVE MCGiven(_)
MCGiven(t) ==
  CASE t.kind = "Address" -> {[i \in 1..(WordLen - AddrPad) |-> i], Zeros(WordLen - AddrPad)}
    [] t.kind \in {"Uint", "Int"} -> {pad_u32(1), pad_u32(U32 - 1)}
    [] t.kind = "Bool" -> {<<0>>, <<1>>}
    [] t.kind = "FixedBytes" -> {[i \in 1..t.size |-> i % Radix]}
    [] t.kind \in {"Bytes", "String"} -> {<<>>, <<2, 0>>}
    [] t.kind = "Array" -> UNION {[1..n -> MCGiven(t.subs[1])] : n \in {0, 2}}
    [] t.kind = "FixedArray" -> [1..t.size -> MCGiven(t.subs[1])]

-----------------------------------------------------------------------------
Param(name, kind) == [name |-> name, kind |-> kind]
Unnamed(ts)       == [i \in DOMAIN ts |-> Param(<<>>, ts[i])]

Function(name, ins, outs) == [name |-> name, inputs |-> ins, outputs |-> Unnamed(outs)]

In(name, kind)  == [name |-> name, kind |-> kind, indexed |-> TRUE]
Out(name, kind) == [name |-> name, kind |-> kind, indexed |-> FALSE]
Event(name, inputs, anonymous) == [name |-> name, inputs |-> inputs, anonymous |-> anonymous]

(* Functions whose modules compile. *)
GoodFunctions == {
  Function(<<"transfer">>, <<Param(<<"_value">>, U), Param(<<>>, AddressT)>>, <<BoolT, BoolT>>),
  Function(<<"balanceOf">>, <<Param(<<"self">>, ArrayT(ArrayT(BoolT)))>>, <<U, StringT, B3>>),
  Function(<<"value">>, <<Param(<<"code">>, Bools), Param(<<"c">>, StringT)>>, <<>>),
  Function(<<"Sent">>, <<>>, <<ArrayT(StringT), Word32>>) }

(* Functions and events that rustc refuses, or that do not expand. *)
Refused == {
  Function(<<"transfer">>, <<Param(<<"value">>, U), Param(<<"_value">>, U)>>, <<>>),
  Function(<<"transfer">>, <<Param(<<>>, U), Param(<<"param", "0">>, U)>>, <<>>),
  Function(<<"transfer">>, <<Param(<<"f">>, U)>>, <<>>),
  Function(<<"transfer">>, <<Param(<<"type">>, U)>>, <<>>),
  Function(<<"type">>, <<>>, <<>>),
  Function(<<"Transfer">>, <<>>, <<BoolT>>),
  Function(<<"Sent">>, <<Param(<<"_">>, U)>>, <<>>),
  Function(<<"Sent">>, <<Param(<<"value">>, ArrayT(Pair))>>, <<>>),
  Function(<<"Sent">>, <<Param(<<"value">>, ArrayT(Bools))>>, <<>>),
  Function(<<"Sent">>, <<>>, <<ArrayT(Bools)>>),
  Function(<<"Sent">>, <<>>, <<Pair>>) }

GoodEvents == {
  Event(<<"Transfer">>, <<In(<<"f">>, AddressT), In(<<"_value">>, U), Out(<<"c">>, BytesT)>>, FALSE),
  Event(<<"Sent">>, <<Out(<<"value">>, StringT), In(<<>>, B3), Out(<<"c">>, ArrayT(BoolT))>>, FALSE),
  Event(<<"ERC20Sent">>, <<In(<<"value">>, BoolT), Out(<<"c">>, BoolT)>>, FALSE),
  Event(<<"value">>, [i \in 1..4 |-> In(<<(<<"f", "c", "value", "code">>)[i]>>, IF i \in {1, 4} THEN BoolT ELSE B3)], TRUE),
  Event(<<"BalanceOf">>, <<In(<<"value">>, StringT)>>, FALSE),
  Event(<<"code">>, <<Out(<<>>, BoolT), Out(<<>>, BytesT)>>, TRUE) }

RefusedEvents == {
  Event(<<"transfer">>, <<Out(<<"c">>, BoolT)>>, FALSE),
  Event(<<"Sent">>, <<In(<<"self">>, BoolT)>>, FALSE),
  Event(<<"Sent">>, <<In(<<"event">>, BoolT)>>, FALSE),
  Event(<<"Sent">>, <<Out(<<"value">>, Bools)>>, FALSE) }

Contract(inputs, functions, events) ==
  [constructor |-> inputs, functions |-> functions, events |-> events]

Singles == {<<x>> : x \in GoodFunctions \cup Refused}
Pairs   == {<<x, y>> : x \in GoodFunctions, y \in GoodFunctions \cup Refused}

EventLists == {<<x>> : x \in GoodEvents \cup RefusedEvents}
                \cup {<<CHOOSE x \in GoodEvents : x.name = <<"Transfer">>, y>> : y \in RefusedEvents}
                \cup {<<y, y>> : y \in GoodEvents}

Constructors == {
  <<>>, <<Param(<<>>, ArrayT(BoolT)), Param(<<"f">>, BytesT)>>,
  <<Param(<<"c">>, U)>>, <<Param(<<"code">>, BytesT)>>, <<Param(<<"value">>, Pair)>> }

Contracts ==
  {Contract(<<>>, fs, <<>>) : fs \in Singles \cup Pairs}
  \cup {Contract(<<>>, <<>>, es) : es \in EventLists}
  \cup {Contract(<<inputs>>, <<>>, <<>>) : inputs \in Constructors}

(* Each contract is a file, named by itself. *)
MCFiles == [path \in Contracts \cup {Missing} |-> IF path = Missing THEN Err ELSE Ok(path)]

Path(lit)    == [path |-> "path", lit |-> lit]
Options(nested) == [path |-> "ethabi_contract_options", kind |-> "List", nested |-> nested]
Sample == Contract(<<>>, <<>>, <<>>)

MCInvocations ==
  {use_contract(path) : path \in DOMAIN MCFiles}
  \cup { <<>>, <<Options(<<>>)>>,
         <<[path |-> "ethabi_contract_options", kind |-> "Word", nested |-> <<>>]>>,
         <<Options(<<Path(NoText), Path(Sample)>>)>>,
         <<Options(<<[path |-> "other", lit |-> NoText], Path(Contract(<<>>, <<CHOOSE f \in GoodFunctions : TRUE>>, <<>>))>>)>> }

-----------------------------------------------------------------------------
MCBytecode == <<1, 2>>

MCJunk == {<<>>, pad_u32(1)} \cup {pad_u32(a) \o pad_u32(b) \o pad_u32(c) :
             a \in {0, 1, 5, 15}, b \in {0, 1, 15, U32 - 1}, c \in {1, 5}}

Ops == GoodFunctions \cup Refused \cup GoodEvents \cup RefusedEvents
Signed(op) == {signed_text(name, [i \in DOMAIN op.inputs |-> op.inputs[i].kind]) :
                 name \in UNION {Range(row) : row \in {r \in NameTable : r[1] = op.name}}}
SignedTexts == UNION {Signed(op) : op \in Ops}

MCKeccak256 ==
  LET order == FoldSet(LAMBDA s, list : Append(list, s), <<>>, SignedTexts)
      place == [s \in SignedTexts |-> CHOOSE i \in DOMAIN order : order[i] = s]
  IN  [s \in SignedTexts |-> <<1, place[s] \div (Radix * Radix), (place[s] \div Radix) % Radix, place[s] % Radix, 3>>]

MCKeccak(bytes) ==
  LET h == FoldLeft(LAMBDA sum, b : (7 * sum + b + 1) % 251, 3, bytes)
  IN  <<3>> \o Tail(pad_u32(h))

(* Logs with the event's signature and as many or fewer topics. *)
MCStrayLogs(e) ==
  {[topics |-> ts, data |-> d] :
     ts \in UNION {[1..n -> {Keccak256[signed_text(UpperCamel[e.name], Types(e.inputs))],
                             pad_u32(1), <<3, 3, 3, 3, 3>>}] : n \in 0..2},
     d \in {<<>>, pad_u32(1), pad_u32(5) \o pad_u32(1) \o pad_u32(U32 - 1)}}
=============================================================================
