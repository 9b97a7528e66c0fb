-------------------------------- MODULE MCCli --------------------------------
(***************************************************************************)
(* Cli on tokens that are written down, on every short text, and on        *)
(* amounts with units and signs.                                           *)
(***************************************************************************)
EXTENDS Cli

CONSTANT Length    \* characters of an arbitrary text

MCCharset == << "nul", "0", "1", "2", "3", "4", "a", "(", ")", "[", "]", ",", Quote, "-", " ",
                ".", "true", "false", "ether", "gwei", "wei", Prefix, "b", Lead, Cont >>

MCDecimals == [ether |-> 4, gwei |-> 2, wei |-> 0]

MCCode == <<7, 0, 7>>

U == UintT(256)
I == IntT(256)

-----------------------------------------------------------------------------
(* Tokens, and the texts that a user writes for them. *)

(* Every way to take one element of each set. *)
OneOfEach(sets) ==
  FoldLeft(LAMBDA chosen, set : {Append(s, x) : s \in chosen, x \in set}, {<<>>}, sets)

StringTexts == {<<"a", ",">>, <<Quote, "a", ",", ")", "]", Quote>>}

RECURSIVE Values(_)
Values(t) ==
  CASE t.kind = "Address" -> {Token(t.kind, [i \in 1..(WordLen - AddrPad) |-> 6 * i], <<>>)}
    [] t.kind = "Uint"    -> {Token(t.kind, Word(n), <<>>) : n \in {7, 31}}
    [] t.kind = "Int"     -> {Token(t.kind, Word(n), <<>>) : n \in {0, MaxUint}}
    [] t.kind = "Bool"    -> {Token(t.kind, <<b>>, <<>>) : b \in {0, 1}}
    [] t.kind = "FixedBytes" -> {Token(t.kind, [i \in 1..t.size |-> i], <<>>)}
    [] t.kind = "Bytes"   -> {Token(t.kind, v, <<>>) : v \in {<<>>, <<8, 0>>}}
    [] t.kind = "String"  -> {Token(t.kind, as_bytes(s), <<>>) : s \in StringTexts}
    [] t.kind = "Array"   ->
         {Token(t.kind, <<>>, s) : s \in UNION {[1..n -> Values(t.subs[1])] : n \in 0..2}}
    [] t.kind = "FixedArray" ->
         {Token(t.kind, <<>>, s) : s \in [1..t.size -> Values(t.subs[1])]}
    [] t.kind = "Tuple" ->
         {Token(t.kind, <<>>, s) : s \in OneOfEach([i \in DOMAIN t.subs |-> Values(t.subs[i])])}

(* Integers as hexadecimal words, the rest as it is displayed. *)
RECURSIVE Written(_)
Written(token) ==
  LET parts == Joined([i \in DOMAIN token.subs |-> Written(token.subs[i])])
  IN  CASE token.kind \in {"Uint", "Int"}         -> hex_encode(token.val)
        [] token.kind \in {"Array", "FixedArray"} -> <<"[">> \o parts \o <<"]">>
        [] token.kind = "Tuple"                   -> <<"(">> \o parts \o <<")">>
        [] OTHER                                  -> display(token)

Pair  == TupleT(<<BoolT, BytesT>>)
Lists == TupleT(<<ArrayT(BoolT), StringT, ArrayT(BytesT)>>)

Leaves == {AddressT, U, I, BoolT, BytesT, StringT, FixedBytesT(3)}

Composites ==
  { ArrayT(U), ArrayT(StringT), FixedArrayT(BoolT, 2), ArrayT(ArrayT(BoolT)),
    Pair, Lists, ArrayT(Pair), FixedArrayT(TupleT(<<StringT, ArrayT(BoolT)>>), 2), TupleT(<<Pair, U>>),
    TupleT(<<ArrayT(ArrayT(BoolT)), StringT>>), ArrayT(TupleT(<<Pair, StringT>>)) }

TypeLists == {<<t>> : t \in Leaves \cup Composites} \cup {<<U, ArrayT(BoolT)>>, <<>>}

TokensOf(ts) == OneOfEach([i \in DOMAIN ts |-> Values(ts[i])])

Turns(ts, texts_) ==
  FlattenSeq([i \in DOMAIN texts_ |-> <<write(ts[i]), texts_[i]>>])

Callable(ins, outs) == [name |-> <<"a">>, inputs |-> ins, outputs |-> outs]
Nobody == Callable(<<>>, <<>>)

Meant ==
  UNION {{Request("params", Nobody, Turns(ts, [i \in DOMAIN ts |-> Written(tokens[i])]), FALSE, tokens) :
            tokens \in TokensOf(ts)} : ts \in TypeLists}

(* Every short text for types whose scanners differ. *)
Alphabet == {"(", ")", "[", "]", ",", "1", Quote}

AnyTexts == UNION {[1..n -> Alphabet] : n \in 0..Length}
  \cup { <<"(", Lead, Cont, ",", "1", ")">>, <<"[", Lead, Cont, ",", "1", "]">>,
         <<"[", "(", Lead, Cont, ")", "]">> }

Scannable ==
  { ArrayT(BoolT), ArrayT(TupleT(<<BoolT>>)), TupleT(<<BoolT, BoolT>>),
    TupleT(<<ArrayT(BoolT), StringT>>), TupleT(<<TupleT(<<BoolT>>), ArrayT(StringT)>>) }

AnyText == {Request("params", Nobody, <<write(t), s>>, FALSE, <<>>) : t \in Scannable, s \in AnyTexts}

(* Numbers: short ones, those around the limits of an integer and of its  *)
(* ethers, and one that has as many digits as a word has in hexadecimal.   *)
RECURSIVE InDecimal(_)
InDecimal(n) ==
  (IF n < Ten THEN <<>> ELSE InDecimal(n \div Ten)) \o <<HexDigits[(n % Ten) + 1]>>

Short  == UNION {[1..n -> {"0", "1", "2"}] : n \in 0..3}
Limits == {InDecimal(n) : n \in {MaxUint \div 2, (MaxUint \div 2) + 1, (MaxUint \div 2) + 2,
                                 MaxUint, MaxUint + 1, MaxUint \div Power(Ten, 4),
                                 (MaxUint \div Power(Ten, 4)) + 1}}
Words  == {[i \in 1..(2 * WordLen) |-> "1"], [i \in 1..(2 * WordLen) |-> "4"]}

Numerals == Short \cup Limits \cup Words

Ends == {<<>>} \cup {blank \o <<unit>> : blank \in {<<>>, <<" ">>}, unit \in Units}

Quantities ==
  {n \o end : n \in Numerals, end \in Ends}
  \cup {n \o <<".">> \o m \o end : n \in Short, m \in Short, end \in Ends}
  \cup {n \o <<".">> \o m \o <<"ether">> :
          n \in {InDecimal(MaxUint \div Power(Ten, 4)), <<"1">>},
          m \in [1..4 -> {"0", "1", "2"}]}
  \cup {<<"1", ".">> \o [i \in 1..5 |-> "1"] \o <<"ether">>}

Signed == {sign \o n : sign \in {<<"-">>, <<"-", "-">>, <<>>}, n \in Numerals}

Amounts ==
  {Request("params", Nobody, <<write(U), s>>, TRUE, <<>>) : s \in Quantities}
  \cup {Request("params", Nobody, <<write(I), s>>, lenient, <<>>) : s \in Signed, lenient \in BOOLEAN}

(* Calls, with too few and too many values. *)
Outputs == {<<>>, <<BoolT>>, <<I, ArrayT(U)>>, <<Pair, ArrayT(BytesT)>>, <<StringT, ArrayT(BoolT)>>}

MCAnswers == [outs \in Outputs |-> TokensOf(outs)]

Inputs == {<<>>, <<U>>, <<BoolT, ArrayT(Pair)>>, <<Pair>>, <<FixedArrayT(BoolT, 2), StringT>>}

ValuesFor(ts) ==
  {[i \in DOMAIN ts |-> Written(tokens[i])] : tokens \in TokensOf(ts)}

CallArgs(ins) ==
  LET full == ValuesFor(ins)
  IN  full \cup {vs \o <<<<"1">>>> : vs \in full} \cup {Front(vs) : vs \in full \ {<<>>}}
        \cup {<<<<"1">>>>, <<<<"(", "1", ")">>>>}

Calling ==
  UNION {[command : {"function", "constructor", "error"},
          callable : {Callable(ins, outs) : outs \in IF ins = <<U>> THEN Outputs ELSE {<<>>}},
          args : CallArgs(ins), lenient : BOOLEAN, meant : {<<>>}] : ins \in Inputs}

(* A type without a value, and types that are none. *)
Odd == {Request("params", Nobody, <<write(BoolT)>>, FALSE, <<>>)}
  \cup {Request("params", Nobody, <<t, <<"1">>>>, FALSE, <<>>) :
          t \in {<<"]">>, <<"(", "bool">>, <<"int", "a">>}}

(* Logs: of events of every shape, and of other events, with a topic or a  *)
(* digit too few.                                                          *)
In(name, kind)  == [name |-> name, kind |-> kind, indexed |-> TRUE]
Out(name, kind) == [name |-> name, kind |-> kind, indexed |-> FALSE]
Event(inputs, anonymous) == [name |-> <<"a">>, inputs |-> inputs, anonymous |-> anonymous]

Events == {
  Event(<<In("a", AddressT), Out("b", U), In("c", BoolT), Out("d", BytesT)>>, FALSE),
  Event(<<Out("a", ArrayT(BoolT)), In("b", BytesT), In("c", FixedBytesT(3))>>, TRUE),
  Event(<<Out("a", Pair), In("b", ArrayT(BoolT))>>, FALSE) }

RECURSIVE Parts(_)
Parts(t) == {t} \cup UNION {Parts(t.subs[i]) : i \in DOMAIN t.subs}

MCTypes == UNION {Parts(t) : t \in Leaves \cup Composites \cup Scannable
                                     \cup {FixedBytesT(WordLen)}}

EventTypes(e) == [i \in DOMAIN e.inputs |-> e.inputs[i].kind]

LogArgs(log) == [i \in DOMAIN log.topics |-> hex_encode(log.topics[i])] \o <<hex_encode(log.data)>>

LogOf(e, tokens) ==
  Request("log", e, LogArgs(Emitter!Emission(e, tokens)), FALSE, tokens)

Broken(r) ==
  {[r EXCEPT !.meant = <<>>, !.args = args] :
     args \in {Tail(r.args), <<Front(Head(r.args))>> \o Tail(r.args), <<Last(r.args)>> \o r.args,
              [r.args EXCEPT ![1] = r.args[2]], Front(r.args) \o <<Front(Last(r.args))>>}}

Logs == UNION {{LogOf(e, tokens) : tokens \in TokensOf(EventTypes(e))} : e \in Events}

(* The same logs, the first topic with a prefix. *)
WithPrefix(r) == [r EXCEPT !.args[1] = <<Prefix>> \o @]

Leniently(r) == [r EXCEPT !.lenient = TRUE]

MCRequests == Meant \cup {Leniently(r) : r \in Meant} \cup AnyText \cup Amounts \cup Calling \cup Odd
                \cup Logs \cup {WithPrefix(r) : r \in Logs} \cup UNION {Broken(r) : r \in Logs}

(* Some digest for each signature and for each value. *)
Signatures == {signed_text(<<"a">>, ins) : ins \in Inputs}
                \cup {signed_text(<<"a">>, EventTypes(e)) : e \in Events}

MCKeccak256 == [s \in Signatures |-> [i \in 1..WordLen |-> Len(s) + i]]

MCKeccak(bytes) == [i \in 1..WordLen |-> (Len(bytes) + i) % Radix]
==============================================================================
