----------------------------- MODULE MCEventLog -----------------------------
(***************************************************************************)
(* EventLog on the logs that events of every shape emit, on arbitrary      *)
(* logs, and with filters that match some of the values.                   *)
(***************************************************************************)
EXTENDS EventLog, MCData

(* Injective on the bytes that are hashed here, and never a small number. *)
MCKeccak(bytes) ==
  LET h == FoldLeft(LAMBDA sum, b : (7 * sum + b + 1) % 251, 3, bytes)
  IN  <<3>> \o Tail(pad_u32(h))

MCSignature(name, ts) ==
  [i \in 1..WordLen |-> IF i = 1 THEN 2 ELSE IF i = 2 THEN Len(ts) % Radix ELSE
                        CASE name = "Transfer" -> 1 [] name = "Mixed" -> 2 [] OTHER -> 3]

In(name, kind)  == [name |-> name, kind |-> kind, indexed |-> TRUE]
Out(name, kind) == [name |-> name, kind |-> kind, indexed |-> FALSE]
Event(name, inputs, anonymous) ==
  [name |-> name, inputs |-> inputs, anonymous |-> anonymous]

Transfer == Event("Transfer", <<In("from", AddressT), Out("value", UintT(8))>>, FALSE)
Mixed    == Event("Mixed", <<Out("a", StringT), In("b", BoolT), Out("c", BoolT),
                             In("d", FixedBytesT(3))>>, FALSE)
Refs     == Event("Refs", <<In("s", StringT), In("f", FixedArrayT(BoolT, 2)),
                            Out("p", Pair)>>, FALSE)
Hidden   == Event("Hidden", <<Out("x", FixedBytesT(3)), In("y", IntT(8))>>, TRUE)
Four     == Event("Four", [i \in 1..4 |-> In(<<"a", "b", "c", "d">>[i], BoolT)], TRUE)
Plain    == Event("Plain", <<>>, FALSE)
Unnamed  == Event("Unnamed", <<Out("", BoolT), Out("", BoolT)>>, FALSE)

NamedEvents == {Transfer, Mixed, Refs, Hidden, Four, Plain}

MCNames == STRING

MCTypes == MCParamTypes \cup {FixedBytesT(WordLen)}

Filled(n) == {[i \in 1..n |-> 0], [i \in 1..n |-> (i + 1) % Radix]}

OneOfEach(sets) ==
  {f \in [DOMAIN sets -> UNION Range(sets)] : \A i \in DOMAIN sets : f[i] \in sets[i]}

RECURSIVE Values(_)
Values(t) ==
  CASE t.kind = "Address" -> {Token(t.kind, v, <<>>) : v \in Filled(WordLen - AddrPad)}
    [] t.kind \in {"Int", "Uint"} -> {Token(t.kind, v, <<>>) : v \in Filled(WordLen)}
    [] t.kind = "Bool" -> {Token(t.kind, <<b>>, <<>>) : b \in {0, 1}}
    [] t.kind = "FixedBytes" -> {Token(t.kind, v, <<>>) : v \in Filled(t.size)}
    [] t.kind \in {"Bytes", "String"} ->
         {Token(t.kind, v, <<>>) : v \in {<<>>, <<1, 2>>}}
    [] t.kind = "FixedArray" ->
         {Token(t.kind, <<>>, s) : s \in [1..t.size -> Values(t.subs[1])]}
    [] t.kind = "Tuple" ->
         {Token(t.kind, <<>>, s) :
            s \in OneOfEach([i \in DOMAIN t.subs |-> Values(t.subs[i])])}

(* No filter, and filters that accept some of the values of a type. *)
NoFilter == [k \in 1..3 |-> AnyTopic]

RawTopics(t) ==
  {AnyTopic} \cup {OneOf(vs) : vs \in {<<v>> : v \in Values(t)}}
    \cup {OneOf(vs) : vs \in {<<v, w>> : v \in Values(t), w \in Values(t)}}

RawFilters(e) ==
  LET kinds == KindsOf(indexed_params(e, TRUE))
  IN  OneOfEach([k \in 1..3 |-> IF k \in DOMAIN kinds THEN RawTopics(kinds[k])
                                                      ELSE {AnyTopic}])
        \cup { [NoFilter EXCEPT ![1] = OneOf(<<Token("Bytes", <<>>, <<>>)>>)],
               [NoFilter EXCEPT ![3] = OneOf(<<Token("Bool", <<1>>, <<>>)>>)] }

WithFilters(filters, e, values, l) ==
  [event : {e}, raw : filters, log : {l},
   origin : {[emitted |-> TRUE, values |-> values]}]

Emitted(e, filters) ==
  UNION {WithFilters(filters, e, values, Emission(e, values)) :
           values \in OneOfEach([i \in DOMAIN e.inputs |-> Values(e.inputs[i].kind)])}

(* A log of up to three topics, and any data. *)
Topics(e) ==
  UNION {[1..n -> {MCSignature(e.name, KindsOf(e.inputs)), Num(1), Junk}] : n \in 0..3}

Received(e) ==
  [event : {e}, raw : {NoFilter}, log : [topics : Topics(e), data : AllData],
   origin : {[emitted |-> FALSE, values |-> <<>>]}]

MCSessions == UNION {Emitted(e, RawFilters(e)) \cup Received(e) : e \in NamedEvents}

UnnamedSessions == Emitted(Unnamed, {NoFilter})

RefSessions == Emitted(Refs, RawFilters(Refs))
=============================================================================
