------------------------------- MODULE Events -------------------------------
(***************************************************************************)
(* Event (event.rs, log.rs): the parts of parse_log around its two calls   *)
(* of the decoder: which types it reads, and how the tokens become         *)
(* parameters again.  An event is [name, inputs, anonymous], a log         *)
(* [topics, data].                                                         *)
(***************************************************************************)
EXTENDS AbiTypes, Hashes, Results, SequencesExt

CONSTANT ParamNames    \* the texts that may be names of parameters

EventParam == [name : ParamNames, kind : ParamTypes, indexed : BOOLEAN]
Hash       == [1..WordLen -> Byte]

-----------------------------------------------------------------------------
(* The parameters that are indexed, and the others, in their order. *)
split[params \in Seq(EventParam)] ==
  IF params = <<>> THEN [indexed \in BOOLEAN |-> <<>>]
  ELSE [split[Front(params)] EXCEPT ![Last(params).indexed] = Append(@, Last(params))]

indexed_params(e, indexed) == split[e.inputs][indexed]
KindsOf(params) == [i \in DOMAIN params |-> params[i].kind]

signature(e) == Signature(e.name, KindsOf(e.inputs))

(* A mutant: a string in a topic is taken for a string. *)
convert_topic_param_type_string(kind) ==
  IF kind.kind \in {"Bytes", "Array", "FixedArray", "Tuple"}
  THEN FixedBytesT(WordLen) ELSE kind

convert_topic_param_type(kind) ==
  IF kind.kind \in {"String", "Bytes", "Array", "FixedArray", "Tuple"}
  THEN FixedBytesT(WordLen) ELSE kind

topic_types(e) ==
  LET params == indexed_params(e, TRUE)
  IN  [i \in DOMAIN params |-> convert_topic_param_type(params[i].kind)]

data_types(e) == KindsOf(indexed_params(e, FALSE))

(* A mutant: every event has its signature for a topic. *)
to_skip_always(e) == 1

to_skip(e) == IF e.anonymous THEN 0 ELSE 1

(* The words one behind the other. *)
flat[words \in Seq(Hash)] ==
  IF words = <<>> THEN <<>> ELSE flat[Front(words)] \o Last(words)

flat_topics(e, l) == flat[SubSeq(l.topics, to_skip(e) + 1, Len(l.topics))]

(* The zip of names and tokens: pairs, as long as the shorter of the two. *)
named(params, tokens) ==
  [i \in DOMAIN params \cap DOMAIN tokens |-> <<params[i].name, tokens[i]>>]

(* collect::<BTreeMap>: of pairs with the same name the last one stays. *)
named_tokens(pairs) ==
  [name \in {pairs[i][1] : i \in DOMAIN pairs} |->
     LET last == CHOOSE i \in DOMAIN pairs :
                   /\ pairs[i][1] = name
                   /\ \A j \in DOMAIN pairs : pairs[j][1] = name => j <= i
     IN  pairs[last][2]]

LogParam(name, value) == [name |-> name, value |-> value]

(* The parameters in the order of their declaration, looked up by name; a  *)
(* name without a token panics.                                            *)
decoded_params(e, tokens) ==
  IF \A i \in DOMAIN e.inputs : e.inputs[i].name \in DOMAIN tokens
  THEN Ok([i \in DOMAIN e.inputs |->
             LogParam(e.inputs[i].name, tokens[e.inputs[i].name])])
  ELSE Panic
=============================================================================
