------------------------------ MODULE Bindings ------------------------------
(***************************************************************************)
(* The derive macro (derive/, contract/): it loads the ABI that its        *)
(* attribute names and prints Rust source for it, which rustc compiles or  *)
(* refuses, and which a program calls.  Modelled are what the macro        *)
(* expands to, the names and types that rustc refuses in it, and the       *)
(* generated functions: values of Rust go in and come out, tokens stay     *)
(* inside.                                                                 *)
(*                                                                         *)
(* A name is a text: <<>> if the ABI has none.  A Rust value is the bytes  *)
(* of a token, or a sequence of values for an array.                       *)
(***************************************************************************)
EXTENDS Calls

CONSTANTS
  Snake,        \* heck's to_snake_case of each name
  UpperCamel,   \* heck's to_upper_camel_case of each name
  Keywords,     \* the names that are keywords of Rust
  Invocations,  \* the attributes of the structs that derive EthabiContract
  NoText,       \* the value of an argument that is no text
  Files,        \* what Contract::load makes of the file at each path
  Given(_),     \* the Rust values of a type that programs pass
  Bytecode,     \* of the contract deployed
  Junk,         \* bytes that come instead of the results of a function
  StrayLogs(_)  \* logs that an event did not make

VARIABLES
  attrs,        \* the attributes of the struct
  abi,          \* the contract: constructor (or <<>>), functions, events
  phase,        \* see Phases
  item,         \* the operation that is used: its part and itself
  given,        \* the values it was given
  output,       \* the bytes sent, or the filter
  reply,        \* what came back, and the values it was made of
  answer        \* the values that the reader found

vars == <<attrs, abi, phase, item, given, output, reply, answer>>

Phases == {"derive", "expanded", "compiled", "rejected", "sent", "watching",
           "answered", "parsed", "Panic"}

NoItem == [part |-> "none"]
Item(part, op) == [part |-> part, op |-> op]

Nothing == [constructor |-> <<>>, functions |-> <<>>, events |-> <<>>]

-----------------------------------------------------------------------------
(* The attribute: the first one of this name, and the first "path" in it.  *)
(* An argument is [path, lit], where lit is a text or NoText.              *)

First(list, name) ==
  LET found == SelectSeq(list, LAMBDA meta : meta.path = name)
  IN  IF found = <<>> THEN Err ELSE Ok(Head(found))

get_options(metas) ==
  LET meta == First(metas, "ethabi_contract_options")
  IN  IF IsOk(meta) /\ meta.val.kind = "List" THEN Ok(meta.val.nested) ELSE Err

get_option(options, name) ==
  LET item_ == First(options, name)
  IN  IF IsOk(item_) /\ item_.val.lit # NoText THEN Ok(item_.val.lit) ELSE Err

load(metas) ==
  AndThen(get_options(metas), LAMBDA options :
    AndThen(get_option(options, "path"), LAMBDA path : Files[path]))

(* What use_contract!(module, path) derives for. *)
use_contract(path) ==
  <<[path |-> "ethabi_contract_options", kind |-> "List",
     nested |-> <<[path |-> "path", lit |-> path]>>]>>

-----------------------------------------------------------------------------
(* Names. *)

rust_variable(name) == IF name = <<"self">> THEN <<"_self">> ELSE Snake[name]

Numbered(prefix, i) == <<prefix>> \o Numeral(i - 1)

input_names(params) ==
  [i \in DOMAIN params |-> IF params[i].name = <<>> THEN Numbered("param", i)
                                                    ELSE rust_variable(params[i].name)]

field_names(e) ==
  [i \in DOMAIN e.inputs |->
     LET p == e.inputs[i]
     IN  IF p.name # <<>> THEN Snake[p.name]
         ELSE Numbered(IF p.indexed THEN "topic" ELSE "param", i)]

module_names(ops) == [i \in DOMAIN ops |-> Snake[ops[i].name]]
log_names(es)     == [i \in DOMAIN es |-> UpperCamel[es[i].name]]

(* Types. *)
RECURSIVE HasKind(_, _)
HasKind(t, kind) == t.kind = kind \/ \E i \in DOMAIN t.subs : HasKind(t.subs[i], kind)

(* A fixed array is printed as "[t, n]", which is no type; from_token of   *)
(* one calls a method that Token does not have.                            *)
is_rust_type(t) == ~HasKind(t, "FixedArray")

is_template_type(t) ==
  IF t.kind \in {"Array", "FixedArray"} THEN is_rust_type(t.subs[1]) ELSE TRUE

-----------------------------------------------------------------------------
(* Contract::from and generate.  A tuple is unimplemented!(), and a name   *)
(* of which heck leaves nothing makes Ident::new panic.                    *)

KindsIn(params) == {params[i].kind : i \in DOMAIN params}

TypesIn(c) ==
  UNION {KindsIn(f.inputs) \cup KindsIn(f.outputs) : f \in Range(c.functions)}
  \cup UNION {KindsIn(e.inputs) : e \in Range(c.events)}
  \cup UNION {KindsIn(inputs) : inputs \in Range(c.constructor)}

Idents(c) ==
  Range(module_names(c.functions)) \cup Range(module_names(c.events)) \cup Range(log_names(c.events))
  \cup UNION {Range(input_names(f.inputs)) : f \in Range(c.functions)}
  \cup UNION {Range(field_names(e)) : e \in Range(c.events)}
  \cup UNION {Range(input_names(inputs)) : inputs \in Range(c.constructor)}

generate(c) ==
  IF (\E t \in TypesIn(c) : HasKind(t, "Tuple")) \/ <<>> \in Idents(c)
  THEN Panic ELSE Ok(c)

(* ethabi_derive: what fails, panics with ERROR_MSG. *)
Derive ==
  /\ phase = "derive"
  /\ \E expanded \in {AndThen(load(attrs), generate)} :
       IF IsOk(expanded) THEN phase' = "expanded" /\ abi' = expanded.val
       ELSE phase' = "Panic" /\ UNCHANGED abi
  /\ UNCHANGED <<attrs, item, given, output, reply, answer>>

-----------------------------------------------------------------------------
(* rustc. *)

(* Names of one scope differ, and none is a keyword or taken already. *)
IsScope(names, taken) ==
  IsInjective(names) /\ Range(names) \cap (Keywords \cup taken) = {}

(* "let f = function();" hides an argument before it is used. *)
function_compiles(f) ==
  /\ IsScope(input_names(f.inputs), {<<"f">>, <<"function">>})
  /\ \A t \in KindsIn(f.inputs) : is_template_type(t)
  /\ \A t \in KindsIn(f.outputs) : is_rust_type(t)

constructor_compiles(inputs) ==
  /\ IsScope(input_names(inputs), {<<"code">>, <<"c">>})
  /\ \A t \in KindsIn(inputs) : is_template_type(t)

event_compiles(e) ==
  /\ IsScope(field_names(e), {})
  /\ \A t \in KindsIn(e.inputs) : is_rust_type(t)
  /\ \A i \in DOMAIN e.inputs : e.inputs[i].indexed => field_names(e)[i] # <<"event">>

compiles(c) ==
  /\ IsScope(module_names(c.functions), {}) /\ IsScope(module_names(c.events), {})
  /\ IsScope(log_names(c.events), {})
  /\ \A f \in Range(c.functions) : function_compiles(f)
  /\ \A e \in Range(c.events) : event_compiles(e)
  /\ \A inputs \in Range(c.constructor) : constructor_compiles(inputs)

Compile ==
  /\ phase = "expanded"
  /\ phase' = IF compiles(abi) THEN "compiled" ELSE "rejected"
  /\ UNCHANGED <<attrs, abi, item, given, output, reply, answer>>

-----------------------------------------------------------------------------
(* Values and tokens. *)

(* A mutant: an array of fixed length becomes a token of any length. *)
RECURSIVE to_token_array(_, _)
to_token_array(v, t) ==
  IF t.kind \in {"Array", "FixedArray"}
  THEN Token("Array", <<>>, [i \in DOMAIN v |-> to_token_array(v[i], t.subs[1])])
  ELSE Token(t.kind, v, <<>>)

RECURSIVE to_token(_, _)
to_token(v, t) ==
  IF t.kind \in {"Array", "FixedArray"}
  THEN Token(t.kind, <<>>, [i \in DOMAIN v |-> to_token(v[i], t.subs[1])])
  ELSE Token(t.kind, v, <<>>)

(* Token::into_address and the others. *)
into(token, kind) == IF token.kind = kind THEN Ok(token) ELSE Err

expect(res) == IF IsOk(res) THEN res ELSE Panic

(* expect(INTERNAL_ERR), and copy_from_slice into an array of the size of  *)
(* the type.                                                               *)
RECURSIVE from_token(_, _)
from_token(token, t) ==
  LET own == expect(into(token, t.kind))
  IN  IF ~IsOk(own) THEN own
      ELSE IF t.kind = "FixedBytes" /\ Len(token.val) # t.size THEN Panic
      ELSE IF t.kind = "Array"
           THEN Collect([i \in DOMAIN token.subs |-> from_token(token.subs[i], t.subs[1])])
           ELSE Ok(token.val)

(* vec![#(#tokenize),*] *)
tokenize(vs, params) == [i \in DOMAIN params |-> to_token(vs[i], params[i])]

(* A mutant: every value is made of the first token. *)
take_all_first(tokens, ts) ==
  Collect([i \in DOMAIN ts |-> IF tokens = <<>> THEN Panic ELSE from_token(tokens[1], ts[i])])

(* The values of these types, each of out.next().expect(INTERNAL_ERR). *)
take_all(tokens, ts) ==
  Collect([i \in DOMAIN ts |-> IF i \in DOMAIN tokens THEN from_token(tokens[i], ts[i])
                                                      ELSE Panic])

-----------------------------------------------------------------------------
(* The generated functions. *)

(* The types of an operation are what its module recreates. *)
Types(params) == [i \in DOMAIN params |-> params[i].kind]

function(f) == [name |-> f.name, inputs |-> Types(f.inputs), outputs |-> Types(f.outputs)]

encode_input(f, vs) ==
  expect(function_encode_input(function(f), tokenize(vs, Types(f.inputs))))

constructor(inputs, code, vs) ==
  expect(constructor_encode_input([inputs |-> Types(inputs)], code, tokenize(vs, Types(inputs))))

(* Without results the bytes are not looked at. *)
decode_output(f, bytes) ==
  IF f.outputs = <<>> THEN Ok(<<>>)
  ELSE AndThen(function_decode_output(function(f), bytes),
               LAMBDA tokens : take_all(tokens, Types(f.outputs)))

(* A mutant: the name of the module. *)
event_snake(e) == [e EXCEPT !.name = Snake[e.name]]

(* The event has the name of its log struct, not that of the ABI. *)
event(e) == [e EXCEPT !.name = UpperCamel[e.name]]

(* A mutant: the third topic is left out. *)
raw_filter_two(e, topics) ==
  [k \in 1..3 |->
     IF k > 2 \/ k \notin DOMAIN topics THEN EventOf!AnyTopic
     ELSE [topics[k] EXCEPT !.accepted =
             [i \in DOMAIN @ |-> to_token(@[i], EventOf!indexed_params(e, TRUE)[k].kind)]]]

(* A topic for each indexed parameter, of which three reach the filter. *)
raw_filter(e, topics) ==
  [k \in 1..3 |->
     IF k \notin DOMAIN topics THEN EventOf!AnyTopic
     ELSE [topics[k] EXCEPT !.accepted =
             [i \in DOMAIN @ |-> to_token(@[i], EventOf!indexed_params(e, TRUE)[k].kind)]]]

filter(e, topics) == expect(EventOf!topic_filter(event(e), raw_filter(e, topics)))

wildcard(e) == [k \in DOMAIN EventOf!indexed_params(e, TRUE) |-> EventOf!AnyTopic]

event_parse_log(e, l) ==
  AndThen(parse_log(event(e), l), LAMBDA params :
    take_all([i \in DOMAIN params |-> params[i].value], Types(e.inputs)))

-----------------------------------------------------------------------------
(* A program uses an operation. *)

NoReply == [made |-> FALSE, from |-> <<>>, data |-> <<>>]

(* The values that a program may have for these types. *)
AllGiven(ts) ==
  FoldLeft(LAMBDA chosen, t : {Append(vs, v) : vs \in chosen, v \in Given(t)}, {<<>>}, ts)

(* What expect(INTERNAL_ERR) does with a result. *)
Produce(res, next) ==
  /\ phase' = IF IsOk(res) THEN next ELSE "Panic"
  /\ output' = res.val

(* encode_input, and call, which keeps the decoder for the answer. *)
Call ==
  /\ phase = "compiled"
  /\ \E f \in Range(abi.functions) : \E vs \in AllGiven(Types(f.inputs)) :
       /\ item' = Item("function", f) /\ given' = vs
       /\ Produce(encode_input(f, vs), "sent")
  /\ UNCHANGED <<attrs, abi, reply, answer>>

Deploy ==
  /\ phase = "compiled"
  /\ \E inputs \in Range(abi.constructor) : \E vs \in AllGiven(Types(inputs)) :
       /\ item' = Item("constructor", inputs) /\ given' = vs
       /\ Produce(constructor(inputs, Bytecode, vs), "sent")
  /\ UNCHANGED <<attrs, abi, reply, answer>>

(* Topic::from an Option or a Vec of values of the parameter's type. *)
TopicsFor(t) ==
  {EventOf!AnyTopic, EventOf!OneOf(<<>>)} \cup {EventOf!OneOf(<<v>>) : v \in Given(t)}
    \cup {EventOf!OneOf(vs) : vs \in {vs \in [1..2 -> Given(t)] : vs[1] # vs[2]}}

AllTopics(ts) ==
  FoldLeft(LAMBDA chosen, t : {Append(s, topic) : s \in chosen, topic \in TopicsFor(t)},
           {<<>>}, ts)

(* filter and wildcard_filter. *)
Watch ==
  /\ phase = "compiled"
  /\ \E e \in Range(abi.events) :
       \E topics \in AllTopics(Types(EventOf!indexed_params(e, TRUE))) \cup {wildcard(e)} :
         /\ item' = Item("event", e) /\ given' = topics
         /\ Produce(filter(e, topics), "watching")
  /\ UNCHANGED <<attrs, abi, reply, answer>>

Emitter == INSTANCE LogSpec WITH Signature <- long_signature

AsTokens(vs, ts) == [i \in DOMAIN ts |-> to_token(vs[i], ts[i])]

(* The answer of a reader. *)
Read(res, next) ==
  /\ answer' = res
  /\ phase' = IF res.status = "Panic" THEN "Panic" ELSE next

(* The contract answers a call, or something else does. *)
DecodeOutput ==
  /\ phase = "sent" /\ item.part = "function"
  /\ LET ts == Types(item.op.outputs)
     IN  reply' \in
           {[made |-> TRUE, from |-> vs, data |-> Emitter!EncAll(AsTokens(vs, ts), ts)] :
              vs \in AllGiven(ts)}
           \cup [made : {FALSE}, from : {<<>>}, data : Junk]
  /\ Read(decode_output(item.op, reply'.data), "answered")
  /\ UNCHANGED <<attrs, abi, item, given, output>>

(* The contract emits the event, or a log comes from elsewhere. *)
ParseLog ==
  /\ phase = "watching"
  /\ LET ts == Types(item.op.inputs)
     IN  reply' \in
           {[made |-> TRUE, from |-> vs, data |-> Emitter!Emission(item.op, AsTokens(vs, ts))] :
              vs \in AllGiven(ts)}
           \cup [made : {FALSE}, from : {<<>>}, data : StrayLogs(item.op)]
  /\ Read(event_parse_log(item.op, reply'.data), "parsed")
  /\ UNCHANGED <<attrs, abi, item, given, output>>

Init ==
  /\ attrs \in Invocations
  /\ phase = "derive" /\ abi = Nothing /\ item = NoItem
  /\ given = <<>> /\ output = <<>> /\ reply = NoReply /\ answer = Err

Next ==
  \/ Derive \/ Compile
  \/ Call \/ Deploy \/ DecodeOutput
  \/ Watch \/ ParseLog

Spec == Init /\ [][Next]_vars
-----------------------------------------------------------------------------
IsValue(t) == t.kind \in Emitter!ValueKinds

(* Parameters of an event whose values its log does not hold. *)
Hashed(e) == \E i \in DOMAIN e.inputs : e.inputs[i].indexed /\ ~IsValue(e.inputs[i].kind)

(* Two parameters of one name in the ABI, or of none. *)
Namesakes(e) == ~IsInjective([i \in DOMAIN e.inputs |-> e.inputs[i].name])

(* The event that the generated code looks for is that of the contract.    *)
SameEvent(e) == e.anonymous \/ UpperCamel[e.name] = e.name

(* INTERNAL_ERR is internal: the encoders never meet a token of a wrong    *)
(* type, and the readers get the tokens they ask for whatever bytes come.  *)
(* Only parse_log of an event fails, with parameters that are hashed or    *)
(* that share a name, which the tokens of the log are looked up by.        *)
InternalErrors ==
  item # NoItem /\ phase = "Panic" =>
    /\ item.part = "event" /\ reply # NoReply
    /\ Hashed(item.op) \/ Namesakes(item.op)

(* What the generated functions send is the call in the ABI's layout, by   *)
(* the types of the ABI: behind the selector of the function, or behind    *)
(* the code.                                                               *)
SendsTheCall ==
  phase = "sent" =>
    LET inputs == IF item.part = "function" THEN item.op.inputs ELSE item.op
        ts     == Types(inputs)
    IN  output = (IF item.part = "function" THEN short_signature(item.op.name, ts) ELSE Bytecode)
                   \o Emitter!EncAll(AsTokens(given, ts), ts)

(* The results that a contract returns are the values the program gets, in *)
(* the order of the ABI.                                                   *)
GetsTheResults ==
  phase = "answered" /\ reply.made => answer = Ok(reply.from)

(* A log of the contract's event becomes the values of the event, in the   *)
(* order of its fields, if the ABI's name for it is in upper camel case.   *)
(* If it is not, the log is refused as another event's; and if a parameter *)
(* is hashed, the hash is no value of its type and the reader panics.      *)
ReadsTheLog ==
  item.part = "event" /\ reply.made /\ ~Namesakes(item.op) =>
    IF ~SameEvent(item.op) THEN answer = Err
    ELSE IF Hashed(item.op) THEN answer = Panic
    ELSE answer = Ok(reply.from)

(* The filter selects, of the logs that the contract's event makes, those  *)
(* whose first three indexed values were asked for; and none, of an event  *)
(* whose name is not in upper camel case.                                  *)
Asked ==
  LET places == Emitter!Places(item.op, TRUE)
  IN  \A k \in DOMAIN given \cap (1..3) :
        given[k].kind = "OneOf" => reply.from[places[k]] \in Range(given[k].accepted)

SelectsTheLog ==
  item.part = "event" /\ reply.made /\ ~Hashed(item.op) =>
    (Emitter!Selects(output, reply.data.topics) <=> SameEvent(item.op) /\ Asked)

=============================================================================
