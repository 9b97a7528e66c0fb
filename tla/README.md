# ethabi in TLA+

`ethabi` reads the JSON description of an Ethereum contract, encodes calls to
it, and decodes the data that calls and events return. It is a library of pure
functions and a few sequential state machines (the recursive decoder, the
scanners of type names and of values, serde visitors). No thread is started,
nothing is persisted, no message is sent. What is hard in it is arithmetic on
lengths that the data itself claims, recursion over nested types, two sides
(encoder and decoder, loader and serializer, reader and writer) that have to
agree, and long sequences of legal steps that reach an odd state.

This directory is kept beside the code: TLA+ modules for its parts, TLC
configurations that check them on small instances, and TLAPS proofs about the
encoder for all values, about the decoder for all types and data, about both
together, about the parser of logs for all events and logs, and about the
contract for all ABIs.

## 1. Inventory

| component | state | operations | talks to |
|---|---|---|---|
| ABI types and words (`param_type/param_type.rs`, `token/token.rs`, `util.rs`) | none: values | `is_dynamic`, `is_empty_bytes_valid_encoding`, `type_check`, `types_check`, `pad_u32` | used by all |
| Encoder (`encoder.rs`) | the `Mediate` tree and the words appended so far | `encode` | tokens |
| Decoder (`decoder.rs`) | the open calls of `decode_param`, each with a slice, an offset and a vector | `decode`, `decode_validate` | types; the data comes from anywhere |
| Calls (`function.rs`, `constructor.rs`, `error.rs`, `signature.rs`) | none | `encode_input`, `decode_input`, `decode_output`, `signature` | type check, encoder, decoder |
| Events and logs (`event.rs`, `filter.rs`, `log.rs`) | none across calls | `filter`, `parse_log`, `parse_log_validate` | encoder, decoder (twice per log), Keccak |
| Contract (`contract.rs`, `operation.rs`) | constructor, maps of overloads, two flags | `load` (`visit_seq`), serialize, lookups | parameters, serde |
| Parameters (`param.rs`, `tuple_param.rs`, `event_param.rs`) | the fields read so far | `visit_map`, `set_tuple_components`, serialize | type names, serde |
| Type names (`param_type/reader.rs`, `writer.rs`) | the scanner's depth and pieces | `Reader::read`, `Writer::write` | signatures, parameters |
| Tokenizers (`token/mod.rs`, `strict.rs`, `lenient.rs`) | the scanner's depth, quote flag, last item | `tokenize`, `tokenize_array`, `tokenize_struct` | command line |
| Command line (`cli/src/main.rs`) | none | `encode`, `decode`, lookup by name or signature | all of the above |
| Code generation (`derive/`, `contract/`) | none | prints Rust source, whose functions call back into the library | contract, calls, events |

Which property makes each correct:

* **types**: the classification of a type and that of a value of it agree;
  a check lets exactly the fitting tokens pass.
* **encoder**: the bytes are the ABI's; offsets computed from predicted lengths
  point at the tails appended later.
* **decoder**: it reads inside the data, never panics, builds no more than the
  data has room for, stands at the right place after every return, and returns
  tokens of its types.
* **encoder and decoder**: each undoes the other; strict mode refines lax mode.
* **calls**: what passes the check round-trips through the peer.
* **events**: a log emitted by an event parses to its parameters in declaration
  order; a filter selects the logs of the values it was made of.
* **contract**: no overload is lost, none is reordered, loading what was
  serialized gives the contract back, every lookup that succeeds is of a
  declared item.
* **type names**: reading what was written gives the type back; a reader never
  panics.
* **parameters**: what an object means depends on its keys and not on their
  order; what is serialized is read again.
* **tokenizers**: a value that is written down is read as that value, amounts
  are exact, and no text in ASCII panics.
* **command line**: what is printed is read by the other side as what the user
  wrote.
* **code generation**: a program that calls the generated functions sends and
  receives the values it would by the ABI, and `INTERNAL_ERR` is internal.

The hazards, each at its line, are in `PROJECT.json`.

## 2. Plan

Built, in this order:

1. `AbiTypes`, `AbiTokens`, `Encoder`, `AbiSpec` (what the ABI promises),
   `Decoder`, `Session` and `Codec` (their composition), and `DecoderProofs`.
2. `Events`, `Filters` and `LogParser`, which runs the decoder once for topics
   and once for data; `EventLog` adds the user and the emitter of `LogSpec`, which
   follows Solidity; the first part of `EventLogProofs`.
3. `Contract` reads operations one by one, serializes, loads again, and answers
   lookups, those of the command line included; `ContractProofs`.
4. `DecodeSpec`, an abstract decoder that finds each token by its position, and
   `DecoderImplements`: the machine implements it (the last part of
   `DecoderProofs`), and from it the first part of `CodecProofs`.
5. `TypeNames` (Reader and Writer) and `ParamJson` (the visitors over fields).
6. `Tokenizer`, `Calls` (selectors, functions, constructors, errors, parsing a
   log in one step) and `Cli`, which composes them with the encoder and the
   decoder into what a user of the command line sees.
7. `Bindings`: what the derive macro generates, and programs that use it.
8. `Induction` and `Recursion`, by which the proofs reason about types nested
   without bound, and about functions defined by recursion (see 5).
9. `EncoderProofs` (what is encoded is what the ABI defines) and the rest of
   `CodecProofs` (encoder and decoder undo each other), for which the encoder
   became recursive functions over tokens. `EncodingProofs` has what sessions and
   logs both need of it.
10. The rest of `EventLogProofs`: what `parse_log` returns in one step, and from it
   that emitted logs are parsed, that strict parsing is exact, and that filters
   select.

Left:

* Proofs about the calls of `Calls` and the programs on top of it, which need
  readers of names and tokenizers without recursive operators.
* The serde of topic filters and the state mutability of functions, which are
  small and keep no state.

How the modules build on each other (left of the arrow is extended):

    AbiTypes -> AbiTokens -> Encoder, AbiSpec
    AbiTypes, Results -> Events
    Encoder, Events -> Filters
    AbiTypes, Results -> Decoder -> DecoderImplements (with DecodeSpec), DecodeCost
    Decoder, Encoder -> Session
    Session, AbiSpec -> Codec
    Decoder, Events -> LogParser
    LogParser, Filters (with LogSpec) -> EventLog
    Text -> TypeNames -> ParamJson
    Encoder, TypeNames (with DecodeSpec, Filters) -> Calls
    Calls, Tokenizer (with LogSpec) -> Cli
    Calls (with LogSpec) -> Bindings
    Results -> Contract

and the proofs:

    Induction -> Recursion -> (instances in the modules below)
    Encoder, AbiSpec -> EncoderProofs
    DecoderImplements, EncoderProofs -> DecoderProofs
    DecoderProofs -> EncodingProofs
    Codec, EncodingProofs -> CodecProofs
    EventLog, EncodingProofs -> EventLogProofs
    Contract -> ContractProofs

## 3. Modules

### Types, encoder, decoder

`AbiTypes` has `ParamType` and `Token` as records (a kind, a number or bytes,
components), a word as a sequence of `WordLen` bytes below `Radix`, and the
conversions. In the code `WordLen = 32`, `AddrPad = 12`, `Radix = 256`,
`UsizeSize = 2^64`; most runs use 5, 2, 4 and 65536, which keeps every
distinction the code makes: the last four bytes of a word are a `u32` and one
byte before them has to be zero; an address has fewer bytes than a word; a sum
of two `u32` fits in `usize`. `u32` is then 0..255, so that offsets at the end of
the range are among the data that TLC enumerates. `Results` has the three ways
a call ends, `collect` on them, and the operator `?` (`AndThen`).

`AbiTokens` has `Token::is_dynamic` and `type_check`/`types_check`; the index
`param_type[i]` of a tuple yields `"panic"`. What the code defines by recursion is
a recursive function here: over types, whose `nodes` go down from a type to its
components, and over `Tokens`, which are nested at most `Depth` deep. The code has
no such bound; the theorems hold for every `Depth`.

`Encoder` follows `encoder.rs`, appending functions being modelled by the bytes
they append. A `Mediate` is what its methods return: the head and tail lengths it
predicts, and the bytes it appends (`Raw`, `RawArray`, `Prefixed`, `PrefixedArray`,
`PrefixedArrayWithLength`); `mediate_token` is one recursive function. Lengths and offsets wrap at `U32`, as in a
release build (a debug build panics there). Only the capacity hint of
`encode_head_tail` is left out.

`AbiSpec` is not code: it is the definition of the encoding in the ABI
specification, written over types (the code is written over tokens), with
mathematical integers. `is_value` says which tokens stand for values of a type.
`EncodingIsCanonical` compares the two.

`Decoder` is `decode_impl` and `decode_param` as a machine. Each open call on a
composite type is a frame of `stack`, the bottom one being the loop of
`decode_impl`; `base`/`off` are the slice `tail` and `new_offset`, `acc[k]` the
vector `tokens` of call k. There is one action for each arm of the match
(`DecodeInt` is two equal arms, `DecodeStaticComponents` and
`DecodeDynamicComponents` split both fixed arrays and tuples on `is_dynamic`),
`Start`/`Finish` for the two ends of `decode_impl` and `Leave` for a return to a
caller. A read yields a value, an `Err` or a `Panic`; sums wrap at `UsizeSize`
(`UAdd`). `try_reserve_exact` may fail for more than `AllocLimit` elements and
always succeeds below: both outcomes are explored. `from_utf8_lossy` is external
and is modelled by what it does to bytes that are not UTF-8 (`InvalidUtf8`,
replaced by `Replacement`, which is longer).

`DecodeSpec` says what decoding promises, in one step: a caller's question is
pending until it is answered. A value is found by its position: its head is as
far from the first head as the types before it take, offsets count from there,
numbers do not wrap, and a position outside of the data makes the value
undefined. `DecoderImplements` maps the machine to it: the stack, the cursors
and the vectors are internal, `outcome` is the status and `tokens` the bottom
vector. The property `Implements` is `Abstract!Spec`.

`DecodeCost` bounds what a call builds: `most` is the number of tokens that a value
of a type can be made of, given the length of the data (`room` is how many elements
of an array it has place for). Elements may share their tails, so the bound is
the product of the levels of nesting.

`Session` puts encoder and decoder together: a caller's tokens are checked and
encoded (`encode_input` without its selector), or data arrives from elsewhere;
then `decode`, `decode_validate` and again `encode` and `decode` run on it, each as
the machine of `Decoder`. `Codec` adds the ABI's encoding, and the properties that
speak of it: `Meant` is what a caller's tokens are to be read as (`as_read` fills
up a short `bytesN`), `FitsU32` that all offsets of an encoding are `u32`.

### Events and contracts

`Events` has the pure parts of `parse_log_inner`: the parameters that are indexed
and those that are not (`split`), the types that topics are read as, the topics
laid end to end (`flat`), and how tokens become parameters by name.
`named_tokens` is the `BTreeMap` that is collected, by which later values of a name
replace earlier ones. `Filters` has `Event::filter`. Keccak and the signature
hash are constants: the runs give them functions that are injective on the
values that occur.

`LogParser` is a call of `parse_log` or `parse_log_validate` on any event and log:
`ParseLog`, `DecodeTopics` and `DecodeData` are the three parts of
`parse_log_inner` before, between and after its two calls of the decoder, each of
which runs as the machine of `Decoder` (`DecoderStep`). `EventLog` adds the user
of one event, who first computes a filter (`Filter`) and then has a log parsed
(`Parse`): its steps are those of `LogParser` and the one of the filter.

`LogSpec` is not code: it is the log that a contract emits, and a node's
selection of logs, after the Solidity documentation, over `AbiSpec`.

`Contract` has the loop of `visit_seq` (`NextElement`, `LoadFails`, `Loaded`), then
`serialize` (`WriteConstructor`, `WriteOverload`, `NextKey`, `NextMap`), then the
same loop over what was written (`Reload`). A map is a function from names to
sequences. Names are numbers, as only their order counts; what follows the first
parenthesis of a name in an ABI is the field `rest`, which `sanitize_name` empties.
The parameters of an operation are one value, written in signatures. `kept` and
`flatten` are what a loop over a list leaves: the operations a lookup looks for,
and the overloads of all names one after the other. The lookups
and the iterators are operators over the state, because they change nothing.

### Text: type names, parameters, values

A text is a sequence of lexemes: a character, or a word whose letters are never
taken apart ("bool", "tuple"). `Text` has the cuts that Rust makes: positions
are counted in characters and slices are made at bytes, so a wide character is
two lexemes, `Lead` and `Cont`, and a slice that starts behind its end, or in the
middle of a character, is a `Panic`.

`TypeNames` is `Reader::read`, whose scan of a tuple is a fold over the characters
with the code's counters (`nested`, `top`, `last`, the lists of members), and
`Writer`.

`ParamJson` is the three visitors (`Param`, `EventParam`, `TupleParam`) as one
machine with a stack of open objects: an action for each key, `ReadComponents`,
`OpenComponent` and `EndComponents` for the list of members, `RefuseField` for a
duplicate or a value of a wrong type, `UnknownField` for a key that no arm knows
(its value is not taken out of the map: text fails there, buffered content goes
on, which `streamed` tells apart), and `EndMap` with `set_tuple_components`. Then
`WriteAndReread` serializes the parameter and reads it again.

`Tokenizer` is the strict and the lenient tokenizer and the `Display` of tokens.
The scanners of arrays and tuples are folds with the code's depth, quote flag
and "last item taken" flag. Digits are of smaller bases (`HexBase`, `Ten`), and
the units have fewer digits (`Decimals`); arithmetic of `Uint` is checked, as in
the code.

`Calls` has what is pure in `function.rs`, `constructor.rs`, `error.rs` and
`signature.rs`, with the decoder as the function that `DecodeSpec` defines (run
`decoder_implements` is why that is sound), and `parse_log` in one step.

### Programs

`Cli` is one session of the command line and its surroundings: an encode command
for parameters, a function, a constructor or an error; the contract or the
caller that reads the encoding (`Receive`); a contract's answer and the decode
commands (`DecodeCallOutput`, `DecodeParams`, `DecodeLog`); and the encode command
that gets what was printed (`EncodeAgain`).

`Bindings` is the derive macro. `Derive` finds the path, loads the contract and
expands it; `Compile` is rustc, by the rules that the generated source depends
on (names of one scope differ, are no keywords and hide nothing that is still
used; fixed arrays have no type in it); `Call`, `Deploy`, `DecodeOutput`, `Watch`
and `ParseLog` are the generated functions, from Rust values to bytes and back.
The conversions of names (heck) are constants, because they are external.

`MCData` and the modules `MC...` hold the types, data, calls, logs, ABIs, objects,
texts and contracts of the runs. Definitions whose comment begins "A mutant" are
plausible mistakes, used only to test the properties.

## 4. Runs

| run | module, cfg | what it shows |
|---|---|---|
| `decoder` | MCDecoder, MCDecoder.cfg | all data of up to 3 words of any of 7 kinds, all of 4 words of the 5 kinds that are offsets and lengths, also cut by 1 or 4 bytes, for 30 lists of types, both modes: `TypeOK`, `StackOK`, `NoPanic`, `CursorAtHead`, `FollowsTypes` |
| `decoder_implements` | MCDecoder, MCDecoderImplements.cfg | `TokensWithinData` and `Implements`, for the types whose steps depend on claimed lengths, with data that claims an array of 251 empty tuples |
| `codec` | MCCodec, MCCodec.cfg | for every caller's value of 25 types and 5 lists, for misfit tokens, tuples with too few and too many members at two depths, short `bytesN`, lengths around the end of `u32`, and for arbitrary data: `EncodingIsCanonical`, `RoundTrip`, `StrictRefinesLax`, `Normalising`, `ChecksCalls`, `StaticStrict` |
| `event_logs` | MCEventLog, MCEventLog.cfg | for 6 events (indexed parameters first, last and between, reference types, anonymous with one and with four topics, none): every log they emit for two values of each elementary type, every filter of one or two values per topic, and arbitrary logs of up to 3 topics and 2 words; both modes |
| `contract` | MCContract, MCContract.cfg | every sequence of up to 4 of 12 elements: overloads that differ in inputs, in results, or only behind a parenthesis, names shared by functions, events and errors, two constructors, flags, and an element that is no operation |
| `abi_json` | MCParamJson, MCParamJson.cfg | objects of each visitor with up to 4 fields in every order, repeated, unknown and of a wrong type, components three deep, and every type name of up to 5 of 7 lexemes, from text and from buffered content |
| `cli` | MCCli, MCCli.cfg | values of 18 types and 2 lists written as text, in both modes, every text of up to 4 lexemes, amounts with units, and logs, through encode, the other side, decode and encode again |
| `bindings` | MCBindings, MCBindings.cfg | contracts of one and of two operations, 4 functions and 6 events that compile, 15 that do not, deployed, called, answered, watched and fed with logs |

Four words are enough for an offset that leads to a length that leads to a
second offset and its target, the longest chain a pair of nested dynamic types
needs, and for elements after it; the words contain offsets that point before,
into, at the end of and past the data, and one close to the end of `u32`.
`AllocLimit = 1` lets the reservation fail in run `decoder`; in the others it is
above all lengths, because a failed reservation is no answer about the data.

In run `codec`, `Longs` puts the second of two byte strings at the last offset
that is a `u32`, at the first that is not, and one word around: `EncodingIsCanonical`
holds up to that point and not beyond (`FitsU32`). `Shorts` are `bytes3` tokens with
fewer bytes, which the check passes: they are read at their full length (`Meant`),
except those with no bytes, from which no word is made and which are no values
(`is_value`). Values of four more types (`Odd` in MCCodec) are passed alone:
`bytesN` with N = 0 or more than a word, of which nothing is a value, `string[0]`,
whose token the encoder takes for a static one, and the empty tuple, whose
encoding decode refuses for being empty (`Decodable`). No data is received for
these four, because encoder and decoder disagree on them; run `decoder` feeds data
to all four. How they disagree on `string[0]`, which is also passed before and behind
other values, is `EmptyArraysVanish`: nothing is written for it, and a word of offset is
read. `ChecksCalls` is about what does not fit: a tuple with too many members makes
the check panic, at any depth, and nothing else does. Types are nested at most three deep, so `Depth = 3` holds every token.

Four elements of an ABI are two overloads of one name with something before,
between or after them, which is what order and loss depend on. The properties
of run `event_logs`: a log that was emitted is parsed to its parameters in the
order of their declaration (`ParsesEmission`), no log panics (`ParseNeverPanics`),
what is parsed follows the declaration (`ParamsFollowInputs`), strict parsing is
exact for plain words (`StrictLogExact`), and a filter on values selects exactly
the logs of these values (`FilterSelects`). Those of run `contract`: no overload
lost or out of order (`KeepsOverloads`), each under its own name (`FiledByName`), no
empty list (`NoEmptyOverloads`), the round trip, which the iterators see too
(`ReloadSame`), and a lookup by signature, or by a name that is not overloaded,
always finds (`SignatureSelects`).

Run `abi_json`: an object is read iff it is well-formed, to what its keys name,
whatever their order (`OrderIrrelevant`); what was serialized is read to the same
parameter (`ReloadsSame`); only a text that is not ASCII or has a "]" without its
"[" panics (`PanicsOnlyUnclosed`); and a type without tuples nested twice is read
from its name (`ShallowReadsBack`). Five lexemes hold a tuple in a tuple with a
comma, or a tuple with one dimension; deeper names come from the components.

Run `cli`: the other side reads what the texts stood for (`EncodedIsRead`);
that is what was written down, in both modes, and a word in hexadecimal is one even
if its digits are all decimal (`ReadsWhatWasMeant`); no text in ASCII panics
(`AsciiNeverPanics`); amounts with units are exact or
refused (`NumbersExact`); a log is printed value by value (`PrintsTheLog`); and what
was printed can be encoded again, except for integers with zeros in front: these
are refused in strict mode, and in lenient mode are read as what they were iff they
are below `Ten` (`PrintedReadsBack`). `Radix = 25` is the square of
`HexBase = 5`; with `Ten = 3` the amounts go past the largest word. Four lexemes
are one list inside of another of the other kind, a comma inside of quotes, or
a comma on either side of an item; longer lists come from the values that are
written down.

Run `bindings`: only `parse_log` ever panics, for hashed parameters or namesakes
(`InternalErrors`); a call sends what the ABI says (`SendsTheCall`), its results
(`GetsTheResults`) and the logs of its events (`ReadsTheLog`) become the values,
and the filter selects the logs asked for (`SelectsTheLog`), both if the event's
name is in upper camel case.

Invariants that only say what the variables of a composed module range over are
not stated: the properties name their values.

### Disagreements between code and documentation

Each has a run that TLC ends with a counterexample.

| run | the code | the documentation |
|---|---|---|
| `codec_dynamic_refused` | `decode_validate` refuses every encoding with a tail | CHANGELOG.md:9 "fails if there is leftover data" |
| `event_unnamed_params` | parameters of one name all get the value of the last | event.rs:185 |
| `event_reference_filter` | a filter on a string or an array hashes its call encoding, not the one of topics | event.rs:113 |
| `codec_empty_refused` | `string[0]` is encoded to no bytes, and decode reads an offset (decoder.rs:200) | param_type.rs:49 "whether a zero length byte slice (`0x`) is a valid encoded form" |
| `decoder_narrow_usize` | `offset + len` (decoder.rs:80) wraps where `usize` has 32 bits, and the slice panics | CHANGELOG.md:55 "Fix out of bounds access resulting in panic" |
| `abi_json_nested` | a tuple that closes three deep is moved to the outermost list (reader.rs:87) | reader.rs:33 "build the nested tuple structure" |

Met while modelling; the properties name these cases, or the inputs leave them
out:

* Decoder: a boolean word 2 is accepted by `decode_validate` and read as false
  (decoder.rs:69); an array of elements without bytes, such as empty tuples, takes
  as many steps as the data claims, up to 2^32.
* Encoder: offsets wrap beyond `u32`; a tuple with a member too few passes
  `type_check` (token.rs:97), one with a member too many panics; `bytes64`
  (token.rs:31) is encoded in two words and decode advances by one; an empty
  token for `bytes3` is encoded to nothing.
* Contract: the entries of `Contract::events` (contract.rs:36 "maps signature to
  event") are by name.
* Command line: a scanner does not see quotes inside of brackets of the other
  kind; a list of one empty item is written as the empty list is; a decimal of as
  many digits as a word has is read as hexadecimal in lenient mode; values beyond
  the inputs of a function are dropped (main.rs:175); integers are printed
  without leading zeros, so that the strict tokenizer refuses them and the lenient
  one takes their digits for decimals if it can.
* Derive: an event is looked for by its name in upper camel case, which for
  another name is another signature; an indexed string, bytes or array makes
  `parse_log` panic, and so do namesakes of different types; the fourth indexed
  parameter of an anonymous event cannot be filtered; fixed arrays in results
  and events, overloads, names that become one in snake case, `param0` beside an
  unnamed parameter, an argument named `f`, `c`, `code` or `event`, and every
  keyword but "self" do not compile; a tuple, or the name "_", makes the macro
  panic.

### Fairness

None is assumed, and no property is about liveness. Every loop of this code is a
`for` over a list or a range that is fixed when it is entered, and every recursion
goes down a type, a token or an object that is finite: that a call returns holds by
the shape of the code, whatever its bounds are. What could go wrong is for how long
it runs, because the data claims the lengths. A call of decode pushes each token
once, by the step that reads it or by the return of a call that was opened for it,
so a bound on the tokens is one on the steps: that is `TokensWithinData`. Deadlock
is not checked, because each machine stops when its call has returned: the
decoder, the parsed log, the reloaded contract, the reread parameter, the session of
the command line, the answered program.

## 5. Proofs

Every theorem is for all values of the constants that meet the named
assumptions. Those that state a property of a run:

| theorem | module | property |
|---|---|---|
| `TypeCorrect` | DecoderProofs | `TypeOK` of `Decoder` |
| `CursorsInRange` | DecoderProofs | `StackOK`: each open call reads inside its slice and its types |
| `NeverPanics` | DecoderProofs | `NoPanic` |
| `AlwaysFollowsTypes` | DecoderProofs | `FollowsTypes`: one token of the right variant for each element passed |
| `AlwaysAtHead` | DecoderProofs | `CursorAtHead`: a cursor is at the sum of the heads before it |
| `DecoderImplementsSpec` | DecoderProofs | `Implements`: the refinement of `DecodeSpec` |
| `StrictAlwaysRefines` | CodecProofs | `StrictRefinesLax`: what `decode_validate` accepts, `decode` reads the same |
| `EncodingAlwaysCanonical` | CodecProofs | `EncodingIsCanonical`: `encode` writes what the ABI defines |
| `AlwaysRoundTrips` | CodecProofs | `RoundTrip`: `decode` reads back what was encoded |
| `AlwaysNormalises` | CodecProofs | `Normalising`, for `Reencodable` sessions |
| `StaticAlwaysStrict` | CodecProofs | `StaticStrict`, for `Exactable` sessions |
| `LogNeverPanics` | EventLogProofs | `ParseNeverPanics` |
| `ParsedFollowsInputs` | EventLogProofs | `ParamsFollowInputs` |
| `EmissionAlwaysParsed` | EventLogProofs | `ParsesEmission` |
| `StrictLogAlwaysExact` | EventLogProofs | `StrictLogExact`, for an `ExactableLog` |
| `FilterAlwaysSelects` | EventLogProofs | `FilterSelects` |
| `ContractTypeCorrect` | ContractProofs | `TypeOK` of `Contract` |
| `OverloadsNeverEmpty` | ContractProofs | `NoEmptyOverloads` |
| `AlwaysFiledByName` | ContractProofs | `FiledByName` |
| `SignatureAlwaysSelects` | ContractProofs | `SignatureSelects` |
| `AlwaysKeepsOverloads` | ContractProofs | `KeepsOverloads` |
| `AlwaysReloadsSame` | ContractProofs | `ReloadSame` |

`ParsesAtOnce` (EventLogProofs) states no property of a run: what `parse_log` returns
is `ParsedAtOnce`, the values that `DecodeSpec` finds in the topics and in the data,
looked up by name. The theorems on emitted logs and on strict parsing use it.

### Assumptions

* `AbiTypes`: the sizes of words and bytes (`WordAssumption`, `WidthAssumption`),
  the shape of types (`ParamTypesAssumption`), and that a type is finite, which
  is to say that some number, `nodes`, goes down from a type to its components
  (`FiniteTypesAssumption`). No bound is put on the depth.
* `AbiTokens`: tokens have a depth (`DepthAssumption`), whichever it is.
* `Decoder`: data are slices of at most half of `usize` (`InputsAssumption`).
* `Wide`, a hypothesis of the theorems about decoding: twice the sum of the
  largest `u32`, or of N for a `bytesN` in play, and two words fits in `usize`.
  Without it `offset + len` (decoder.rs:80) can wrap, and the slice panics.
* `Session`: callers' types are types, their tokens are tokens, and tokens that
  pass the check encode to bytes that fit in a slice (`CallsAssumption`); data that
  a session receives are `Inputs`.
* `Roomy`, a hypothesis of the theorems about sessions, except
  `EncodingAlwaysCanonical`: no reservation fails. A `decode` that runs out of
  memory where a later `decode_validate` does not is an `Err` which says nothing of
  the data, so without it the properties are false; with `AllocLimit` at 300
  elements, the run `codec` meets it.
* `Reencodable`, a condition on the session in `AlwaysNormalises`. `Normalising` is
  about data from anywhere, and there are three kinds of data of which it is
  false: the types are not `usual` (a `bytesN` with N = 0 or more than a word, or an
  array of no elements of a dynamic type: see "Met while modelling"), what was
  read encodes to so many bytes that an offset is no `u32` (data of a few words can
  claim one tail many times), or it encodes to none and decode refuses to read
  that. It also says that what was read is nested within `Depth`.
* `Exactable`, in `StaticAlwaysStrict`, says for the second half of `StaticStrict` that
  the types are `usual`, that a token returned is nested within `Depth`, and that the
  data is shorter than the longest encoding. The first half, the round trip of
  values of static types under `decode_validate`, is `StaticAlwaysRoundTrips` and
  needs no such condition.
* `LogParser`: an event has parameters, a log has topics and data, and both are
  slices (`SessionsAssumption`); a reference type in a topic is read as a word of
  bytes (`TopicAssumption`). Nothing is assumed of the hash of a signature, and of
  Keccak only that it is a word, where a log with such a topic is a log.
* `EventLog`: a log said to be emitted is `LogSpec`'s emission of some values, each
  `Settled`, a `bytesN` with its N bytes (`EmittedAssumption`); a raw filter is three
  topics over tokens (`RawAssumption`). Nothing is assumed of other logs.
* `Roomy`, in the theorems on parsing that say more than safety (`ParsesAtOnce`,
  `EmissionAlwaysParsed`, `StrictLogAlwaysExact`), as for sessions; it includes that
  the parameters of an event can be reserved, and run `event_logs` meets it.
* `ExactableLog`, a condition on the result in `StrictLogAlwaysExact`, says of a log
  that was accepted that it is short enough for offsets that are `u32`, that the
  types are `usual`, and that the values returned are nested within `Depth`. Every
  state of run `event_logs` meets it.
* `Contract`: names are integers, since only their order counts
  (`NamesAssumption`), and an ABI is a finite sequence of operations and of
  elements that are none (`SourcesAssumption`).

TLC evaluates each of them on the constants of the runs.

### Induction and recursion

The theorems of the library about induction take an operator as a parameter,
which the provers do not instantiate. `Induction` has them for sets: with
`S == {x \in Dom : P(x)}`, the lemma `MeasureInduction` says that S is all of `Dom`
if an element is in S as soon as all elements of smaller measure are. It is
proved from the well-foundedness of the numbers.

A recursive function is, in TLA+, some function that obeys its definition, if
there is one. `Recursion` proves that there is one where the definition looks only
at arguments of a smaller measure (`Defined`), by gluing functions that obey it
below n. An instance for each function so defined, of types (`is_dynamic`,
`head_size`, `enc`, `is_value`, `as_read`, the three functions of `DecodeSpec`, ...), of
tokens (`token_is_dynamic`, `mediate_token`) and of sequences and numbers (`Total`,
`Power`, `split`, `flat`, `kept`, `flatten`, `visited`) gives the equation that the proofs
then use (`SplitEquation`, `ValueEquation`, `EncEquation`, ...). `TokensTo` is itself
one, over the depth.

### The encoder

`PredictedLengths` is why offsets are right: the lengths that `Mediate`s predict are,
modulo `U32`, those of the bytes they append, because sums and products modulo
`U32` may be wrapped early or late (`U32Sums`, `TotalU32`); a number below `U32` is
written by `pad_u32` as by `NumberWord` of `AbiSpec` (`PadU32Facts`, `NumberWordIs`). So
a row whose elements are encoded canonically, is (`RowCanonical`), as long as its
offsets are `u32`. `FitsU32` asks that of the length: every tail has at least a
word, so no offset is beyond `Len - WordLen`, and `Len < U32 + WordLen` is enough;
`Longs` in run `codec` has encodings on either side. `AllCanonical` is the induction
over the type, `EncodeIsCanonical` its use for `encode`.

### The decoder

`NoPanic` is not inductive: a slice is taken at an offset that was computed calls
ago. `IInv` adds `StackOK`, which says of each open call that its slice begins
inside the data, that its offset is at most one word past the end, that it has
a type for each element left, and that its caller still waits in its loop with
room for the word that the call returns past (`CalledBy`); and `DataFits`, the
bound on the data. The lemmas on the reads (`peek`, `as_usize`, `take_bytes`,
`open_array`, `open_tail`) show that with such a frame no sum wraps and each
slice is in range, and that an offset or base they return is again in range.
One lemma per action shows that `IInv` is preserved.

`TInv` adds `TypedCalls`: the open calls are on the types that their callers have
come to, and each vector has a token of the right kind for each element passed.
Every step but `Start` and `Finish` either pushes a token, opens a call or leaves
one; the lemmas on these three (`AfterPush`, `AfterOpen`, `AfterLeave`) say what
they do to the stack and to the vectors, and the later invariants are proved
over the three instead of over the actions one by one.

`HInv` adds that a cursor is at the head of its element. What is hard is `Leave`:
a static composite has advanced the cursor over its components, one call inside
of the other, and the sum has to be the `head_size` of the whole, which is by
induction over the type; the caller of a dynamic one goes on one word further,
however far the call has read.

`VInv` is what makes the machine implement `DecodeSpec`: the vector of an open
call has the values that the specification finds at the positions of the
elements passed (`Filled`), and what the specification says of the whole element
that a caller waits for is what it says of the row the call decodes (`Meaning`).
So a call that returns, returns the value of that element; and a call that
fails, fails where the specification finds no value, which makes the value of
every caller undefined up to the bottom (`LostRow`, `LostAnswer`) - except for a
reservation that fails, which `MemoryShort` allows. The reads of the code, on
slices with sums that wrap, and those of the specification, on positions
without bounds, are compared one by one (`PeekReads`, `TakeReads`, `LengthReads`,
`BytesRead`), with `Wide`.

### The two modes

By `DecoderImplementsSpec`'s invariant both calls answer as `DecodeSpec` does, so
`StrictRefinesLax` is about `DecodeSpec`: where a strict reader finds a value, the
lax reader at the same position finds the same one (`StrictIsLax`, by induction
over the type). A strict reader bounds bytes by whole words and a lax one by
their length (`LaxPayload`); it looks at the padding of an address; all else, the
positions above all, does not depend on the mode. `SInv` carries this through the
rounds: while `decode_validate` runs, the result of the lax round is all that
there is to read (`LaxHasRead`). `VInv` asks of the types of a call only that the
vector of tokens can be reserved or `MayRunOut` (`Asked`), so that it holds of
callers as well as of `Inputs`.

### The round trip

`EInv` is what a session has encoded: once a caller's tokens are accepted, `data`
is `encode(sent)` through the two rounds that read it. With `EncodeIsCanonical`,
`EncodingIsCanonical` follows.

`AllFound`, by induction over the type, is about `DecodeSpec`: a reader that stands
before the ABI's encoding of a value (`Holds`), with whatever bytes before and
after it, finds the value as it was meant (`Found`); a row is found if its
elements are, each at its head or where its offset leads (`RowFound`, which needs
that a static value takes as many bytes as `head_len` says, `AllMeasured`). By
`DecoderImplementsSpec`'s invariant the machine returns what `DecodeSpec` finds;
`RInv` = `SInv`, `EInv` and the two round trips is inductive (`RoundTripStep`). For
static types the encoding has no tail, so that the strict round has no leftover
either (`StaticCallLen`).

### Normalising

The other way round: what a reader finds in any data is a value, and one that is
read as it is (`Settled`, `AllFindValues`, by induction over the type): a `bytesN` has
N bytes, a string is valid UTF-8 because `from_utf8_lossy` made it so. This is where
the types have to be `usual`. `NInv` carries it through the rounds: what the lax
round returned is `ReadSettled`, so its encoding is canonical, and the machine that
reads it in round "again" finds the same.

### Strictness

Where a strict reader finds a value of a static type without booleans, the
value's encoding stands (`Stands`, `FindsEncodings`, `AllExact`): an address is padded
with zeros on its left, a `bytesN` on its right, and an integer is its whole word.
Rows of such values stand one after the other (`RowStands`), and
as `decode_validate` leaves nothing over, the data is the encoding (`DecodedExact`).

### The parser of logs

`PInv` holds across the two calls of the decoder: in each of them, `TInv` and that
a call ends with its bottom frame alone and complete (`Concluded`); in the
second, that the tokens of the topics are of the topics' types and as many as
the topics (`TopicsRead`). The map by name then has every name of the event
(each parameter is in one of the two parts of `split`), which is why looking it
up does not panic, and with names of their own each parameter gets its own
token (`SplitParts`, `ChainPaired`, `ParamsNamed`).

`LInv` adds `Reading`: while the topics, or the data, are decoded, `VInv` holds of that
call, so that it ends with what `DecodeSpec` finds (`Answered`), and the topics' values
are kept while the data is read. At the end the result is `ParsedAtOnce`; the rest
is about that operator, and about no step of the machine. As the emitter of
`LogSpec` lists parameters by their places and the code splits them one by one,
`PlacesMatch` says that both mean the same (`AllPlaced`, by induction over the list),
and `LookedUp` that the map by name brings the two parts back together in the
order of declaration. `EmittedTopics`, `TopicsMeant` and `DataMeant` say what is found
in an emitted log, from the round trip; a reference type in a topic is a word of
bytes that is read as it is (`HashRead`). For strict parsing, `EncodesExactly` brings
`DecodedExact` to both calls, and `EmissionOf` puts topics and data together again.

### The filter

`FilterSelects` needs no call of the decoder, only `FInv`: the filter was made of the
raw one. `TypeCheckEquation` and `CheckedKind` say that a token which is converted is
of the parameter's variant, so it is a value, its encoding is one word, and it is
not hashed (`ConvertedToken`). Different values have different words, because a word
is decoded to its value (`WordsDiffer`), so a topic of the filter accepts the word
of a value iff the raw one accepts the value (`ConvertedTopic`, `TopicSelects`). The
signature shifts the places by one, in the filter as in the log (`PlacesSelect`).

### The contract

`TypeOK`, `NoEmptyOverloads` and `FiledByName` together are inductive (`IInv`): the
maps are those of `Add`, which files one sanitized operation (lemmas `PushGood`,
`AddGood`), and serializing keeps them; `TypeOK` is needed because an element that
is written is taken from a map, and is read again by the second load.

`ReadOK` relates the maps to the elements read so far: each name has its
operations in their order, and no others; one element more is one operation
more at the end of one list, or none. `KeepsOverloads` follows. For `ReloadSame`,
`visited[s]` is the contract that the loop of `visit_seq` builds from the
operations s (a recursive function, by `Recursion`). While a contract is
serialized, `WritesPart` says that what has been written would load to the part
written so far, and shows the iterators the same; that holds however the names
of the maps are ordered, because an operation goes to the end of its own list.
While it is loaded again, `ReadsWritten` says that the contract is `visited` of
what has been read. At the end both are the contract as it was written.

### Only model-checked

`TokensWithinData`, whose measures are recursive over tokens, and `ChecksCalls`. The
properties of the parameters, of the command line and of the bindings: their
modules rest on the readers of names and the tokenizers, which are written with
recursive operators, and tlapm has no arithmetic in modules that reach one.
`Normalising`, `StaticStrict` and
`StrictLogExact` outside of `Reencodable`, `Exactable` and `ExactableLog`: there the runs
show them for the types and data listed, and "Met while modelling" says where
they fail.

## 6. Not modelled

The parsing of command line options, which structopt does; the serde of topics
and of topic filters (`filter.rs`) and the derived deserializers of operations;
the state mutability of functions, which is only carried along; the text of the
generated source, beyond the names and types in it; re-exports and feature flags; error texts; debug
builds, which panic where release builds wrap; stack overflow on very deep
types; memory exhaustion outside `try_reserve_exact`. Keccak-256, heck, serde's
JSON, hex and rustc are external: they are constants, or modelled by what the
code relies on.
