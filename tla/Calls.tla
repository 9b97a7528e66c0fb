------------------------------- MODULE Calls -------------------------------
(***************************************************************************)
(* The calls of functions, constructors and errors (function.rs,           *)
(* constructor.rs, error.rs): the arguments are checked against the types, *)
(* encoded, and put behind a selector or behind the code of the contract;  *)
(* and parse_log of events, in one step (event.rs).  A callable is [name,  *)
(* inputs, outputs], of which the types are kept; the decoder is what      *)
(* module DecodeSpec says of it.                                           *)
(***************************************************************************)
EXTENDS Encoder, TypeNames

CONSTANTS
  Keccak256,   \* the digest of each signature in play
  Keccak(_)    \* the digest of any bytes: an encoded topic

Decoding == INSTANCE DecodeSpec WITH
  Replacement <- <<>>, MemoryShort <- FALSE,
  types <- <<>>, data <- <<>>, validate <- FALSE, outcome <- "pending", tokens <- <<>>

decode(ts, bytes) ==
  LET decoded == Decoding!Decoded(ts, bytes, FALSE)
  IN  IF decoded.defined THEN Ok(decoded.val) ELSE Err

-----------------------------------------------------------------------------
(* The text "name(types)" that is hashed for a selector. *)
signed_text(name, ts) ==
  name \o <<"(">> \o Joined([i \in DOMAIN ts |-> write(ts[i])]) \o <<")">>

fill_signature(name, ts, n) == SubSeq(Keccak256[signed_text(name, ts)], 1, n)

short_signature(name, ts) == fill_signature(name, ts, 4)
long_signature(name, ts)  == fill_signature(name, ts, WordLen)

(* A mutant: the prefix is put behind the arguments. *)
encode_checked_before(prefix, ts, tokens) ==
  IF types_check(tokens, ts) = "yes" THEN Ok(encode(tokens) \o prefix) ELSE Err

(* Checked arguments behind a prefix. *)
encode_checked(prefix, ts, tokens) ==
  LET checked == types_check(tokens, ts)
  IN  CASE checked = "yes"   -> Ok(prefix \o encode(tokens))
        [] checked = "no"    -> Err
        [] checked = "panic" -> Panic

(* A mutant: the arguments are not checked. *)
function_encode_input_unchecked(f, tokens) ==
  Ok(short_signature(f.name, f.inputs) \o encode(tokens))

function_encode_input(f, tokens) ==
  encode_checked(short_signature(f.name, f.inputs), f.inputs, tokens)

function_decode_input(f, bytes)  == decode(f.inputs, bytes)
function_decode_output(f, bytes) == decode(f.outputs, bytes)

constructor_encode_input(c, code, tokens) == encode_checked(code, c.inputs, tokens)

error_encode(e, tokens) ==
  encode_checked(short_signature(e.name, e.inputs), e.inputs, tokens)

error_decode(e, bytes) == decode(e.inputs, bytes)

-----------------------------------------------------------------------------
EventOf == INSTANCE Filters WITH Signature <- long_signature, ParamNames <- Seq(STRING)

OwnSignature(e, l) ==
  e.anonymous \/ (l.topics # <<>> /\ l.topics[1] = EventOf!signature(e))

(* The topics, then the data, are decoded and put together by their names. *)
parse_log(e, l) ==
  LET params(topics, data) ==
        EventOf!decoded_params(e, EventOf!named_tokens(
          EventOf!named(EventOf!indexed_params(e, TRUE), topics)
            \o EventOf!named(EventOf!indexed_params(e, FALSE), data)))
      rest(topics) ==
        IF Len(topics) # Len(l.topics) - EventOf!to_skip(e) THEN Err
        ELSE AndThen(decode(EventOf!data_types(e), l.data), LAMBDA data : params(topics, data))
  IN  IF OwnSignature(e, l)
      THEN AndThen(decode(EventOf!topic_types(e), EventOf!flat_topics(e, l)), rest)
      ELSE Err
=============================================================================
