------------------------------ MODULE Session ------------------------------
(***************************************************************************)
(* A session that puts the encoder, the checks and the decoder together,   *)
(* as the encode_input and decode_input of functions, constructors and     *)
(* errors do and as the crate's round-trip tests do (tests.rs):            *)
(*                                                                         *)
(*   call    a caller has tokens for the types: encode_input checks them   *)
(*           and encodes them.  (Data that comes from elsewhere enters     *)
(*           the session after this round.)                                *)
(*   lax     decode reads the data;                                        *)
(*   strict  decode_validate reads the same data;                          *)
(*   again   decode reads the encoding of what it read in round lax.       *)
(*                                                                         *)
(* The steps of the rounds are those of the machine of module Decoder.     *)
(***************************************************************************)
EXTENDS Decoder, Encoder

CONSTANT Calls    \* what callers pass: types, and tokens fit for them or not

(* What encode writes are bytes, and no vector is longer than a slice.     *)
ASSUME CallsAssumption ==
  \A call \in Calls :
    /\ call.types \in Seq(ParamTypes)
    /\ call.tokens \in Seq(Tokens)
    /\ types_check(call.tokens, call.types) = "yes" =>
         /\ encode(call.tokens) \in Seq(Byte)
         /\ 2 * Len(encode(call.tokens)) < UsizeSize

VARIABLES
  sent,      \* the caller's tokens; <<>> when there is no caller
  called,    \* there is a caller
  round,     \* "call", "lax", "strict", "again" or "done"
  results    \* how each round that is over ended, and its tokens

session  == <<sent, called, round, results>>
allVars  == <<vars, session>>

Rounds == {"call", "lax", "strict", "again"}

Result(outcome, tokens) == [status |-> outcome, tokens |-> tokens]
NotYet == Result("none", <<>>)

(* Round r ends this way. *)
Conclude(r, res) == results' = [results EXCEPT ![r] = res]

(* The decoder is called on d. *)
CallDecoder(d, strict) ==
  /\ data' = d /\ validate' = strict
  /\ status' = "start" /\ stack' = <<>> /\ acc' = <<>>
  /\ UNCHANGED types

-----------------------------------------------------------------------------
(* Constructor::encode_input with no code before the encoding.  Function's *)
(* and Error's put a selector there, which their decoders do not expect:   *)
(* callers strip it.                                                       *)
EncodeInput ==
  /\ round = "call"
  /\ UNCHANGED <<sent, called>>
  /\ LET checked == types_check(sent, types)
     IN  \/ /\ checked = "yes"
            /\ Conclude("call", Result("Ok", sent))
            /\ CallDecoder(encode(sent), FALSE)
            /\ round' = "lax"
         \/ /\ checked # "yes"
            /\ Conclude("call",
                 Result(IF checked = "no" THEN "Err" ELSE "Panic", <<>>))
            /\ round' = "done"
            /\ UNCHANGED vars

DecoderStep ==
  /\ round \in {"lax", "strict", "again"}
  /\ Next
  /\ UNCHANGED session

Returned == Result(status, IF status = "Ok" THEN acc[1] ELSE <<>>)

Validate ==
  /\ round = "lax" /\ status \in Outcomes
  /\ Conclude("lax", Returned)
  /\ CallDecoder(data, TRUE)
  /\ round' = "strict"
  /\ UNCHANGED <<sent, called>>

EncodeAgain ==
  /\ round = "strict" /\ status \in Outcomes
  /\ Conclude("strict", Returned)
  /\ UNCHANGED <<sent, called>>
  /\ \/ /\ results["lax"].status = "Ok"
        /\ CallDecoder(encode(results["lax"].tokens), FALSE)
        /\ round' = "again"
     \/ /\ results["lax"].status # "Ok"
        /\ round' = "done"
        /\ UNCHANGED vars

Conclusion ==
  /\ round = "again" /\ status \in Outcomes
  /\ Conclude("again", Returned)
  /\ round' = "done"
  /\ UNCHANGED <<vars, sent, called>>

-----------------------------------------------------------------------------
InitCall ==
  /\ \E call \in Calls : types = call.types /\ sent = call.tokens
  /\ called = TRUE /\ round = "call"
  /\ data = <<>>

InitReceived ==
  /\ \E input \in Inputs : types = input.types /\ data = input.data
  /\ called = FALSE /\ round = "lax"
  /\ sent = <<>>

SessionInit ==
  /\ InitCall \/ InitReceived
  /\ results = [r \in Rounds |-> NotYet]
  /\ validate = FALSE /\ stack = <<>> /\ acc = <<>> /\ status = "start"

SessionNext ==
  \/ EncodeInput \/ DecoderStep \/ Validate \/ EncodeAgain \/ Conclusion

SessionSpec == SessionInit /\ [][SessionNext]_allVars

-----------------------------------------------------------------------------
(* decode_validate only refuses more: what it accepts, decode accepts, and *)
(* they read the same tokens, although they bound and cut bytes in         *)
(* different ways.                                                         *)
StrictRefinesLax ==
  results["strict"].status = "Ok" => results["strict"] = results["lax"]
=============================================================================
