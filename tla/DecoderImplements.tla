-------------------------- MODULE DecoderImplements --------------------------
(***************************************************************************)
(* The machine of module Decoder implements the one-step specification of  *)
(* module DecodeSpec: its open calls, cursors and vectors are internal,    *)
(* and a caller sees a question that is pending until it is answered.      *)
(***************************************************************************)
EXTENDS Decoder

(* A reservation can fail: an array may claim to be as long as any u32,    *)
(* the others are as long as their types say.                              *)
MayRunOut ==
  \/ AllocLimit < U32
  \/ \E t \in ParamTypes : t.kind = "FixedArray" /\ t.size > AllocLimit
  \/ \E input \in Inputs : Len(input.types) > AllocLimit

Abstract == INSTANCE DecodeSpec WITH
  MemoryShort <- MayRunOut,
  outcome     <- IF status \in {"start", "running"} THEN "pending" ELSE status,
  tokens      <- IF status = "Ok" THEN acc[1] ELSE <<>>

(* decode and decode_validate answer, exactly once, with the tokens that   *)
(* the positions of the data define, and with Err if and only if they      *)
(* define none: the offsets that the calls of decode_param hand to each    *)
(* other never lead astray, wrap or stop the loop early.                   *)
Implements == Abstract!Spec
=============================================================================
