------------------------------- MODULE Codec -------------------------------
(***************************************************************************)
(* What the sessions of module Session show of the encoder and the decoder *)
(* together, and of the encoder and the encoding that the ABI defines.     *)
(***************************************************************************)
EXTENDS Session, AbiSpec

Accepted == called /\ results["call"].status = "Ok"

(* The tokens of a caller, with every bytesN at its full length. *)
Meant == Result("Ok", [i \in DOMAIN sent |-> as_read[types[i]][sent[i]]])

(* Every length and offset of the encoding is a u32; behind the largest    *)
(* offset there is at least a word.                                        *)
FitsU32 == Len(EncAll(sent, types)) < U32 + WordLen

Encodable ==
  Accepted /\ (\A i \in DOMAIN sent : is_value[types[i]][sent[i]]) /\ FitsU32

(* decode refuses no bytes, unless all types are known to have none. *)
Decodable ==
  /\ Encodable
  /\ encode(sent) = <<>> => \A i \in DOMAIN types : is_empty_bytes_valid_encoding(types[i])

(* What encode_input produces is the encoding the ABI specification        *)
(* defines: the lengths predicted by head_len and tail_len, from which the *)
(* offsets are computed, are those of the bytes appended later, up to the  *)
(* last offset that is a u32.                                              *)
EncodingIsCanonical ==
  Encodable /\ round \in {"lax", "strict"} => data = EncAll(sent, types)

(* What a caller's checked tokens are encoded to decodes to those tokens.  *)
RoundTrip == Decodable /\ results["lax"] # NotYet => results["lax"] = Meant

(* Whatever the data was, the tokens decode returned encode to data that   *)
(* decodes to the same tokens: one decoding normalises the data.           *)
Normalising == results["again"] # NotYet => results["again"] = results["lax"]

(* A tuple in it, at any depth, has more members than its type has.        *)
overfull[t \in ParamTypes] == [token \in Tokens |->
  /\ token.kind = t.kind
  /\ \/ t.kind = "Tuple" /\ Len(token.subs) > Len(t.subs)
     \/ \E i \in DOMAIN token.subs \cap Parts(t, token) : overfull[TypeOf(t, i)][token.subs[i]]]

Overfull == \E i \in DOMAIN sent \cap DOMAIN types : overfull[types[i]][sent[i]]

(* Whatever a caller passes, encode_input decides about it before it       *)
(* encodes anything: values of the types are accepted, a token without a   *)
(* type is not, and only a tuple that has too many members, and no other   *)
(* number of arguments or of elements, makes the check panic.              *)
ChecksCalls ==
  called =>
    CASE results["call"] = NotYet         -> data = <<>>
      [] results["call"].status = "Ok"    -> Len(sent) = Len(types) /\ ~Overfull
      [] results["call"].status = "Err"   ->
           Len(sent) = Len(types) => \E i \in DOMAIN sent : ~is_value[types[i]][sent[i]]
      [] results["call"].status = "Panic" -> Len(sent) = Len(types) /\ Overfull

AllStatic == \A i \in DOMAIN types : types[i] \notin DynamicTypes

(* The data that decode_validate accepted is what encode makes of it. *)
Exact == round = "strict" /\ status = "Ok" => encode(acc[1]) = data

(* For static types decode_validate accepts every encoding, as it counts   *)
(* the bytes they take as the encoder does; and, leaving booleans aside,   *)
(* it accepts nothing but the one encoding of the tokens it returns.       *)
StaticStrict ==
  AllStatic =>
    /\ Decodable /\ results["strict"] # NotYet => results["strict"] = Meant
    /\ (\A i \in DOMAIN types : ~has_bool[types[i]]) => Exact

-----------------------------------------------------------------------------
(* The two sides disagree on what an array of no elements of a dynamic     *)
(* type is: the encoder sees a token without anything dynamic in it, the   *)
(* decoder a dynamic type.                                                 *)
IsHollow(t) == t.kind = "FixedArray" /\ t.size = 0 /\ t \in DynamicTypes

(* The arguments that are no such array. *)
Solid == SelectSeq([i \in DOMAIN types |-> i], LAMBDA i : ~IsHollow(types[i]))

Kept(args) == [j \in DOMAIN Solid |-> args[Solid[j]]]

(* The encoder writes the other arguments as though the hollow ones were   *)
(* not there, while decode expects a word of offset for each.  So it finds *)
(* a word too few, and refuses the encoding, if the others are static; if  *)
(* they have tails, it may take those for heads.                           *)
EmptyArraysVanish ==
  /\ Accepted /\ Len(Solid) < Len(types) /\ Len(data) < U32
  /\ \A j \in DOMAIN Solid : is_value[types[Solid[j]]][sent[Solid[j]]]
  => /\ round \in {"lax", "strict"} => data = EncAll(Kept(sent), Kept(types))
     /\ results["lax"] # NotYet /\ (\A j \in DOMAIN Solid : types[Solid[j]] \notin DynamicTypes) =>
          results["lax"].status = "Err"

-----------------------------------------------------------------------------
(* What the crate's documentation says and the code does not do. *)

(* decode_validate "fails if there is leftover data" (CHANGELOG 18.0.0):   *)
(* an encoding has none.                                                   *)
ValidateAccepts ==
  Accepted /\ results["strict"] # NotYet => results["strict"].status = "Ok"
=============================================================================
