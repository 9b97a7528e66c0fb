----------------------------- MODULE MCDecoder -----------------------------
(***************************************************************************)
(* Decoder on every sequence of a few words, well formed or not, with a    *)
(* ragged end, for types that reach every arm of decode_param.             *)
(***************************************************************************)
EXTENDS DecoderImplements, DecodeCost, MCData

(* One type at a time, and lists in which a later type follows a call. *)
TypeLists ==
  {<<t>> : t \in MCParamTypes} \cup
  { <<>>,
    <<FixedBytesT(0), FixedBytesT(0)>>,
    <<FixedBytesT(7), UintT(8)>>,
    <<Flat, FixedArrayT(StringT, 2), BoolT>>,
    <<Pair, ArrayT(UintT(8)), BytesT>> }

MCInputs == [types : TypeLists, data : AllData]

(* For the answers: the types whose steps depend on the data, or where an  *)
(* offset leads from one call to another, or heads of several sizes follow *)
(* each other.  An array of empty tuples takes as many steps as it claims, *)
(* 251 here.                                                               *)
EmptyTuples == <<ArrayT(TupleT(<<>>))>>

ImplementsInputs ==
  [types : {<<ArrayT(UintT(8))>>, <<ArrayT(Pair)>>, <<ArrayT(ArrayT(BoolT))>>,
            <<AddressT>>, <<StringT>>, <<FixedBytesT(7), UintT(8)>>,
            <<FixedArrayT(Flat, 2)>>, <<FixedArrayT(StringT, 0), BoolT>>,
            <<Flat, FixedArrayT(StringT, 2), BoolT>>,
            <<TupleT(<<ArrayT(UintT(8)), FixedBytesT(3)>>)>>,
            <<Pair, ArrayT(UintT(8)), BytesT>>},
   data  : AllData]
  \cup [types : {EmptyTuples}, data : {Num(5) \o Num(U32 - 5), Num(10) \o Num(1) \o Num(2)}]
=============================================================================
