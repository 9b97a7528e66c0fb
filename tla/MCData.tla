------------------------------- MODULE MCData -------------------------------
(***************************************************************************)
(* The types and the data on which the modules are model-checked.          *)
(***************************************************************************)
EXTENDS AbiTypes, SequencesExt

CONSTANT MaxWords    \* words of data

(* A word of five bytes: a zero byte and a u32 of four digits to base 4. *)
Num(n)  == pad_u32(n)
(* A word that is no length, no bool and no address. *)
Junk    == <<3, 0, 3, 0, 0>>

(* Up to three words of any kind, or MaxWords words that are offsets into  *)
(* the data, lengths and small values.                                     *)
Words  == {Num(0), Num(1), Num(2), Num(5), Num(10), Num(U32 - 5), Junk}
Inside == {Num(0), Num(1), Num(2), Num(5), Num(10)}

WordData == UNION {[1..n -> Words] : n \in 0..(MaxWords - 1)}
              \cup [1..MaxWords -> Inside]

(* The same data with bytes cut off its end. *)
Ragged == {1, 4}

AllData ==
  LET whole == {FlattenSeq(ws) : ws \in WordData}
  IN  whole \cup {Slice(d, 0, Len(d) - r) :
                    d \in {x \in whole : Len(x) >= WordLen}, r \in Ragged}

Leaves == {AddressT, UintT(8), IntT(8), BoolT, BytesT, StringT,
           FixedBytesT(0), FixedBytesT(3), FixedBytesT(7)}

Pair     == TupleT(<<UintT(8), BytesT>>)
Flat     == TupleT(<<FixedArrayT(BoolT, 2), AddressT>>)

Composites ==
  { ArrayT(UintT(8)), ArrayT(BytesT), ArrayT(BoolT), ArrayT(ArrayT(BoolT)),
    ArrayT(Pair), ArrayT(TupleT(<<>>)), FixedArrayT(BoolT, 2), FixedArrayT(StringT, 2),
    FixedArrayT(StringT, 0), FixedArrayT(Flat, 2), FixedArrayT(Pair, 2),
    Pair, Flat, TupleT(<<>>), TupleT(<<Flat, StringT>>),
    TupleT(<<ArrayT(UintT(8)), FixedBytesT(3)>>) }

MCParamTypes == Leaves \cup Composites

(* U+FFFD, in two bytes. *)
MCReplacement == <<1, 2>>
=============================================================================
