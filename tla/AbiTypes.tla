------------------------------ MODULE AbiTypes ------------------------------
(***************************************************************************)
(* The types of the Ethereum ABI, and the machine words they are laid out  *)
(* in: ParamType (param_type/param_type.rs) with its two classifications,  *)
(* and the conversions between words and lengths (util.rs, decoder.rs).    *)
(*                                                                         *)
(* A word has WordLen bytes (32 in the code); its last four bytes are a    *)
(* big-endian u32 when it is read or written as a length or an offset.  A  *)
(* byte is a number below Radix (256 in the code).  UsizeSize is the       *)
(* number of values of usize: the arithmetic of the code on lengths wraps  *)
(* there in a release build.                                               *)
(***************************************************************************)
EXTENDS Integers, Sequences

CONSTANTS
  WordLen,      \* bytes of a word: 32
  AddrPad,      \* leading zero bytes of the word of an address: 12
  Radix,        \* values of a byte: 256
  UsizeSize,    \* values of usize: 2^64, or 2^32 on a 32-bit target
  InvalidUtf8,  \* the bytes that do not belong to a UTF-8 string
  ParamTypes    \* the types in play, closed under "is a component of"

(* Four bytes hold a u32, and a word has at least one byte before them. *)
ASSUME WordAssumption == /\ WordLen \in Nat /\ WordLen > 4
                         /\ AddrPad \in 0..WordLen

Byte == 0..(Radix - 1)
U32  == Radix * Radix * Radix * Radix

(* The crate is not written for targets whose usize is narrower than u32. *)
ASSUME WidthAssumption == /\ Radix \in Nat /\ Radix > 1
                          /\ UsizeSize \in Nat /\ UsizeSize >= U32

-----------------------------------------------------------------------------
(* ParamType: one record per variant.  "size" is the number a variant      *)
(* carries and "subs" the types it is made of.                             *)

Kinds == { "Address", "Int", "Uint", "Bool", "FixedBytes", "Bytes", "String",
           "Array", "FixedArray", "Tuple" }

ParamType(kind, size, subs) == [kind |-> kind, size |-> size, subs |-> subs]

AddressT          == ParamType("Address", 0, <<>>)
IntT(n)           == ParamType("Int", n, <<>>)
UintT(n)          == ParamType("Uint", n, <<>>)
BoolT             == ParamType("Bool", 0, <<>>)
FixedBytesT(n)    == ParamType("FixedBytes", n, <<>>)
BytesT            == ParamType("Bytes", 0, <<>>)
StringT           == ParamType("String", 0, <<>>)
ArrayT(t)         == ParamType("Array", 0, <<t>>)
FixedArrayT(t, n) == ParamType("FixedArray", n, <<t>>)
TupleT(ts)        == ParamType("Tuple", 0, ts)

ASSUME ParamTypesAssumption ==
  /\ ParamTypes \subseteq [kind : Kinds, size : Nat, subs : Seq(ParamTypes)]
  /\ \A t \in ParamTypes :
       /\ t.kind \in {"Array", "FixedArray"} => Len(t.subs) = 1
       /\ t.subs # <<>> => t.kind \in {"Array", "FixedArray", "Tuple"}

(* The sum of a sequence of numbers. *)
Total[ns \in Seq(Nat)] ==
  IF ns = <<>> THEN 0
               ELSE Total[SubSeq(ns, 1, Len(ns) - 1)] + ns[Len(ns)]

(* The types that t is made of, itself included.  Boxes hold no cycles:    *)
(* a type has finitely many, and more than each of its components.         *)
nodes[t \in ParamTypes] ==
  1 + Total[[i \in DOMAIN t.subs |-> nodes[t.subs[i]]]]

ASSUME FiniteTypesAssumption ==
  /\ nodes \in [ParamTypes -> Nat]
  /\ \A t \in ParamTypes : \A i \in DOMAIN t.subs : nodes[t.subs[i]] < nodes[t]

is_dynamic[t \in ParamTypes] ==
  \/ t.kind \in {"Bytes", "String", "Array"}
  \/ /\ t.kind \in {"FixedArray", "Tuple"}
     /\ \E i \in DOMAIN t.subs : is_dynamic[t.subs[i]]

DynamicTypes == {t \in ParamTypes : is_dynamic[t]}

is_empty_bytes_valid_encoding(t) ==
  t.kind \in {"FixedBytes", "FixedArray"} /\ t.size = 0

-----------------------------------------------------------------------------
(* Token: one record per value.  "val" is its bytes: the 20 bytes of an    *)
(* address, the word of an integer, <<0>> or <<1>> for a boolean, the      *)
(* bytes of bytes and strings; "subs" are the tokens it is made of.        *)

Token(kind, val, subs) == [kind |-> kind, val |-> val, subs |-> subs]

-----------------------------------------------------------------------------
(* Words and lengths. *)

Zeros(n)  == [i \in 1..n |-> 0]
IsZero(s) == \A i \in DOMAIN s : s[i] = 0

(* The bytes from..to-1 of s, numbered from 0 as the code numbers them. *)
Slice(s, from, to) == SubSeq(s, from + 1, to)

pad_u32(v) ==
  Zeros(WordLen - 4) \o << (v \div (Radix * Radix * Radix)) % Radix,
                           (v \div (Radix * Radix)) % Radix,
                           (v \div Radix) % Radix,
                           v % Radix >>

WordValue(w) ==
  ((w[WordLen - 3] * Radix + w[WordLen - 2]) * Radix + w[WordLen - 1]) * Radix
    + w[WordLen]

UAdd(a, b) == (a + b) % UsizeSize

(* (n + 31) / 32, the words that n bytes fill, and that many words of bytes. *)
WordsFor(n) == (n + WordLen - 1) \div WordLen

round_up_nearest_multiple(n) == (UAdd(n, WordLen - 1) \div WordLen) * WordLen
=============================================================================
