--------------------------- MODULE EncodingProofs ---------------------------
(***************************************************************************)
(* The proofs about the encoder and the decoder together, which sessions   *)
(* and event logs are made of.                                             *)
(*                                                                         *)
(* That decode_validate only refuses more than decode does: by DecodeSpec, *)
(* which both implement, a strict reader that finds a value finds the one  *)
(* that a lax reader finds at the same position.                           *)
(*                                                                         *)
(* That an encoding is decoded to what was meant: a reader that stands     *)
(* before the encoding of a value finds it, by induction over the types.   *)
(*                                                                         *)
(* That decoding normalises: what a reader finds is a value again, and one *)
(* that is read back as it is.                                             *)
(*                                                                         *)
(* That decode_validate accepts no other encodings of static types: where  *)
(* a strict reader finds a value, the value's encoding stands.             *)
(***************************************************************************)
EXTENDS DecoderProofs

-----------------------------------------------------------------------------
(* A strict reader and the lax one in its place. *)

Lax(r) == [r EXCEPT !.strict = FALSE]

(* They read the same bytes and numbers, and go on together. *)
LEMMA LaxReads ==
  ASSUME NEW r \in Abstract!Reader
  PROVE  /\ Lax(r) \in Abstract!Reader /\ ~Lax(r).strict
         /\ \A n : /\ Abstract!Within(Lax(r), n) <=> Abstract!Within(r, n)
                   /\ Abstract!BytesAt(Lax(r), n) = Abstract!BytesAt(r, n)
                   /\ Abstract!Skip(Lax(r), n) = Lax(Abstract!Skip(r, n))
         /\ Abstract!IsNumber(Lax(r)) <=> Abstract!IsNumber(r)
         /\ Abstract!NumberAt(Lax(r)) = Abstract!NumberAt(r)
         /\ Abstract!Target(Lax(r)) = Lax(Abstract!Target(r))
         /\ Abstract!Rebased(Lax(r)) = Lax(Abstract!Rebased(r))
  <1> DEFINE q == Lax(r)
  <1>1. /\ q.data = r.data /\ q.base = r.base /\ q.at = r.at /\ ~q.strict
        /\ q \in Abstract!Reader
    BY Zenon DEF Lax, Abstract!Reader
  <1>2. q = [r EXCEPT !.strict = FALSE]
    BY DEF Lax
  <1> HIDE DEF q
  <1>3. \A n : /\ Abstract!Within(q, n) <=> Abstract!Within(r, n)
               /\ Abstract!BytesAt(q, n) = Abstract!BytesAt(r, n)
    BY <1>1 DEF Abstract!Within, Abstract!BytesAt
  <1>4. /\ Abstract!IsNumber(q) <=> Abstract!IsNumber(r)
        /\ Abstract!NumberAt(q) = Abstract!NumberAt(r)
    BY <1>3 DEF Abstract!IsNumber, Abstract!NumberAt
  <1>5. \A n : Abstract!Skip(q, n) = Lax(Abstract!Skip(r, n))
    BY <1>2 DEF Abstract!Skip, Lax, Abstract!Reader
  <1>6. /\ Abstract!Target(q) = Lax(Abstract!Target(r))
        /\ Abstract!Rebased(q) = Lax(Abstract!Rebased(r))
    BY <1>1, <1>2, <1>4, Zenon DEF Abstract!Target, Abstract!Rebased, Lax, Abstract!Reader
  <1> QED
    BY <1>1, <1>3, <1>4, <1>5, <1>6 DEF q

(* A reader that skips a number, or goes where an offset leads, is one. *)
LEMMA ReaderMoves ==
  ASSUME NEW r \in Abstract!Reader
  PROVE  /\ \A n \in Nat : Abstract!Skip(r, n) \in Abstract!Reader
         /\ Abstract!Rebased(r) \in Abstract!Reader
         /\ Abstract!IsNumber(r) => /\ Abstract!NumberAt(r) \in Nat
                                    /\ Abstract!Target(r) \in Abstract!Reader
  <1>1. r.at \in Nat /\ r.base \in Nat /\ r.data \in Seq(Byte) /\ WordLen \in Nat
    BY WordAssumption DEF Abstract!Reader, Abstract!Byte, Byte
  <1>2. \A n \in Nat : Abstract!Skip(r, n) \in Abstract!Reader
    BY <1>1 DEF Abstract!Skip, Abstract!Reader
  <1>3. Abstract!Rebased(r) \in Abstract!Reader
    BY <1>1 DEF Abstract!Rebased, Abstract!Reader
  <1>4. ASSUME Abstract!IsNumber(r)
        PROVE  Abstract!NumberAt(r) \in Nat
    <2> DEFINE w == Slice(r.data, r.at, r.at + WordLen)
    <2>1. r.at + WordLen <= Len(r.data)
      BY <1>4 DEF Abstract!IsNumber, Abstract!Within
    <2>2. w \in Seq(Byte) /\ Len(w) = WordLen
      <3>1. r.at + WordLen \in Nat /\ r.at <= r.at + WordLen
            /\ (r.at + WordLen) - r.at = WordLen
        BY <1>1
      <3> QED
        BY <1>1, <2>1, <3>1, SliceIsBytes
    <2>3. Abstract!BytesAt(r, WordLen) = w
      BY DEF Abstract!BytesAt, Slice
    <2> HIDE DEF w
    <2>4. WordValue(w) \in 0..(U32 - 1)
      BY <2>2, WordValueRange, Zenon
    <2>5. Abstract!NumberAt(r) = WordValue(w)
      BY <2>3 DEF Abstract!NumberAt, Abstract!WordValue, WordValue
    <2> QED
      BY <2>4, <2>5
  <1>5. ASSUME Abstract!IsNumber(r)
        PROVE  Abstract!Target(r) \in Abstract!Reader
    <2>1. r.base + Abstract!NumberAt(r) \in Nat
      BY <1>1, <1>4, <1>5
    <2> QED
      BY <2>1 DEF Abstract!Target, Abstract!Reader
  <1> QED
    BY <1>2, <1>3, <1>4, <1>5

(* What a strict reader takes for a payload, a lax reader does too. *)
LEMMA LaxPayload ==
  ASSUME NEW r \in Abstract!Reader, NEW n \in Nat, Abstract!Payload(r, n)
  PROVE  Abstract!Payload(Lax(r), n)
  <1>1. CASE r.strict
    <2> DEFINE m == n + WordLen - 1
               q == m \div WordLen
    <2>1. m \in Nat /\ WordLen \in Nat /\ WordLen > 0 /\ r.at \in Nat /\ Len(r.data) \in Nat
      BY WordAssumption DEF Abstract!Reader
    <2>2. q \in Nat /\ q * WordLen <= m /\ m < q * WordLen + WordLen
      BY <2>1, SMTT(30)
    <2>3. Abstract!WordsFor(n) = q
      BY DEF Abstract!WordsFor
    <2> DEFINE whole == q * WordLen
    <2>4. n <= whole /\ whole \in Nat
      BY <2>1, <2>2
    <2>5. r.at + whole <= Len(r.data)
      BY <1>1, <2>3 DEF Abstract!Payload, Abstract!Within
    <2> HIDE DEF whole
    <2>6. Abstract!Within(r, n)
      BY <2>1, <2>4, <2>5 DEF Abstract!Within
    <2> QED
      BY <2>6, LaxReads DEF Abstract!Payload
  <1>2. CASE ~r.strict
    <2>1. Abstract!Within(r, n)
      BY <1>2 DEF Abstract!Payload
    <2> QED
      BY <2>1, LaxReads DEF Abstract!Payload
  <1> QED
    BY <1>1, <1>2

(* The same for the bytes behind a length. *)
LEMMA LaxCounted ==
  ASSUME NEW r \in Abstract!Reader, Abstract!Counted(r).defined
  PROVE  Abstract!Counted(Lax(r)) = Abstract!Counted(r)
  <1> DEFINE s == Abstract!Skip(r, WordLen)
             n == Abstract!NumberAt(r)
  <1>1. Abstract!IsNumber(r) /\ Abstract!Payload(s, n)
    BY DEF Abstract!Counted, Abstract!Undefined
  <1>2. s \in Abstract!Reader /\ n \in Nat
    BY <1>1, ReaderMoves, WordAssumption
  <1>3. /\ Abstract!Skip(Lax(r), WordLen) = Lax(s) /\ Abstract!NumberAt(Lax(r)) = n
        /\ Abstract!IsNumber(Lax(r))
    BY <1>1, LaxReads
  <1> HIDE DEF s, n
  <1>4. Abstract!Payload(Lax(s), n) /\ Abstract!BytesAt(Lax(s), n) = Abstract!BytesAt(s, n)
    BY <1>1, <1>2, LaxPayload, LaxReads
  <1> QED
    BY <1>1, <1>3, <1>4 DEF Abstract!Counted, s, n

(* The same for a value of one word. *)
LEMMA LaxWord ==
  ASSUME NEW r \in Abstract!Reader, NEW t,
         t.kind \in {"Address", "Int", "Uint", "Bool"}, Abstract!WordAt(t, r).defined
  PROVE  Abstract!WordAt(t, Lax(r)) = Abstract!WordAt(t, r)
  <1>1. /\ Abstract!BytesAt(Lax(r), WordLen) = Abstract!BytesAt(r, WordLen)
        /\ ~Lax(r).strict
    BY LaxReads
  <1>2. CASE t.kind = "Address"
    BY <1>1, <1>2 DEF Abstract!WordAt, Abstract!Undefined
  <1>3. CASE t.kind = "Bool"
    BY <1>1, <1>3 DEF Abstract!WordAt
  <1>4. CASE t.kind \in {"Int", "Uint"}
    BY <1>1, <1>4 DEF Abstract!WordAt
  <1> QED
    BY <1>2, <1>3, <1>4


-----------------------------------------------------------------------------
(* The values they find. *)

(* Where a strict reader finds a value of type t, the lax one finds it.    *)
Agrees(t) ==
  \A r \in Abstract!Reader :
    Abstract!value[t][r].defined => Abstract!value[t][Lax(r)] = Abstract!value[t][r]

(* Elements of types that t has. *)
HasElements(t, n) == IF t.kind = "Tuple" THEN n = Len(t.subs) ELSE 1 \in DOMAIN t.subs

(* Every component is some way behind the first head. *)
LEMMA HeadsLenNat ==
  ASSUME NEW t, t.subs \in Seq(ParamTypes), NEW n \in Nat, HasElements(t, n),
         NEW i \in 1..n
  PROVE  /\ Abstract!HeadsLen(Abstract!head_len, t, i - 1) \in Nat
         /\ Abstract!SubType(t, i) \in Range(t.subs)
  <1>1. \A j \in DOMAIN t.subs : Abstract!head_len[t.subs[j]] \in Nat
    BY SameHeads, HeadSizeNat
  <1>2. i \in Nat /\ i - 1 \in Nat /\ DOMAIN t.subs = 1..Len(t.subs) /\ Len(t.subs) \in Nat
    OBVIOUS
  <1>3. CASE t.kind = "Tuple"
    <2> DEFINE h == [j \in 1..(i - 1) |-> Abstract!head_len[t.subs[j]]]
    <2>1. \A j \in 1..(i - 1) : j \in DOMAIN t.subs
      BY <1>2, <1>3 DEF HasElements
    <2>2. h \in Seq(Nat)
      BY <1>1, <1>2, <2>1
    <2>3. Abstract!HeadsLen(Abstract!head_len, t, i - 1) = Total[h]
      BY <1>3, LenOfTuple
    <2>4. i \in DOMAIN t.subs /\ Abstract!SubType(t, i) = t.subs[i]
      BY <1>2, <1>3 DEF HasElements, Abstract!SubType
    <2> QED
      BY <2>2, <2>3, <2>4, TotalNat DEF Range
  <1>4. CASE t.kind # "Tuple"
    <2>1. 1 \in DOMAIN t.subs /\ Abstract!SubType(t, i) = t.subs[1]
      BY <1>4 DEF HasElements, Abstract!SubType
    <2>2. Abstract!head_len[t.subs[1]] \in Nat
      BY <1>1, <2>1
    <2>3. Abstract!HeadsLen(Abstract!head_len, t, i - 1)
            = (i - 1) * Abstract!head_len[t.subs[1]]
      BY <1>4 DEF Abstract!HeadsLen
    <2>4. (i - 1) * Abstract!head_len[t.subs[1]] \in Nat
      BY <1>2, <2>2
    <2> QED
      BY <2>1, <2>3, <2>4 DEF Range
  <1> QED
    BY <1>3, <1>4

(* A row that a strict reader finds is one that the lax reader finds. *)
LEMMA LaxRow ==
  ASSUME NEW t, t.subs \in Seq(ParamTypes), \A u \in Range(t.subs) : Agrees(u),
         NEW n \in Nat, HasElements(t, n), NEW r \in Abstract!Reader,
         Abstract!Row(Abstract!value, t, n, r).defined
  PROVE  Abstract!Row(Abstract!value, t, n, Lax(r)) = Abstract!Row(Abstract!value, t, n, r)
  <1> DEFINE h(i) == Abstract!HeadsLen(Abstract!head_len, t, i - 1)
             e(i) == Abstract!value[Abstract!SubType(t, i)][Abstract!Skip(r, h(i))]
             l(i) == Abstract!value[Abstract!SubType(t, i)][Abstract!Skip(Lax(r), h(i))]
  <1>1. /\ Abstract!Row(Abstract!value, t, n, r)
             = IF \E i \in 1..n : ~e(i).defined THEN Abstract!Undefined
               ELSE Abstract!Some([i \in 1..n |-> e(i).val])
        /\ Abstract!Row(Abstract!value, t, n, Lax(r))
             = IF \E i \in 1..n : ~l(i).defined THEN Abstract!Undefined
               ELSE Abstract!Some([i \in 1..n |-> l(i).val])
    BY DEF Abstract!Row
  <1>2. ASSUME NEW i \in 1..n, e(i).defined
        PROVE  l(i) = e(i)
    <2>1. h(i) \in Nat /\ Agrees(Abstract!SubType(t, i))
      BY HeadsLenNat
    <2>2. Abstract!Skip(r, h(i)) \in Abstract!Reader
          /\ Abstract!Skip(Lax(r), h(i)) = Lax(Abstract!Skip(r, h(i)))
      BY <2>1, ReaderMoves, LaxReads
    <2> QED
      BY <1>2, <2>1, <2>2 DEF Agrees
  <1> HIDE DEF e, l
  <1>3. \A i \in 1..n : e(i).defined
    BY <1>1 DEF Abstract!Undefined
  <1>4. \A i \in 1..n : l(i) = e(i)
    BY <1>2, <1>3
  <1>5. [i \in 1..n |-> l(i).val] = [i \in 1..n |-> e(i).val]
    BY <1>4
  <1>6. \A i \in 1..n : l(i).defined
    BY <1>3, <1>4
  <1> QED
    BY <1>1, <1>3, <1>5, <1>6

(* All values agree: by induction over the types. *)
LEMMA LaxHeads ==
  ASSUME NEW t \in ParamTypes, \A i \in DOMAIN t.subs : Agrees(t.subs[i]),
         ~Abstract!behind[t], NEW r \in Abstract!Reader,
         Abstract!InHeads(Abstract!value, t, r).defined
  PROVE  Abstract!InHeads(Abstract!value, t, Lax(r))
           = Abstract!InHeads(Abstract!value, t, r)
  <1>1. /\ \A n : /\ Abstract!Within(Lax(r), n) <=> Abstract!Within(r, n)
                  /\ Abstract!BytesAt(Lax(r), n) = Abstract!BytesAt(r, n)
    BY LaxReads
  <1>2. /\ t.kind \in Kinds /\ t.size \in Nat /\ t.subs \in Seq(ParamTypes)
        /\ t.kind = "FixedArray" => Len(t.subs) = 1
        /\ t.kind \notin {"Bytes", "String", "Array"}
    BY TypeFields, BehindEquation, Zenon DEF BehindDef
  <1>3. CASE t.kind \in {"Address", "Int", "Uint", "Bool"}
    <2>1. /\ Abstract!InHeads(Abstract!value, t, r)
               = IF Abstract!Within(r, WordLen)
                 THEN Abstract!Leaf(t, Abstract!WordAt(t, r)) ELSE Abstract!Undefined
          /\ Abstract!InHeads(Abstract!value, t, Lax(r))
               = IF Abstract!Within(Lax(r), WordLen)
                 THEN Abstract!Leaf(t, Abstract!WordAt(t, Lax(r))) ELSE Abstract!Undefined
      BY <1>3 DEF Abstract!InHeads
    <2>2. Abstract!Within(r, WordLen) /\ Abstract!WordAt(t, r).defined
      BY <2>1 DEF Abstract!Leaf, Abstract!Undefined
    <2>3. Abstract!WordAt(t, Lax(r)) = Abstract!WordAt(t, r)
      BY <1>3, <2>2, LaxWord
    <2> QED
      BY <1>1, <2>1, <2>2, <2>3
  <1>4. CASE t.kind = "FixedBytes"
    <2>1. \A q : Abstract!InHeads(Abstract!value, t, q)
                   = IF Abstract!Payload(q, t.size)
                     THEN Abstract!Leaf(t, Abstract!Some(Abstract!BytesAt(q, t.size)))
                     ELSE Abstract!Undefined
      BY <1>4 DEF Abstract!InHeads
    <2>2. Abstract!Payload(r, t.size)
      BY <2>1 DEF Abstract!Undefined
    <2>3. Abstract!Payload(Lax(r), t.size)
      BY <1>2, <2>2, LaxPayload
    <2> QED
      BY <1>1, <2>1, <2>2, <2>3
  <1>5. CASE t.kind \in {"FixedArray", "Tuple"}
    <2> DEFINE n == Abstract!Width(t)
    <2>1. \A q : Abstract!InHeads(Abstract!value, t, q)
                   = Abstract!Node(t, Abstract!Row(Abstract!value, t, n, q))
      BY <1>5 DEF Abstract!InHeads
    <2>2. n \in Nat /\ HasElements(t, n)
      BY <1>2, <1>5 DEF Abstract!Width, HasElements
    <2> HIDE DEF n
    <2>3. Abstract!Row(Abstract!value, t, n, r).defined
      BY <2>1 DEF Abstract!Node
    <2>4. \A u \in Range(t.subs) : Agrees(u)
      BY DEF Range
    <2> QED
      BY <1>2, <2>1, <2>2, <2>3, <2>4, LaxRow
  <1> QED
    BY <1>2, <1>3, <1>4, <1>5 DEF Kinds

(* The same for a value that an offset leads to. *)
LEMMA LaxTails ==
  ASSUME NEW t \in ParamTypes, \A i \in DOMAIN t.subs : Agrees(t.subs[i]),
         Abstract!behind[t], NEW r \in Abstract!Reader,
         Abstract!InTails(Abstract!value, t, r).defined
  PROVE  Abstract!InTails(Abstract!value, t, Lax(r))
           = Abstract!InTails(Abstract!value, t, r)
  <1>1. /\ t.kind \in Kinds /\ t.size \in Nat /\ t.subs \in Seq(ParamTypes)
        /\ t.kind \in {"Array", "FixedArray"} => Len(t.subs) = 1
        /\ t.subs # <<>> => t.kind \in {"Array", "FixedArray", "Tuple"}
        /\ \A u \in Range(t.subs) : Agrees(u)
    BY TypeFields DEF Range
  <1>2. t.kind \in {"Bytes", "String", "Array", "FixedArray", "Tuple"}
    <2>1. \/ t.kind \in {"Bytes", "String", "Array"}
          \/ \E i \in DOMAIN t.subs : Abstract!behind[t.subs[i]]
      BY BehindEquation DEF BehindDef
    <2>2. (\E i \in DOMAIN t.subs : TRUE) => t.subs # <<>>
      OBVIOUS
    <2> QED
      BY <1>1, <2>1, <2>2
  <1>3. CASE t.kind = "Bytes"
    <2>1. \A q : Abstract!InTails(Abstract!value, t, q)
                   = Abstract!Leaf(t, Abstract!Counted(q))
      BY <1>3 DEF Abstract!InTails
    <2>2. Abstract!Counted(r).defined
      BY <2>1 DEF Abstract!Leaf
    <2> QED
      BY <2>1, <2>2, LaxCounted
  <1>4. CASE t.kind = "String"
    <2>1. \A q : Abstract!InTails(Abstract!value, t, q)
                   = Abstract!Leaf(t, Abstract!LossyOf(Abstract!Counted(q)))
      BY <1>4 DEF Abstract!InTails
    <2>2. Abstract!Counted(r).defined
      BY <2>1 DEF Abstract!Leaf, Abstract!LossyOf
    <2> QED
      BY <2>1, <2>2, LaxCounted
  <1>5. CASE t.kind = "Array"
    <2> DEFINE m(q) == Abstract!Rebased(Abstract!Skip(q, WordLen))
               n    == Abstract!NumberAt(r)
    <2>1. \A q : Abstract!InTails(Abstract!value, t, q)
                   = Abstract!Node(t, Abstract!Elements(Abstract!value, t, q))
      BY <1>5 DEF Abstract!InTails
    <2>2. \A q : Abstract!Elements(Abstract!value, t, q)
                   = IF Abstract!IsNumber(q)
                     THEN Abstract!Row(Abstract!value, t, Abstract!NumberAt(q), m(q))
                     ELSE Abstract!Undefined
      BY DEF Abstract!Elements
    <2>3. Abstract!Elements(Abstract!value, t, r).defined
      BY <2>1 DEF Abstract!Node
    <2>4. Abstract!IsNumber(r)
      BY <2>2, <2>3 DEF Abstract!Undefined
    <2>5. /\ Abstract!IsNumber(Lax(r)) /\ Abstract!NumberAt(Lax(r)) = n
          /\ n \in Nat /\ m(r) \in Abstract!Reader /\ m(Lax(r)) = Lax(m(r))
      <3>1. Abstract!Skip(r, WordLen) \in Abstract!Reader
        BY ReaderMoves, WordAssumption, Zenon
      <3> QED
        BY <2>4, <3>1, ReaderMoves, LaxReads
    <2> HIDE DEF m, n
    <2>6. Abstract!Row(Abstract!value, t, n, m(r)).defined
      BY <2>2, <2>3, <2>4 DEF n
    <2>7. HasElements(t, n)
      BY <1>1, <1>5 DEF HasElements
    <2>8. Abstract!Row(Abstract!value, t, n, m(Lax(r)))
            = Abstract!Row(Abstract!value, t, n, m(r))
      BY <1>1, <2>5, <2>6, <2>7, LaxRow
    <2> QED
      BY <2>1, <2>2, <2>4, <2>5, <2>8 DEF n
  <1>6. CASE t.kind \in {"FixedArray", "Tuple"}
    <2> DEFINE n    == Abstract!Width(t)
               m(q) == Abstract!Rebased(q)
    <2>1. \A q : Abstract!InTails(Abstract!value, t, q)
                   = IF Abstract!Within(q, 0)
                     THEN Abstract!Node(t, Abstract!Row(Abstract!value, t, n, m(q)))
                     ELSE Abstract!Undefined
      BY <1>6 DEF Abstract!InTails
    <2>2. n \in Nat /\ HasElements(t, n)
      BY <1>1, <1>6 DEF Abstract!Width, HasElements
    <2>3. /\ m(r) \in Abstract!Reader /\ m(Lax(r)) = Lax(m(r))
          /\ Abstract!Within(Lax(r), 0) <=> Abstract!Within(r, 0)
      BY ReaderMoves, LaxReads
    <2> HIDE DEF n, m
    <2>4. Abstract!Within(r, 0) /\ Abstract!Row(Abstract!value, t, n, m(r)).defined
      BY <2>1 DEF Abstract!Node, Abstract!Undefined
    <2>5. Abstract!Row(Abstract!value, t, n, Lax(m(r)))
            = Abstract!Row(Abstract!value, t, n, m(r))
      BY <1>1, <2>2, <2>3, <2>4, LaxRow
    <2> QED
      BY <2>1, <2>3, <2>4, <2>5
  <1> QED
    BY <1>2, <1>3, <1>4, <1>5, <1>6

(* What a strict reader finds, the lax reader in its place finds. *)
LEMMA StrictIsLax == \A t \in ParamTypes : Agrees(t)
  <1> DEFINE S == {t \in ParamTypes : Agrees(t)}
  <1>1. ASSUME NEW t \in ParamTypes, \A i \in DOMAIN t.subs : t.subs[i] \in S
        PROVE  t \in S
    <2>1. \A i \in DOMAIN t.subs : Agrees(t.subs[i])
      BY <1>1
    <2> SUFFICES ASSUME NEW r \in Abstract!Reader, Abstract!value[t][r].defined
                 PROVE  Abstract!value[t][Lax(r)] = Abstract!value[t][r]
      BY DEF Agrees
    <2>2. /\ Lax(r) \in Abstract!Reader
          /\ Abstract!value[t][r] = Abstract!ValueAt(Abstract!value, t, r)
          /\ Abstract!value[t][Lax(r)] = Abstract!ValueAt(Abstract!value, t, Lax(r))
      BY LaxReads, ValueEquation
    <2>3. CASE ~Abstract!behind[t]
      <3>1. \A q : Abstract!ValueAt(Abstract!value, t, q)
                     = Abstract!InHeads(Abstract!value, t, q)
        BY <2>3 DEF Abstract!ValueAt
      <3> QED
        BY <2>1, <2>2, <2>3, <3>1, LaxHeads
    <2>4. CASE Abstract!behind[t]
      <3>1. \A q : Abstract!ValueAt(Abstract!value, t, q)
                     = IF Abstract!IsNumber(q)
                       THEN Abstract!InTails(Abstract!value, t, Abstract!Target(q))
                       ELSE Abstract!Undefined
        BY <2>4 DEF Abstract!ValueAt
      <3>2. Abstract!IsNumber(r)
            /\ Abstract!InTails(Abstract!value, t, Abstract!Target(r)).defined
        BY <2>2, <3>1 DEF Abstract!Undefined
      <3>3. /\ Abstract!IsNumber(Lax(r)) /\ Abstract!Target(r) \in Abstract!Reader
            /\ Abstract!Target(Lax(r)) = Lax(Abstract!Target(r))
        BY <3>2, LaxReads, ReaderMoves
      <3>4. Abstract!InTails(Abstract!value, t, Lax(Abstract!Target(r)))
              = Abstract!InTails(Abstract!value, t, Abstract!Target(r))
        BY <2>1, <2>4, <3>2, <3>3, LaxTails
      <3> QED
        BY <2>2, <3>1, <3>2, <3>3, <3>4
    <2> QED
      BY <2>3, <2>4
  <1> HIDE DEF S
  <1>2. ParamTypes \subseteq S
    BY <1>1, TypeInduction
  <1> QED
    BY <1>2 DEF S

(* The readers that decode and decode_validate begin with. *)
LEMMA AtStart ==
  ASSUME NEW d \in Seq(Byte), NEW yes \in BOOLEAN, NEW no \in BOOLEAN, no = FALSE
  PROVE  At(d, yes, 0, 0) \in Abstract!Reader /\ At(d, no, 0, 0) = Lax(At(d, yes, 0, 0))
  <1> DEFINE strict == At(d, yes, 0, 0)
             lax    == At(d, no, 0, 0)
  <1>1. /\ strict = [data |-> d, strict |-> yes, base |-> 0, at |-> 0]
        /\ lax = [data |-> d, strict |-> no, base |-> 0, at |-> 0]
    BY DEF At
  <1> HIDE DEF strict, lax
  <1>2. strict \in Abstract!Reader
    BY <1>1 DEF Abstract!Reader, Byte, Abstract!Byte
  <1>3. lax = [strict EXCEPT !.strict = no]
    BY <1>1
  <1>4. [strict EXCEPT !.strict = no] = [strict EXCEPT !.strict = FALSE]
    BY Zenon
  <1> QED
    BY <1>2, <1>3, <1>4 DEF Lax, strict, lax

(* Where decode_validate has tokens to return, decode has the same ones.   *)
LEMMA StrictDecoded ==
  ASSUME NEW ts \in Seq(ParamTypes), NEW d \in Seq(Byte),
         NEW yes \in BOOLEAN, yes = TRUE, NEW no \in BOOLEAN, no = FALSE,
         Abstract!Decoded(ts, d, yes).defined
  PROVE  Abstract!Decoded(ts, d, no) = Abstract!Decoded(ts, d, yes)
  <1> DEFINE args == Abstract!TupleT(ts)
             n    == Len(ts)
             empty == d = <<>> /\ \E i \in DOMAIN ts :
                                    ~Abstract!is_empty_bytes_valid_encoding(ts[i])
             strict == At(d, yes, 0, 0)
             lax    == At(d, no, 0, 0)
             row(r) == Abstract!Row(Abstract!value, args, n, r)
  <1>1. /\ Abstract!Decoded(ts, d, yes)
             = IF \/ empty
                  \/ yes /\ Abstract!HeadsLen(Abstract!head_len, args, n) # Len(d)
               THEN Abstract!Undefined ELSE row(strict)
        /\ Abstract!Decoded(ts, d, no)
             = IF \/ empty
                  \/ no /\ Abstract!HeadsLen(Abstract!head_len, args, n) # Len(d)
               THEN Abstract!Undefined ELSE row(lax)
    BY DEF Abstract!Decoded, At
  <1>2. args.kind = "Tuple" /\ args.subs = ts /\ n \in Nat
    BY DEF Abstract!TupleT, Abstract!ParamType
  <1>3. strict \in Abstract!Reader /\ lax = Lax(strict)
    BY AtStart
  <1>4. \A u \in Range(ts) : Agrees(u)
    BY StrictIsLax DEF Range
  <1>5. HasElements(args, n)
    BY <1>2 DEF HasElements
  <1> HIDE DEF args, n, strict, lax, empty
  <1>6. ~empty /\ row(strict).defined /\ Abstract!Decoded(ts, d, yes) = row(strict)
    <2> HIDE DEF row
    <2> QED
      BY <1>1 DEF Abstract!Undefined
  <1>7. row(lax) = row(strict)
    BY <1>2, <1>3, <1>4, <1>5, <1>6, LaxRow
  <1> HIDE DEF row
  <1>8. Abstract!Decoded(ts, d, no) = row(lax)
    BY <1>1, <1>6
  <1> QED
    BY <1>6, <1>7, <1>8

-----------------------------------------------------------------------------
(* Calls of the decoder. *)

(* A decoder that has returned has answered as DecodeSpec does. *)
Answered ==
  /\ status = "Ok" => /\ Abstract!Decoded(types, data, validate).defined
                      /\ Abstract!Decoded(types, data, validate).val = acc[1]
  /\ status = "Err" => ~Abstract!Decoded(types, data, validate).defined

(* A call of the decoder begins with the invariant of its machine. *)
LEMMA CallStarts ==
  ASSUME NEW ts \in Seq(ParamTypes), Len(ts) <= AllocLimit \/ MayRunOut,
         NEW d \in Seq(Byte), 2 * Len(d) < UsizeSize, NEW strict \in BOOLEAN,
         types' = ts, data' = d, validate' = strict,
         stack' = <<>>, acc' = <<>>, status' = "start"
  PROVE  VInv' /\ Answered'
  <1>2. stack' \in Seq(Frame) /\ DOMAIN stack' = {}
    BY EmptySeq
  <1>3. acc' = [k \in DOMAIN stack' |-> acc[k]'] /\ DOMAIN acc' = {}
    BY <1>2
  <1>4. TypeOK'
    BY <1>2, <1>3 DEF TypeOK
  <1>5. StackOK' /\ NoPanic' /\ DataFits' /\ TypedCalls'
    BY <1>2 DEF StackOK, NoPanic, DataFits, TypedCalls
  <1>6. HInv'
    BY <1>2, <1>4, <1>5 DEF HInv, TInv, IInv
  <1>7. RightValues' /\ Asked' /\ Answered'
    BY <1>2 DEF RightValues, Asked, Answered
  <1> QED
    BY <1>6, <1>7 DEF VInv

(* The decoder leaves its question alone. *)
LEMMA SameQuestion == ASSUME Next PROVE UNCHANGED <<types, data, validate>>
  BY Zenon DEF Next, Start, DecodeAddress, DecodeInt, DecodeBool, DecodeFixedBytes,
     DecodeBytes, DecodeString, DecodeArray, DecodeStaticComponents,
     DecodeDynamicComponents, Leave, Finish, Take, Deliver, Return, Open,
     TryOpen, OpenComponents

(* Its steps keep it, and the answer it comes to is the one of DecodeSpec. *)
LEMMA CallContinues ==
  ASSUME Wide, ~MayRunOut, VInv, Answered, [Next]_vars
  PROVE  VInv' /\ Answered' /\ UNCHANGED <<types, data, validate>>
  <1>1. VInv' /\ IInv /\ Asked
    BY StepValues DEF VInv, HInv, TInv
  <1>2. ASSUME status' \notin {"Ok", "Err"}, UNCHANGED <<types, data, validate>>
        PROVE  Answered' /\ UNCHANGED <<types, data, validate>>
    BY <1>2 DEF Answered
  <1>3. CASE Beginning
    BY <1>1, <1>2, <1>3 DEF Beginning
  <1>4. CASE PushingValue
    BY <1>1, <1>2, <1>4 DEF PushingValue, Deliver
  <1>5. CASE OpeningRow
    BY <1>1, <1>2, <1>5 DEF OpeningRow, Open
  <1>6. CASE Leave
    BY <1>1, <1>2, <1>6 DEF Leave
  <1>7. CASE Refusing
    <2>1. status' = "Err" /\ UNCHANGED <<types, data, validate>>
      BY <1>7 DEF Refusing, Return
    <2>2. ~Abstract!Decoded(types, data, validate).defined
      BY <1>7, RefusingAnswers
    <2> QED
      BY <1>1, <2>1, <2>2 DEF Answered
  <1>8. CASE Completing
    <2>1. status' = "Ok" /\ UNCHANGED <<types, data, validate, acc>>
      BY <1>8 DEF Completing
    <2>2. /\ Abstract!Decoded(types, data, validate).defined
          /\ Abstract!Decoded(types, data, validate).val = acc[1]
      BY <1>8, CompletingAnswers
    <2> QED
      BY <1>1, <2>1, <2>2 DEF Answered
  <1>9. CASE UNCHANGED vars
    BY <1>1, <1>9 DEF vars, Answered
  <1> QED
    BY <1>1, <1>3, <1>4, <1>5, <1>6, <1>7, <1>8, <1>9, StepMeans

-----------------------------------------------------------------------------
(* What a reader reads of an encoding that stands in the data. *)

(* A reader that stands before bytes reads them. *)
LEMMA ReadsHeld ==
  ASSUME NEW r \in Abstract!Reader, NEW f \in Seq(Byte), Holds(r.data, r.at, f)
  PROVE  Abstract!Within(r, Len(f)) /\ Abstract!BytesAt(r, Len(f)) = f
  <1> DEFINE n == Len(f)
             d == r.data
             a == r.at
             x == SubSeq(d, a + 1, a + n)
  <1>1. n \in Nat /\ a \in Nat /\ d \in Seq(Byte) /\ Len(d) \in Nat
    BY LenProperties DEF Abstract!Reader, Abstract!Byte, Byte
  <1>2. a + n <= Len(d) /\ \A i \in 1..n : d[a + i] = f[i]
    BY DEF Holds
  <1> HIDE DEF n, d, a
  <1>3. \A i \in (a + 1)..(a + n) : d[i] \in Byte
    <2> TAKE i \in (a + 1)..(a + n)
    <2>1. i \in 1..Len(d)
      BY <1>1, <1>2
    <2> QED BY <1>1, <2>1, ElementOfSeq
  <1>4. /\ x \in Seq(Byte) /\ Len(x) = IF a + 1 <= a + n THEN (a + n) - (a + 1) + 1 ELSE 0
        /\ \A i \in 1..((a + n) - (a + 1) + 1) : x[i] = d[(a + 1) + i - 1]
    <2>1. a + 1 \in Int /\ a + n \in Int
      BY <1>1
    <2> QED BY <1>3, <2>1, SubSeqProperties
  <1> HIDE DEF x
  <1>5. Len(x) = n
    BY <1>1, <1>4
  <1>6. \A i \in 1..n : x[i] = f[i]
    <2> TAKE i \in 1..n
    <2>1. i \in 1..((a + n) - (a + 1) + 1) /\ (a + 1) + i - 1 = a + i
      BY <1>1
    <2> QED BY <1>2, <1>4, <2>1
  <1>7. x = f
    <2>1. Len(f) = n
      BY DEF n
    <2> QED BY <1>4, <1>5, <1>6, <2>1, SeqEqual
  <1> QED
    BY <1>2, <1>7 DEF Abstract!Within, Abstract!BytesAt, n, d, a, x

(* A reader that stands before a row reads what is in the row. *)
LEMMA ReadsWithin ==
  ASSUME NEW r \in Abstract!Reader, NEW e \in Seq(Byte), Holds(r.data, r.at, e),
         NEW j \in Nat, NEW f \in Seq(Byte), Holds(e, j, f)
  PROVE  LET q == Abstract!Skip(r, j)
         IN  /\ q \in Abstract!Reader /\ Holds(q.data, q.at, f)
             /\ q.data = r.data /\ q.at = r.at + j /\ q.base = r.base /\ q.strict = r.strict
             /\ Abstract!Within(q, Len(f)) /\ Abstract!BytesAt(q, Len(f)) = f
  <1> DEFINE q == Abstract!Skip(r, j)
  <1>1. q \in Abstract!Reader
    BY ReaderMoves
  <1>2. q.data = r.data /\ q.at = r.at + j /\ q.base = r.base /\ q.strict = r.strict
    BY DEF Abstract!Skip, Abstract!Reader
  <1>3. r.data \in Seq(Byte) /\ r.at \in Nat
    BY DEF Abstract!Reader, Abstract!Byte, Byte
  <1>4. Holds(r.data, r.at + j, f)
    BY <1>3, HoldsWithin
  <1> HIDE DEF q
  <1>5. Holds(q.data, q.at, f)
    BY <1>2, <1>4
  <1>6. Abstract!Within(q, Len(f)) /\ Abstract!BytesAt(q, Len(f)) = f
    BY <1>1, <1>5, ReadsHeld
  <1> QED
    BY <1>1, <1>2, <1>5, <1>6 DEF q

(* The first bytes of what a reader stands before. *)
LEMMA ReadsFirst ==
  ASSUME NEW r \in Abstract!Reader, NEW e \in Seq(Byte), Holds(r.data, r.at, e),
         NEW f \in Seq(Byte), Holds(e, 0, f)
  PROVE  Holds(r.data, r.at, f) /\ Abstract!Within(r, Len(f)) /\ Abstract!BytesAt(r, Len(f)) = f
  <1>1. r.data \in Seq(Byte) /\ r.at \in Nat /\ r.at + 0 = r.at
    BY DEF Abstract!Reader, Abstract!Byte, Byte
  <1>2. Holds(r.data, r.at + 0, f)
    BY <1>1, HoldsWithin
  <1>3. Holds(r.data, r.at, f)
    BY <1>1, <1>2
  <1> QED
    BY <1>3, ReadsHeld

(* A reader that stands before the word of a number reads the number. *)
LEMMA ReadsNumber ==
  ASSUME NEW r \in Abstract!Reader, NEW v \in Nat, v < U32,
         Holds(r.data, r.at, NumberWord(v))
  PROVE  Abstract!IsNumber(r) /\ Abstract!NumberAt(r) = v
  <1> DEFINE w == NumberWord(v)
             z == Zeros(WordLen - 4)
  <1>1. /\ w \in Seq(Byte) /\ Len(w) = WordLen
        /\ \A i \in 1..(WordLen - 4) : w[i] = 0
        /\ WordValue(w) = v
    BY NumberWordIs, PadU32Facts
  <1>2. WordLen \in Nat /\ WordLen > 4 /\ WordLen - 4 \in Nat
    BY WordAssumption
  <1>3. z \in Seq(Byte) /\ Len(z) = WordLen - 4 /\ \A i \in 1..(WordLen - 4) : z[i] = 0
    BY <1>2, ZerosFacts
  <1> HIDE DEF w, z
  <1>4. Holds(w, 0, z)
    BY <1>1, <1>2, <1>3 DEF Holds
  <1>5. Abstract!Within(r, WordLen) /\ Abstract!BytesAt(r, WordLen) = w
    <2>1. Holds(r.data, r.at, w)
      BY DEF w
    <2> QED BY <1>1, <2>1, ReadsHeld
  <1>6. Abstract!BytesAt(r, WordLen - 4) = z
    <2>1. Holds(r.data, r.at, w)
      BY DEF w
    <2> QED BY <1>1, <1>3, <1>4, <2>1, ReadsFirst
  <1>7. Abstract!IsZero(z)
    <2>1. DOMAIN z = 1..(WordLen - 4)
      BY <1>3
    <2> QED BY <1>3, <2>1 DEF Abstract!IsZero
  <1>8. Abstract!NumberAt(r) = v
    BY <1>1, <1>5 DEF Abstract!NumberAt, Abstract!WordValue, WordValue
  <1> QED
    BY <1>5, <1>6, <1>7, <1>8 DEF Abstract!IsNumber

(* A reader that stands before padded bytes accepts them, strict or not. *)
LEMMA ReadsPayload ==
  ASSUME NEW r \in Abstract!Reader, NEW n \in Nat,
         NEW e \in Seq(Byte), Len(e) = WordsFor(n) * WordLen, Holds(r.data, r.at, e),
         \A i \in (n + 1)..Len(e) : e[i] = 0
  PROVE  Abstract!Payload(r, n)
  <1> DEFINE k == WordsFor(n) * WordLen
             z == Zeros(k - n)
  <1>1. k \in Nat /\ n <= k /\ Len(e) = k
    BY WordsForFacts
  <1>2. Abstract!WordsFor(n) * WordLen = k
    BY DEF Abstract!WordsFor, WordsFor
  <1> HIDE DEF k
  <1>3. k - n \in Nat
    BY <1>1
  <1>4. z \in Seq(Byte) /\ Len(z) = k - n /\ \A i \in 1..(k - n) : z[i] = 0
    BY <1>3, ZerosFacts
  <1> HIDE DEF z
  <1>5. Holds(e, n, z)
    <2>1. n + Len(z) <= Len(e)
      BY <1>1, <1>4
    <2>2. \A j \in 1..Len(z) : e[n + j] = z[j]
      <3> TAKE j \in 1..Len(z)
      <3>1. n + j \in (n + 1)..Len(e) /\ j \in 1..(k - n)
        BY <1>1, <1>4
      <3> QED BY <1>4, <3>1
    <2> QED BY <2>1, <2>2 DEF Holds
  <1>6. Abstract!Within(r, k)
    BY <1>1, ReadsHeld
  <1>7. Abstract!BytesAt(Abstract!Skip(r, n), k - n) = z
    BY <1>4, <1>5, ReadsWithin
  <1>8. Abstract!IsZero(z)
    <2>1. DOMAIN z = 1..(k - n)
      BY <1>3, <1>4
    <2> QED BY <1>4, <2>1 DEF Abstract!IsZero
  <1>9. Abstract!Within(r, n)
    <2>1. r.at \in Nat /\ Len(r.data) \in Nat
      BY DEF Abstract!Reader
    <2> QED BY <1>1, <1>6, <2>1 DEF Abstract!Within
  <1> QED
    BY <1>2, <1>6, <1>7, <1>8, <1>9 DEF Abstract!Payload

-----------------------------------------------------------------------------
(* What a caller means. *)

(* The right side of the definition of as_read. *)
AsReadBody(f, t, token) ==
  IF t.kind = "FixedBytes"
  THEN [token EXCEPT !.val = @ \o Zeros(t.size - Len(@))]
  ELSE [token EXCEPT !.subs = [i \in Parts(t, token) |-> f[TypeOf(t, i)][@[i]]]]

AsReadDef(f, t) == [token \in Tokens |-> AsReadBody(f, t, token)]

AsReads == INSTANCE Recursion WITH
  Dom <- ParamTypes, measure <- nodes, Def <- AsReadDef

(* as_read obeys its definition. *)
LEMMA AsReadEquation == \A t \in ParamTypes : as_read[t] = AsReadDef(as_read, t)
  <1>1. AsReads!WellFounded
    <2>1. ASSUME NEW f, NEW g, NEW t \in ParamTypes,
                 \A u \in ParamTypes : nodes[u] < nodes[t] => f[u] = g[u]
          PROVE  AsReadDef(f, t) = AsReadDef(g, t)
      <3>1. ASSUME NEW token \in Tokens
            PROVE  AsReadBody(f, t, token) = AsReadBody(g, t, token)
        <4>1. \A i \in Parts(t, token) : f[TypeOf(t, i)] = g[TypeOf(t, i)]
          BY <2>1, PartTypes
        <4>2. [i \in Parts(t, token) |-> f[TypeOf(t, i)][token.subs[i]]]
                = [i \in Parts(t, token) |-> g[TypeOf(t, i)][token.subs[i]]]
          BY <4>1
        <4> QED BY <4>2, Zenon DEF AsReadBody
      <3> QED BY <3>1 DEF AsReadDef
    <2> QED
      BY <2>1, FiniteTypesAssumption DEF AsReads!WellFounded
  <1>2. as_read = CHOOSE f : f = [t \in ParamTypes |-> AsReadDef(f, t)]
    BY Zenon DEF as_read, AsReadDef, AsReadBody
  <1>3. as_read = [t \in ParamTypes |-> AsReadDef(as_read, t)]
    BY <1>1, <1>2, NaturalInduction, AsReads!Defined DEF AsReads!Inductive
  <1> QED
    BY <1>3

(* A value is meant as it is, a bytesN at its full length. *)
LEMMA AsRead ==
  ASSUME NEW t \in ParamTypes, NEW token \in Tokens, is_value[t][token]
  PROVE  as_read[t][token]
           = IF t.kind = "FixedBytes"
             THEN Token(t.kind, token.val \o Zeros(t.size - Len(token.val)), <<>>)
             ELSE Token(t.kind, token.val,
                        [i \in DOMAIN token.subs |-> as_read[TypeOf(t, i)][token.subs[i]]])
  <1>1. as_read[t][token] = AsReadBody(as_read, t, token)
    BY AsReadEquation, Zenon DEF AsReadDef
  <1>2. /\ token = [kind |-> token.kind, val |-> token.val, subs |-> token.subs]
        /\ token.kind = t.kind /\ Parts(t, token) = DOMAIN token.subs
        /\ t.kind = "FixedBytes" => token.subs = <<>>
    <2>1. Shaped(t, token)
      BY ValueParts
    <2> QED BY <2>1, TokenFields, ValueParts, Zenon DEF Shaped
  <1>3. CASE t.kind = "FixedBytes"
    <2> DEFINE v == token.val \o Zeros(t.size - Len(token.val))
    <2>1. as_read[t][token] = [token EXCEPT !.val = v]
      BY <1>1, <1>3, Zenon DEF AsReadBody
    <2> HIDE DEF v
    <2>2. [token EXCEPT !.val = v] = [kind |-> t.kind, val |-> v, subs |-> <<>>]
      BY <1>2, <1>3
    <2> QED BY <1>3, <2>1, <2>2 DEF Token, v
  <1>4. CASE t.kind # "FixedBytes"
    <2> DEFINE s == [i \in DOMAIN token.subs |-> as_read[TypeOf(t, i)][token.subs[i]]]
    <2>1. as_read[t][token] = [token EXCEPT !.subs = s]
      BY <1>1, <1>2, <1>4, Zenon DEF AsReadBody
    <2> HIDE DEF s
    <2>2. [token EXCEPT !.subs = s] = [kind |-> t.kind, val |-> token.val, subs |-> s]
      BY <1>2
    <2> QED BY <1>4, <2>1, <2>2 DEF Token, s
  <1> QED
    BY <1>3, <1>4

(* A value without components that is no bytesN is meant as it is. *)
LEMMA AsReadLeaf ==
  ASSUME NEW t \in ParamTypes, NEW token \in Tokens, is_value[t][token],
         t.kind # "FixedBytes", token.subs = <<>>
  PROVE  as_read[t][token] = Token(t.kind, token.val, <<>>)
  <1> DEFINE s == [i \in DOMAIN token.subs |-> as_read[TypeOf(t, i)][token.subs[i]]]
  <1>1. s = <<>>
    OBVIOUS
  <1>2. as_read[t][token] = Token(t.kind, token.val, s)
    BY AsRead
  <1> QED
    BY <1>1, <1>2

-----------------------------------------------------------------------------
(* Rows whose parts have known lengths. *)

(* k parts of h bytes each. *)
LEMMA LenOfEqualParts ==
  ASSUME NEW ss \in Seq(Seq(Byte)), NEW h \in Nat, \A i \in 1..Len(ss) : Len(ss[i]) = h
  PROVE  \A k \in 0..Len(ss) : LenTo(ss, k) = k * h
  <1> DEFINE n == Len(ss)
             S == {k \in Nat : k <= n => LenTo(ss, k) = k * h}
  <1>1. n \in Nat
    BY LenProperties
  <1>2. 0 \in S
    BY LenToStep
  <1>3. ASSUME NEW k \in Nat, k \in S PROVE k + 1 \in S
    <2> SUFFICES ASSUME k + 1 <= n PROVE LenTo(ss, k + 1) = (k + 1) * h
      OBVIOUS
    <2>1. k <= n /\ k \in 0..(n - 1) /\ k + 1 \in 1..n
      BY <1>1
    <2>2. LenTo(ss, k) = k * h
      BY <1>3, <2>1
    <2>3. LenTo(ss, k + 1) = LenTo(ss, k) + Len(ss[k + 1])
      BY <2>1, LenToStep
    <2>4. (k + 1) * h = k * h + h
      OBVIOUS
    <2> QED BY <2>1, <2>2, <2>3, <2>4, Zenon
  <1> HIDE DEF S
  <1>4. Nat \subseteq S
    BY <1>2, <1>3, NaturalInduction, Zenon
  <1>5. ASSUME NEW k \in 0..n PROVE LenTo(ss, k) = k * h
    <2>1. k \in Nat /\ k <= n /\ k \in S
      BY <1>1, <1>4
    <2> QED BY <2>1 DEF S
  <1> QED
    BY <1>5

(* A string without bytes that are not UTF-8 is read as it is. *)
LEMMA LossyOfValid ==
  ASSUME NEW s \in Seq(Byte), \A i \in 1..Len(s) : s[i] \notin InvalidUtf8
  PROVE  Abstract!Lossy(s) = s
  <1> DEFINE n == Len(s)
             ss == [i \in DOMAIN s |-> <<s[i]>>]
             F == FlattenSeq(ss)
  <1>1. n \in Nat /\ DOMAIN s = 1..n /\ \A i \in 1..n : s[i] \in Byte
    BY LenProperties, ElementOfSeq
  <1>2. /\ ss \in Seq(Seq(Byte)) /\ Len(ss) = n
        /\ \A i \in 1..n : ss[i] = <<s[i]>> /\ Len(ss[i]) = 1 /\ ss[i][1] = s[i]
    <2>1. ss = [i \in 1..n |-> <<s[i]>>]
      BY <1>1
    <2>2. \A i \in 1..n : <<s[i]>> \in Seq(Byte)
      BY <1>1
    <2> HIDE DEF ss
    <2>3. ss \in Seq(Seq(Byte)) /\ Len(ss) = n /\ \A i \in 1..n : ss[i] = <<s[i]>>
      BY <1>1, <2>1, <2>2
    <2>4. \A x : Len(<<x>>) = 1 /\ <<x>>[1] = x
      OBVIOUS
    <2> QED BY <2>3, <2>4, Zenon
  <1>3. Abstract!Lossy(s) = F
    <2>1. from_utf8_lossy(s) = Abstract!Lossy(s)
      BY SameLossy
    <2>2. [i \in DOMAIN s |-> IF s[i] \in InvalidUtf8 THEN Replacement ELSE <<s[i]>>] = ss
      BY <1>1
    <2> QED BY <2>1, <2>2 DEF from_utf8_lossy
  <1> HIDE DEF ss
  <1>4. /\ F \in Seq(Byte) /\ Len(F) = LenTo(ss, Len(ss))
        /\ \A i \in 1..n : Holds(F, LenTo(ss, i - 1), ss[i])
    BY <1>2, FlattenFacts
  <1> HIDE DEF F
  <1>5. \A k \in 0..n : LenTo(ss, k) = k
    <2>1. \A k \in 0..n : LenTo(ss, k) = k * 1
      BY <1>2, LenOfEqualParts, Zenon
    <2>2. \A k \in 0..n : k * 1 = k
      BY <1>1
    <2> QED BY <2>1, <2>2
  <1>6. Len(F) = n
    BY <1>1, <1>2, <1>4, <1>5
  <1>7. \A i \in 1..n : F[i] = s[i]
    <2> TAKE i \in 1..n
    <2>1. i - 1 \in 0..n /\ LenTo(ss, i - 1) = i - 1
      BY <1>1, <1>5
    <2>2. Holds(F, i - 1, ss[i])
      BY <1>4, <2>1
    <2>3. F[(i - 1) + 1] = ss[i][1]
      BY <1>2, <2>2 DEF Holds
    <2>4. (i - 1) + 1 = i
      BY <1>1
    <2> QED BY <1>2, <2>3, <2>4
  <1>8. F = s
    BY <1>4, <1>6, <1>7, SeqEqual
  <1> QED
    BY <1>3, <1>8

-----------------------------------------------------------------------------
(* Values are found where their encodings stand. *)

(* A reader before an encoding of a value finds the value that was meant.  *)
Reads(t, token, r) ==
  Holds(r.data, r.at, enc[t][token]) =>
    (IF t \in DynamicTypes THEN Abstract!InTails(Abstract!value, t, r)
                           ELSE Abstract!value[t][r])
      = Abstract!Some(as_read[t][token])

Found(t) ==
  \A token \in Tokens : is_value[t][token] /\ Len(enc[t][token]) < U32 + WordLen =>
    \A r \in Abstract!Reader : Reads(t, token, r)

(* The two parts of a concatenation. *)
LEMMA CutConcat ==
  ASSUME NEW a \in Seq(Byte), NEW b \in Seq(Byte)
  PROVE  /\ SubSeq(a \o b, 1, Len(a)) = a
         /\ SubSeq(a \o b, Len(a) + 1, Len(a) + Len(b)) = b
  <1> DEFINE c == a \o b
             m == Len(a)
             n == Len(b)
             x == SubSeq(c, 1, m)
             y == SubSeq(c, m + 1, m + n)
  <1>1. c \in Seq(Byte) /\ Len(c) = Len(a) + Len(b) /\ Holds(c, 0, a) /\ Holds(c, Len(a), b)
    BY HoldsInConcat
  <1>2. m \in Nat /\ n \in Nat /\ Len(a) = m /\ Len(b) = n
    BY LenProperties
  <1>3. /\ \A i \in 1..m : c[0 + i] = a[i]
        /\ \A i \in 1..n : c[m + i] = b[i]
    BY <1>1, <1>2 DEF Holds
  <1> HIDE DEF c, m, n
  <1>4. /\ \A i \in 1..m : c[i] = a[i] /\ c[i] \in Byte
        /\ \A i \in (m + 1)..(m + n) : c[i] \in Byte
    <2>1. \A i \in 1..(m + n) : c[i] \in Byte
      BY <1>1, <1>2, ElementOfSeq
    <2>2. \A i \in 1..m : i \in 1..(m + n) /\ 0 + i = i
      BY <1>2
    <2>3. \A i \in (m + 1)..(m + n) : i \in 1..(m + n)
      BY <1>2
    <2> QED BY <1>3, <2>1, <2>2, <2>3
  <1>5. /\ x \in Seq(Byte) /\ Len(x) = IF 1 <= m THEN m - 1 + 1 ELSE 0
        /\ \A i \in 1..(m - 1 + 1) : x[i] = c[1 + i - 1]
    <2>1. 1 \in Int /\ m \in Int
      BY <1>2
    <2> QED BY <1>4, <2>1, SubSeqProperties
  <1>6. /\ y \in Seq(Byte)
        /\ Len(y) = IF m + 1 <= m + n THEN (m + n) - (m + 1) + 1 ELSE 0
        /\ \A i \in 1..((m + n) - (m + 1) + 1) : y[i] = c[(m + 1) + i - 1]
    <2>1. m + 1 \in Int /\ m + n \in Int
      BY <1>2
    <2> QED BY <1>4, <2>1, SubSeqProperties
  <1> HIDE DEF x, y
  <1>7. Len(x) = m /\ Len(y) = n
    BY <1>2, <1>5, <1>6
  <1>8. \A i \in 1..m : x[i] = a[i]
    <2> TAKE i \in 1..m
    <2>1. i \in 1..(m - 1 + 1) /\ 1 + i - 1 = i
      BY <1>2
    <2> QED BY <1>4, <1>5, <2>1
  <1>9. \A i \in 1..n : y[i] = b[i]
    <2> TAKE i \in 1..n
    <2>1. i \in 1..((m + n) - (m + 1) + 1) /\ (m + 1) + i - 1 = m + i
      BY <1>2
    <2> QED BY <1>3, <1>6, <2>1
  <1>10. x = a /\ y = b
    BY <1>2, <1>5, <1>6, <1>7, <1>8, <1>9, SeqEqual
  <1> QED
    BY <1>2, <1>10 DEF x, y, c, m, n

(* The word of a value of one word. *)
LEMMA WordOf ==
  ASSUME NEW t \in ParamTypes, t.kind \in {"Address", "Int", "Uint", "Bool"},
         NEW token \in Tokens, is_value[t][token]
  PROVE  /\ enc[t][token] \in Seq(Byte) /\ Len(enc[t][token]) = WordLen
         /\ enc[t][token] = encode_token_append(token)
         /\ t \notin DynamicTypes
  <1> DEFINE e == enc[t][token]
  <1>1. e \in Seq(Byte) /\ Len(e) = WordLen /\ CanonicalValue(t, token)
    BY CanonicalWord DEF CanonicalValue
  <1>2. t \notin DynamicTypes
    BY IsDynamic, Zenon DEF DynamicTypes
  <1>3. StaticMediate(mediate_token[token], e)
    <2>1. Len(e) < U32 + WordLen
      BY <1>1, RadixFacts, WordAssumption
    <2> QED BY <1>1, <1>2, <2>1 DEF CanonicalValue
  <1>4. mediate_token[token] = Raw(1, token)
    <2>1. mediate_token[token] = MediateDef(mediate_token, token)
      BY MediateToken
    <2>2. token.kind = t.kind
      BY ValueParts DEF Shaped
    <2> QED BY <2>1, <2>2 DEF MediateDef
  <1>5. mediate_token[token].head = encode_token_append(token)
    <2>1. Raw(1, token).head = encode_token_append(token)
      BY Zenon DEF Raw, Mediate
    <2> QED BY <1>4, <2>1
  <1> QED
    BY <1>1, <1>2, <1>3, <1>5 DEF StaticMediate

(* An address, a number or a boolean. *)
LEMMA FoundWord ==
  ASSUME NEW t \in ParamTypes, t.kind \in {"Address", "Int", "Uint", "Bool"},
         NEW token \in Tokens, is_value[t][token], NEW r \in Abstract!Reader
  PROVE  Reads(t, token, r)
  <1> DEFINE e == enc[t][token]
             val == token.val
  <1> SUFFICES ASSUME Holds(r.data, r.at, e)
               PROVE  Abstract!value[t][r] = Abstract!Some(as_read[t][token])
    BY WordOf DEF Reads
  <1>1. /\ token.kind = t.kind /\ val \in Seq(Byte)
        /\ t.kind = "Address" => Len(val) = WordLen - AddrPad
        /\ t.kind = "Bool" => val \in {<<0>>, <<1>>}
        /\ token.subs = <<>>
    <2>1. Shaped(t, token)
      BY ValueParts
    <2> QED BY <2>1, TokenFields, Zenon DEF Shaped
  <1>2. e \in Seq(Byte) /\ Len(e) = WordLen /\ e = encode_token_append(token)
    BY WordOf
  <1>3. as_read[t][token] = Token(t.kind, val, <<>>)
    BY <1>1, AsReadLeaf
  <1>4. Abstract!Within(r, WordLen) /\ Abstract!BytesAt(r, WordLen) = e
    BY <1>2, ReadsHeld
  <1>5. WordLen \in Nat /\ WordLen > 4 /\ AddrPad \in Nat /\ AddrPad \in 0..WordLen
    BY WordAssumption
  <1>6. Abstract!value[t][r] = Abstract!Leaf(t, Abstract!WordAt(t, r))
    <2>1. Abstract!value[t][r] = Abstract!ValueAt(Abstract!value, t, r)
      BY ValueEquation
    <2>2. ~Abstract!behind[t]
      BY WordOf, Behind DEF DynamicTypes
    <2> QED BY <1>4, <2>1, <2>2 DEF Abstract!ValueAt, Abstract!InHeads
  <1> HIDE DEF e, val
  <1>7. Abstract!WordAt(t, r) = Abstract!Some(val)
    <2>1. CASE t.kind = "Address"
      <3> DEFINE z == Zeros(AddrPad)
      <3>1. e = z \o val
        BY <1>1, <1>2, <2>1, Zenon DEF encode_token_append, val
      <3>2. z \in Seq(Byte) /\ Len(z) = AddrPad /\ \A i \in 1..AddrPad : z[i] = 0
        BY <1>5, ZerosFacts, Zenon
      <3> HIDE DEF z
      <3>3. SubSeq(e, 1, Len(z)) = z /\ SubSeq(e, Len(z) + 1, Len(z) + Len(val)) = val
        BY <1>1, <3>1, <3>2, CutConcat
      <3>4. Len(z) + Len(val) = WordLen
        BY <1>1, <1>5, <2>1, <3>2
      <3>5. SubSeq(e, 1, AddrPad) = z /\ SubSeq(e, AddrPad + 1, WordLen) = val
        BY <3>2, <3>3, <3>4
      <3>6. Abstract!IsZero(z)
        <4>1. DOMAIN z = 1..AddrPad
          BY <3>2, <1>5
        <4> QED BY <3>2, <4>1 DEF Abstract!IsZero
      <3> QED BY <1>4, <2>1, <3>5, <3>6, Zenon DEF Abstract!WordAt
    <2>2. CASE t.kind \in {"Int", "Uint"}
      <3>1. e = val
        BY <1>1, <1>2, <2>2 DEF encode_token_append, val
      <3> QED BY <1>4, <2>2, <3>1 DEF Abstract!WordAt
    <2>3. CASE t.kind = "Bool"
      <3> DEFINE z == Zeros(WordLen - 1)
      <3>1. e = z \o val
        BY <1>1, <1>2, <2>3, Zenon DEF encode_token_append, val
      <3>2. z \in Seq(Byte) /\ Len(z) = WordLen - 1 /\ \A i \in 1..(WordLen - 1) : z[i] = 0
        <4>1. WordLen - 1 \in Nat
          BY <1>5
        <4> QED BY <4>1, ZerosFacts
      <3> HIDE DEF z
      <3>3. PICK b \in {0, 1} : val = <<b>>
        BY <1>1, <2>3
      <3>4. Len(val) = 1 /\ val[1] = b
        BY <3>3
      <3>5. SubSeq(e, 1, WordLen - 1) = z
        BY <1>1, <3>1, <3>2, CutConcat
      <3>6. e[WordLen] = b
        <4>1. Holds(e, Len(z), val)
          BY <1>1, <3>1, <3>2, HoldsInConcat
        <4>2. e[Len(z) + 1] = val[1]
          BY <3>4, <4>1 DEF Holds
        <4>3. Len(z) + 1 = WordLen
          BY <1>5, <3>2
        <4> QED BY <3>4, <4>2, <4>3
      <3>7. Abstract!IsZero(z)
        <4>1. DOMAIN z = 1..(WordLen - 1)
          BY <1>5, <3>2
        <4> QED BY <3>2, <4>1 DEF Abstract!IsZero
      <3>8. <<IF e[WordLen] = 1 THEN 1 ELSE 0>> = val
        BY <3>3, <3>6
      <3> QED BY <1>4, <2>3, <3>5, <3>7, <3>8, Zenon DEF Abstract!WordAt
    <2> QED BY <2>1, <2>2, <2>3
  <1> QED
    BY <1>3, <1>6, <1>7 DEF Abstract!Leaf, Abstract!Some, Abstract!Token, Token

(* A bytesN. *)
LEMMA FoundFixedBytes ==
  ASSUME NEW t \in ParamTypes, t.kind = "FixedBytes",
         NEW token \in Tokens, is_value[t][token], NEW r \in Abstract!Reader
  PROVE  Reads(t, token, r)
  <1> DEFINE e == enc[t][token]
             val == token.val
             m == Len(val)
             n == t.size
             v == val \o Zeros(n - m)
  <1>0. t \notin DynamicTypes
    BY IsDynamic, Zenon DEF DynamicTypes
  <1> SUFFICES ASSUME Holds(r.data, r.at, e)
               PROVE  Abstract!value[t][r] = Abstract!Some(as_read[t][token])
    BY <1>0 DEF Reads
  <1>1. /\ val \in Seq(Byte) /\ m \in 1..n /\ n <= WordLen /\ n \in Nat /\ m \in Nat
    <2>1. Shaped(t, token)
      BY ValueParts
    <2> QED BY <2>1, TokenFields, TypeFields, LenProperties DEF Shaped
  <1>2. WordLen \in Nat /\ WordLen > 4
    BY WordAssumption
  <1>3. e = val \o Zeros(WordLen - m)
    <2>1. e = EncBody(enc, t, token)
      BY EncEquation, Zenon DEF EncDef
    <2>2. e = val \o Zeros(WordsFor(n) * WordLen - m)
      BY <2>1, Zenon DEF EncBody
    <2>3. WordsFor(n) = 1
      <3>1. n \in 1..WordLen
        BY <1>1, <1>2
      <3> QED BY <1>1, <3>1, WordsForFacts, Zenon
    <2>4. WordsFor(n) * WordLen - m = WordLen - m
      BY <1>1, <1>2, <2>3
    <2> QED BY <2>2, <2>4, Zenon
  <1>4. as_read[t][token] = Token(t.kind, v, <<>>)
    BY AsRead, Zenon
  <1>5. Abstract!value[t][r] = Abstract!InHeads(Abstract!value, t, r)
    <2>1. Abstract!value[t][r] = Abstract!ValueAt(Abstract!value, t, r)
      BY ValueEquation
    <2>2. ~Abstract!behind[t]
      BY <1>0, Behind DEF DynamicTypes
    <2> QED BY <2>1, <2>2 DEF Abstract!ValueAt
  <1> DEFINE y == Zeros(WordLen - m)
             z == Zeros(n - m)
  <1>6. /\ y \in Seq(Byte) /\ Len(y) = WordLen - m /\ \A i \in 1..(WordLen - m) : y[i] = 0
        /\ z \in Seq(Byte) /\ Len(z) = n - m /\ \A i \in 1..(n - m) : z[i] = 0
    <2>1. WordLen - m \in Nat /\ n - m \in Nat
      BY <1>1, <1>2
    <2> QED BY <2>1, ZerosFacts, Zenon
  <1>7. e = val \o y /\ v = val \o z
    BY <1>3
  <1>8. Len(val) = m
    OBVIOUS
  <1> HIDE DEF e, val, m, n, v, y, z
  <1>9. /\ e \in Seq(Byte) /\ Len(e) = WordLen
        /\ \A i \in 1..WordLen : e[i] = IF i <= m THEN val[i] ELSE 0
    <2>1. /\ val \o y \in Seq(Byte) /\ Len(val \o y) = Len(val) + Len(y)
          /\ \A i \in 1..(Len(val) + Len(y)) :
               (val \o y)[i] = IF i <= Len(val) THEN val[i] ELSE y[i - Len(val)]
      BY <1>1, <1>6, ConcatProperties
    <2>2. Len(val) + Len(y) = WordLen
      BY <1>1, <1>2, <1>6, <1>8
    <2>3. \A i \in 1..WordLen : ~(i <= m) => i - m \in 1..(WordLen - m)
      BY <1>1, <1>2
    <2>4. \A i \in 1..WordLen : ~(i <= m) => y[i - m] = 0
      BY <1>6, <2>3
    <2> QED BY <1>7, <1>8, <2>1, <2>2, <2>4
  <1>10. /\ v \in Seq(Byte) /\ Len(v) = n
         /\ \A i \in 1..n : v[i] = IF i <= m THEN val[i] ELSE 0
    <2>1. /\ val \o z \in Seq(Byte) /\ Len(val \o z) = Len(val) + Len(z)
          /\ \A i \in 1..(Len(val) + Len(z)) :
               (val \o z)[i] = IF i <= Len(val) THEN val[i] ELSE z[i - Len(val)]
      BY <1>1, <1>6, ConcatProperties, Zenon
    <2>2. Len(val) + Len(z) = n
      BY <1>1, <1>6, <1>8
    <2>3. \A i \in 1..n : ~(i <= m) => i - m \in 1..(n - m)
      BY <1>1
    <2>4. \A i \in 1..n : ~(i <= m) => z[i - m] = 0
      BY <1>6, <2>3
    <2> QED BY <1>7, <1>8, <2>1, <2>2, <2>4
  <1>11. Holds(e, 0, v)
    <2>1. 0 + Len(v) <= Len(e)
      BY <1>1, <1>2, <1>9, <1>10
    <2>2. \A j \in 1..Len(v) : e[0 + j] = v[j]
      <3> TAKE j \in 1..Len(v)
      <3>1. j \in 1..n /\ j \in 1..WordLen /\ 0 + j = j
        BY <1>1, <1>2, <1>10
      <3> QED BY <1>9, <1>10, <3>1
    <2> QED BY <2>1, <2>2 DEF Holds
  <1>12. Abstract!BytesAt(r, n) = v
    <2>1. Holds(r.data, r.at, e)
      BY DEF e
    <2> QED BY <1>9, <1>10, <1>11, <2>1, ReadsFirst
  <1>13. Abstract!Payload(r, n)
    <2>1. Len(e) = WordsFor(n) * WordLen
      <3>1. n \in 1..WordLen
        BY <1>1, <1>2
      <3>2. WordsFor(n) = 1 /\ 1 * WordLen = WordLen
        BY <1>1, <1>2, <3>1, WordsForFacts
      <3> QED BY <1>9, <3>2
    <2>2. \A i \in (n + 1)..Len(e) : e[i] = 0
      <3> TAKE i \in (n + 1)..Len(e)
      <3>1. i \in 1..WordLen /\ ~(i <= m)
        BY <1>1, <1>2, <1>9
      <3> QED BY <1>9, <3>1
    <2>3. Holds(r.data, r.at, e)
      BY DEF e
    <2> QED BY <1>1, <1>9, <2>1, <2>2, <2>3, ReadsPayload
  <1>14. Abstract!InHeads(Abstract!value, t, r) = Abstract!Leaf(t, Abstract!Some(v))
    BY <1>12, <1>13 DEF Abstract!InHeads, n
  <1> QED
    BY <1>4, <1>5, <1>14 DEF Abstract!Leaf, Abstract!Some, Abstract!Token, Token

(* Bytes or a string. *)
LEMMA FoundBytes ==
  ASSUME NEW t \in ParamTypes, t.kind \in {"Bytes", "String"},
         NEW token \in Tokens, is_value[t][token],
         Len(enc[t][token]) < U32 + WordLen, NEW r \in Abstract!Reader
  PROVE  Reads(t, token, r)
  <1> DEFINE e == enc[t][token]
             val == token.val
             m == Len(val)
             w == NumberWord(m)
             p == PadRight(val)
             q == Abstract!Skip(r, WordLen)
  <1>0. t \in DynamicTypes
    BY IsDynamic, Zenon DEF DynamicTypes
  <1> SUFFICES ASSUME Holds(r.data, r.at, e)
               PROVE  Abstract!InTails(Abstract!value, t, r) = Abstract!Some(as_read[t][token])
    BY <1>0 DEF Reads
  <1>1. /\ val \in Seq(Byte) /\ m \in Nat /\ token.subs = <<>>
        /\ t.kind = "String" => \A i \in 1..m : val[i] \notin InvalidUtf8
    <2>1. Shaped(t, token)
      BY ValueParts
    <2> QED BY <2>1, TokenFields, LenProperties, Zenon DEF Shaped
  <1>2. WordLen \in Nat /\ WordLen > 4 /\ U32 \in Nat
    BY WordAssumption, RadixFacts
  <1>3. e = w \o p
    <2>1. e = EncBody(enc, t, token)
      BY EncEquation, Zenon DEF EncDef
    <2> QED BY <2>1, Zenon DEF EncBody
  <1>4. /\ p \in Seq(Byte) /\ Len(p) = WordsFor(m) * WordLen
        /\ Holds(p, 0, val) /\ m <= WordsFor(m) * WordLen /\ WordsFor(m) * WordLen \in Nat
        /\ \A i \in (m + 1)..(WordsFor(m) * WordLen) : p[i] = 0
    BY <1>1, PaddedFacts, WordsForFacts, Zenon
  <1>5. w \in Seq(Byte) /\ Len(w) = WordLen
    BY <1>1, NumberWordBytes
  <1>6. as_read[t][token] = Token(t.kind, val, <<>>)
    BY <1>1, AsReadLeaf
  <1>7. Len(val) = m
    OBVIOUS
  <1>8. Len(e) < U32 + WordLen
    OBVIOUS
  <1> HIDE DEF e, val, m, p
  <1>9. e \in Seq(Byte) /\ Len(e) = WordLen + Len(p) /\ Holds(e, 0, w) /\ Holds(e, WordLen, p)
    <2> HIDE DEF w
    <2> QED BY <1>3, <1>4, <1>5, HoldsInConcat, Zenon
  <1>10. m < U32
    BY <1>1, <1>2, <1>4, <1>8, <1>9
  <1>11. Abstract!IsNumber(r) /\ Abstract!NumberAt(r) = m
    <2>1. Holds(r.data, r.at, e)
      BY DEF e
    <2>2. Holds(r.data, r.at, w)
      <3> HIDE DEF w
      <3> QED BY <1>5, <1>9, <2>1, ReadsFirst
    <2> QED BY <1>1, <1>10, <2>2, ReadsNumber
  <1> HIDE DEF w
  <1>12. /\ q \in Abstract!Reader /\ Holds(q.data, q.at, p)
    <2>1. Holds(r.data, r.at, e)
      BY DEF e
    <2> QED BY <1>2, <1>4, <1>9, <2>1, ReadsWithin
  <1> HIDE DEF q
  <1>13. Abstract!Payload(q, m)
    <2>1. \A i \in (m + 1)..Len(p) : p[i] = 0
      BY <1>4
    <2> QED BY <1>1, <1>4, <1>12, <2>1, ReadsPayload
  <1>14. Abstract!BytesAt(q, m) = val
    BY <1>1, <1>4, <1>7, <1>12, ReadsFirst
  <1>15. Abstract!Counted(r) = Abstract!Some(val)
    BY <1>11, <1>13, <1>14 DEF Abstract!Counted, q
  <1>16. CASE t.kind = "Bytes"
    <2>1. Abstract!InTails(Abstract!value, t, r) = Abstract!Leaf(t, Abstract!Some(val))
      BY <1>15, <1>16 DEF Abstract!InTails
    <2> QED BY <1>6, <2>1 DEF Abstract!Leaf, Abstract!Some, Abstract!Token, Token
  <1>17. CASE t.kind = "String"
    <2>1. Abstract!Lossy(val) = val
      BY <1>1, <1>7, <1>17, LossyOfValid
    <2>2. Abstract!LossyOf(Abstract!Some(val)) = Abstract!Some(val)
      BY <2>1 DEF Abstract!LossyOf, Abstract!Some
    <2>3. Abstract!InTails(Abstract!value, t, r) = Abstract!Leaf(t, Abstract!Some(val))
      BY <1>15, <1>17, <2>2 DEF Abstract!InTails
    <2> QED BY <1>6, <2>3 DEF Abstract!Leaf, Abstract!Some, Abstract!Token, Token
  <1> QED
    BY <1>16, <1>17

-----------------------------------------------------------------------------
(* The heads of a row are as long as the decoder takes them to be. *)

(* So are the first k, if each of them is. *)
LEMMA HeadsMeasured ==
  ASSUME NEW t, t.subs \in Seq(ParamTypes), NEW n \in Nat, HasElements(t, n),
         NEW ss \in Seq(Seq(Byte)), Len(ss) = n,
         \A i \in 1..n : Len(ss[i]) = Abstract!head_len[Abstract!SubType(t, i)]
  PROVE  \A k \in 0..n : LenTo(ss, k) = Abstract!HeadsLen(Abstract!head_len, t, k)
  <1> SUFFICES ASSUME NEW k \in 0..n
               PROVE  LenTo(ss, k) = Abstract!HeadsLen(Abstract!head_len, t, k)
    OBVIOUS
  <1>1. CASE t.kind = "Tuple"
    <2>1. \A i \in 1..k : i \in 1..n /\ Abstract!SubType(t, i) = t.subs[i]
      BY <1>1 DEF Abstract!SubType
    <2>2. [i \in 1..k |-> Len(ss[i])] = [i \in 1..k |-> Abstract!head_len[t.subs[i]]]
      BY <2>1
    <2>3. Abstract!HeadsLen(Abstract!head_len, t, k)
            = Total[[i \in 1..k |-> Abstract!head_len[t.subs[i]]]]
      BY <1>1, LenOfTuple
    <2>4. LenTo(ss, k) = Total[[i \in 1..k |-> Len(ss[i])]]
      BY DEF LenTo
    <2> QED BY <2>2, <2>3, <2>4, Zenon
  <1>2. CASE t.kind # "Tuple"
    <2> DEFINE h == Abstract!head_len[t.subs[1]]
    <2>1. h \in Nat
      <3>1. t.subs[1] \in ParamTypes
        BY <1>2 DEF HasElements
      <3> QED BY <3>1, SameHeads, HeadSizeNat
    <2>2. \A i \in 1..Len(ss) : Len(ss[i]) = h
      BY <1>2 DEF Abstract!SubType
    <2>3. Abstract!HeadsLen(Abstract!head_len, t, k) = k * h
      BY <1>2 DEF Abstract!HeadsLen
    <2> HIDE DEF h
    <2>4. \A j \in 0..Len(ss) : LenTo(ss, j) = j * h
      BY <2>1, <2>2, LenOfEqualParts
    <2> QED BY <2>3, <2>4
  <1> QED
    BY <1>1, <1>2

(* Parts without bytes have none together. *)
LEMMA LenOfNothing ==
  ASSUME NEW ss \in Seq(Seq(Byte)), \A i \in 1..Len(ss) : ss[i] = <<>>
  PROVE  LenTo(ss, Len(ss)) = 0
  <1>1. \A i \in 1..Len(ss) : Len(ss[i]) = 0
    OBVIOUS
  <1>2. \A k \in 0..Len(ss) : LenTo(ss, k) = k * 0
    BY <1>1, LenOfEqualParts
  <1>3. Len(ss) \in Nat
    BY LenProperties
  <1> QED
    BY <1>2, <1>3

(* The encoding of a value of a static type is its head. *)
Measured(t) ==
  t \notin DynamicTypes =>
    \A token \in Tokens : is_value[t][token] =>
      Len(enc[t][token]) = Abstract!head_len[t]

(* The components of a value, and their encodings. *)
LEMMA RowParts ==
  ASSUME NEW t \in ParamTypes, t.kind \in {"Array", "FixedArray", "Tuple"},
         NEW token \in Tokens, is_value[t][token]
  PROVE  LET encs == PartsOf(t, token)
             dyns == DynsOf(t, token)
             n    == Len(token.subs)
         IN  /\ encs \in Seq(Seq(Byte)) /\ Len(encs) = n /\ n \in Nat
             /\ DOMAIN token.subs = 1..n
             /\ HasElements(t, n) /\ t.subs \in Seq(ParamTypes)
             /\ RowEnc(enc, t, token) = Layout(encs, dyns)
             /\ Layout(encs, dyns) \in Seq(Byte)
             /\ \A i \in 1..n :
                  /\ Abstract!SubType(t, i) = TypeOf(t, i)
                  /\ TypeOf(t, i) \in Range(t.subs) /\ TypeOf(t, i) \in ParamTypes
                  /\ token.subs[i] \in Tokens
                  /\ is_value[TypeOf(t, i)][token.subs[i]]
                  /\ encs[i] = enc[TypeOf(t, i)][token.subs[i]]
                  /\ dyns[i] <=> TypeOf(t, i) \in DynamicTypes
  <1> DEFINE encs == PartsOf(t, token)
             dyns == DynsOf(t, token)
             n    == Len(token.subs)
  <1>1. n \in Nat /\ DOMAIN token.subs = 1..n /\ \A i \in 1..n : token.subs[i] \in Tokens
    BY TokenFields, LenProperties
  <1>2. /\ Parts(t, token) = DOMAIN token.subs
        /\ \A i \in DOMAIN token.subs : is_value[TypeOf(t, i)][token.subs[i]]
        /\ t.kind = "Tuple" => n = Len(t.subs)
    BY ValueParts, Zenon DEF Shaped
  <1>3. t.subs \in Seq(ParamTypes) /\ (t.kind # "Tuple" => Len(t.subs) = 1)
    BY TypeFields
  <1>4. HasElements(t, n)
    BY <1>2, <1>3 DEF HasElements
  <1>5. ASSUME NEW i \in 1..n
        PROVE  /\ Abstract!SubType(t, i) = TypeOf(t, i)
               /\ TypeOf(t, i) \in Range(t.subs) /\ TypeOf(t, i) \in ParamTypes
    <2>1. Abstract!SubType(t, i) = TypeOf(t, i)
      BY DEF Abstract!SubType, TypeOf
    <2>2. Abstract!SubType(t, i) \in Range(t.subs)
      BY <1>1, <1>3, <1>4, HeadsLenNat
    <2>3. TypeOf(t, i) \in ParamTypes
      BY <1>1, <1>2, PartTypes
    <2> QED BY <2>1, <2>2, <2>3
  <1>6. \A i \in DOMAIN token.subs : CanonicalValue(TypeOf(t, i), token.subs[i])
    <2> TAKE i \in DOMAIN token.subs
    <2>1. i \in 1..n
      BY <1>1
    <2>2. TypeOf(t, i) \in ParamTypes /\ token.subs[i] \in Tokens
      BY <1>1, <1>5, <2>1
    <2> QED BY <1>2, <2>2, AllCanonical DEF Canonical
  <1>7. /\ encs \in Seq(Seq(Byte)) /\ Len(encs) = n
        /\ RowEnc(enc, t, token) = Layout(encs, dyns)
        /\ Layout(encs, dyns) \in Seq(Byte)
    BY <1>6, RowOfValue
  <1>8. \A i \in 1..n : /\ encs[i] = enc[TypeOf(t, i)][token.subs[i]]
                        /\ dyns[i] <=> TypeOf(t, i) \in DynamicTypes
    BY <1>1 DEF PartsOf, DynsOf
  <1> HIDE DEF encs, dyns
  <1>9. \A i \in 1..n : is_value[TypeOf(t, i)][token.subs[i]]
    BY <1>1, <1>2
  <1>10. /\ encs \in Seq(Seq(Byte)) /\ Len(encs) = n /\ n \in Nat
         /\ DOMAIN token.subs = 1..n
         /\ HasElements(t, n) /\ t.subs \in Seq(ParamTypes)
         /\ RowEnc(enc, t, token) = Layout(encs, dyns)
         /\ Layout(encs, dyns) \in Seq(Byte)
         /\ \A i \in 1..n :
              /\ Abstract!SubType(t, i) = TypeOf(t, i)
              /\ TypeOf(t, i) \in Range(t.subs) /\ TypeOf(t, i) \in ParamTypes
              /\ token.subs[i] \in Tokens
              /\ is_value[TypeOf(t, i)][token.subs[i]]
              /\ encs[i] = enc[TypeOf(t, i)][token.subs[i]]
              /\ dyns[i] <=> TypeOf(t, i) \in DynamicTypes
    BY <1>1, <1>3, <1>4, <1>5, <1>7, <1>8, <1>9
  <1> QED
    BY <1>10 DEF encs, dyns

(* What is measured for the heads of a row are the heads. *)
LEMMA SizesMeasured ==
  ASSUME NEW t, t.subs \in Seq(ParamTypes), NEW n \in Nat, HasElements(t, n),
         NEW encs \in Seq(Seq(Byte)), Len(encs) = n, NEW dyns,
         \A i \in 1..n : LET u == Abstract!SubType(t, i)
                         IN  /\ dyns[i] => Abstract!head_len[u] = WordLen
                             /\ ~dyns[i] => Abstract!head_len[u] = Len(encs[i])
  PROVE  \A k \in 0..n : LenTo(SizesOf(encs, dyns), k)
                           = Abstract!HeadsLen(Abstract!head_len, t, k)
  <1> DEFINE ss == SizesOf(encs, dyns)
  <1>1. /\ ss \in Seq(Seq(Byte)) /\ Len(ss) = n
        /\ \A i \in 1..n : /\ dyns[i] => Len(ss[i]) = WordLen
                           /\ ~dyns[i] => ss[i] = encs[i]
    BY LayoutParts, Zenon
  <1> HIDE DEF ss
  <1>2. \A i \in 1..n : Len(ss[i]) = Abstract!head_len[Abstract!SubType(t, i)]
    BY <1>1
  <1>3. \A k \in 0..n : LenTo(ss, k) = Abstract!HeadsLen(Abstract!head_len, t, k)
    BY <1>1, <1>2, HeadsMeasured
  <1> QED
    BY <1>3 DEF ss

(* Every static value is encoded in as many bytes as its type's head takes. *)
LEMMA AllMeasured == \A t \in ParamTypes : Measured(t)
  <1> DEFINE S == {t \in ParamTypes : Measured(t)}
  <1>1. ASSUME NEW t \in ParamTypes, \A i \in DOMAIN t.subs : t.subs[i] \in S
        PROVE  t \in S
    <2> SUFFICES ASSUME t \notin DynamicTypes, NEW token \in Tokens, is_value[t][token]
                 PROVE  Len(enc[t][token]) = Abstract!head_len[t]
      BY DEF Measured
    <2> DEFINE e == enc[t][token]
    <2>1. t.kind \in Kinds /\ ~Abstract!behind[t]
      BY TypeFields, Behind DEF DynamicTypes
    <2>2. t.kind \notin {"Bytes", "String", "Array"}
      BY KindsOfTypes
    <2>3. Abstract!head_len[t] = LenDef(Abstract!head_len, t)
      BY LenEquation
    <2>4. CASE t.kind \in {"Address", "Int", "Uint", "Bool", "FixedBytes"}
      <3>1. Len(e) = WordLen
        BY <2>4, CanonicalWord
      <3> QED BY <2>3, <2>4, <3>1 DEF LenDef
    <2>5. CASE t.kind \in {"FixedArray", "Tuple"}
      <3> DEFINE encs == PartsOf(t, token)
                 dyns == DynsOf(t, token)
                 n    == Len(token.subs)
                 L    == Layout(encs, dyns)
      <3>1. /\ encs \in Seq(Seq(Byte)) /\ Len(encs) = n /\ n \in Nat
            /\ HasElements(t, n) /\ t.subs \in Seq(ParamTypes)
            /\ RowEnc(enc, t, token) = L
            /\ \A i \in 1..n :
                 /\ Abstract!SubType(t, i) = TypeOf(t, i)
                 /\ TypeOf(t, i) \in Range(t.subs)
                 /\ token.subs[i] \in Tokens
                 /\ is_value[TypeOf(t, i)][token.subs[i]]
                 /\ encs[i] = enc[TypeOf(t, i)][token.subs[i]]
                 /\ dyns[i] <=> TypeOf(t, i) \in DynamicTypes
        BY <2>5, RowParts, Zenon
      <3>2. e = L
        <4>1. e = EncBody(enc, t, token)
          BY EncEquation, Zenon DEF EncDef
        <4> QED BY <2>5, <3>1, <4>1, Zenon DEF EncBody
      <3>3. Abstract!head_len[t] = Abstract!HeadsLen(Abstract!head_len, t, n)
        <4>1. Abstract!Width(t) = n
          <5>1. Shaped(t, token)
            BY ValueParts
          <5>2. (t.kind = "Tuple" => n = Len(t.subs)) /\ (t.kind = "FixedArray" => n = t.size)
            BY <5>1, Zenon DEF Shaped
          <5> QED BY <2>5, <5>2 DEF Abstract!Width
        <4> QED BY <2>1, <2>3, <2>5, <4>1 DEF LenDef
      <3> HIDE DEF encs, dyns, n, e, L
      <3>4. ASSUME NEW i \in 1..n
            PROVE  ~dyns[i] /\ Abstract!head_len[Abstract!SubType(t, i)] = Len(encs[i])
        <4> DEFINE u == TypeOf(t, i)
        <4>1. PICK j \in DOMAIN t.subs : u = t.subs[j]
          BY <3>1 DEF Range
        <4>2. u \notin DynamicTypes
          <5>1. is_dynamic[t] = \/ t.kind \in {"Bytes", "String", "Array"}
                                \/ /\ t.kind \in {"FixedArray", "Tuple"}
                                   /\ \E x \in DOMAIN t.subs : is_dynamic[t.subs[x]]
            BY IsDynamic
          <5> QED BY <2>5, <4>1, <5>1 DEF DynamicTypes
        <4>3. Measured(u)
          BY <1>1, <4>1
        <4> QED BY <3>1, <4>2, <4>3 DEF Measured
      <3>5. \A k \in 0..n : LenTo(SizesOf(encs, dyns), k)
                              = Abstract!HeadsLen(Abstract!head_len, t, k)
        <4>1. \A i \in 1..n : LET u == Abstract!SubType(t, i)
                              IN  /\ dyns[i] => Abstract!head_len[u] = WordLen
                                  /\ ~dyns[i] => Abstract!head_len[u] = Len(encs[i])
          BY <3>4
        <4> QED BY <3>1, <4>1, SizesMeasured
      <3>6. LenTo(TailsOf(encs, dyns), n) = 0
        <4> DEFINE tails == TailsOf(encs, dyns)
        <4>1. /\ tails \in Seq(Seq(Byte)) /\ Len(tails) = n
              /\ \A i \in 1..n : ~dyns[i] => tails[i] = <<>>
          BY <3>1, LayoutParts, Zenon
        <4> HIDE DEF tails
        <4>2. \A i \in 1..Len(tails) : tails[i] = <<>>
          BY <3>4, <4>1
        <4>3. LenTo(tails, Len(tails)) = 0
          BY <4>1, <4>2, LenOfNothing
        <4> QED BY <4>1, <4>3 DEF tails
      <3>7. Len(L) = LenTo(SizesOf(encs, dyns), n) + LenTo(TailsOf(encs, dyns), n)
            /\ LenTo(SizesOf(encs, dyns), n) \in Nat
        BY <3>1, LayoutFacts, Zenon DEF L
      <3>8. n \in 0..n
        BY <3>1
      <3>9. Len(L) = Abstract!HeadsLen(Abstract!head_len, t, n)
        BY <3>5, <3>6, <3>7, <3>8
      <3> QED BY <3>2, <3>3, <3>9 DEF e
    <2> QED BY <2>1, <2>2, <2>4, <2>5 DEF Kinds
  <1> HIDE DEF S
  <1>2. ParamTypes \subseteq S
    BY <1>1, TypeInduction
  <1> QED
    BY <1>2 DEF S

-----------------------------------------------------------------------------
(* Rows are found where they are laid out. *)

(* What the decoder takes for the head of a value. *)
LEMMA HeadOfValue ==
  ASSUME NEW t \in ParamTypes, NEW token \in Tokens, is_value[t][token]
  PROVE  /\ t \in DynamicTypes => Abstract!head_len[t] = WordLen
         /\ t \notin DynamicTypes => Abstract!head_len[t] = Len(enc[t][token])
  <1>1. CASE t \in DynamicTypes
    <2>1. Abstract!behind[t]
      BY <1>1, Behind DEF DynamicTypes
    <2> QED BY <1>1, <2>1, LenEquation DEF LenDef
  <1>2. CASE t \notin DynamicTypes
    BY <1>2, AllMeasured DEF Measured
  <1> QED
    BY <1>1, <1>2

(* A reader before the head of a value, whose tail is where the head says. *)
LEMMA FoundThrough ==
  ASSUME NEW u \in ParamTypes, u \in DynamicTypes, Found(u),
         NEW token \in Tokens, is_value[u][token], Len(enc[u][token]) < U32 + WordLen,
         NEW L \in Seq(Byte), NEW r \in Abstract!Reader, Holds(r.data, r.at, L),
         r.base = r.at, NEW h \in Nat, NEW off \in Nat, off < U32,
         Holds(L, h, NumberWord(off)), Holds(L, off, enc[u][token])
  PROVE  Abstract!value[u][Abstract!Skip(r, h)] = Abstract!Some(as_read[u][token])
  <1> DEFINE q == Abstract!Skip(r, h)
             p == Abstract!Skip(r, off)
             e == enc[u][token]
             w == NumberWord(off)
  <1>1. w \in Seq(Byte) /\ e \in Seq(Byte)
    <2>1. CanonicalValue(u, token)
      BY AllCanonical DEF Canonical
    <2> QED BY <2>1, NumberWordBytes DEF CanonicalValue
  <1> HIDE DEF w, e
  <1>2. Holds(L, h, w) /\ Holds(L, off, e)
    BY DEF w, e
  <1>3. /\ q \in Abstract!Reader /\ Holds(q.data, q.at, w)
        /\ q.base = r.base
    BY <1>1, <1>2, ReadsWithin, Zenon
  <1>4. p \in Abstract!Reader /\ Holds(p.data, p.at, e)
    BY <1>1, <1>2, ReadsWithin, Zenon
  <1>5. Abstract!IsNumber(q) /\ Abstract!NumberAt(q) = off
    <2> HIDE DEF q
    <2> QED BY <1>3, ReadsNumber DEF w
  <1>6. Abstract!Target(q) = p
    <2>1. Abstract!Target(q) = [q EXCEPT !.at = q.base + off]
      BY <1>5, Zenon DEF Abstract!Target
    <2>2. q.base + off = r.at + off
      BY <1>3
    <2>3. Abstract!Target(q) = [q EXCEPT !.at = r.at + off]
      BY <2>1, <2>2
    <2>4. q = [r EXCEPT !.at = r.at + h] /\ p = [r EXCEPT !.at = r.at + off]
      BY DEF Abstract!Skip
    <2>5. r = [data |-> r.data, strict |-> r.strict, base |-> r.base, at |-> r.at]
      BY DEF Abstract!Reader
    <2> HIDE DEF p, q
    <2>6. [q EXCEPT !.at = r.at + off] = p
      BY <2>4, <2>5
    <2> QED BY <2>3, <2>6
  <1> HIDE DEF p, q
  <1>7. Abstract!InTails(Abstract!value, u, p) = Abstract!Some(as_read[u][token])
    <2>1. Reads(u, token, p)
      BY <1>4 DEF Found
    <2> QED BY <1>4, <2>1 DEF Reads, e
  <1>8. Abstract!value[u][q] = Abstract!Some(as_read[u][token])
    <2>1. Abstract!value[u][q] = Abstract!ValueAt(Abstract!value, u, q)
      BY <1>3, ValueEquation
    <2>2. Abstract!behind[u]
      BY Behind DEF DynamicTypes
    <2> QED BY <1>5, <1>6, <1>7, <2>1, <2>2 DEF Abstract!ValueAt
  <1> QED
    BY <1>8 DEF q

(* A value whose head is its encoding. *)
LEMMA FoundHere ==
  ASSUME NEW u \in ParamTypes, u \notin DynamicTypes, Found(u),
         NEW token \in Tokens, is_value[u][token], Len(enc[u][token]) < U32 + WordLen,
         NEW L \in Seq(Byte), NEW r \in Abstract!Reader, Holds(r.data, r.at, L),
         NEW h \in Nat, Holds(L, h, enc[u][token])
  PROVE  Abstract!value[u][Abstract!Skip(r, h)] = Abstract!Some(as_read[u][token])
  <1> DEFINE q == Abstract!Skip(r, h)
             e == enc[u][token]
  <1>1. e \in Seq(Byte)
    <2>1. CanonicalValue(u, token)
      BY AllCanonical DEF Canonical
    <2> QED BY <2>1 DEF CanonicalValue
  <1> HIDE DEF e
  <1>2. Holds(L, h, e)
    BY DEF e
  <1>3. q \in Abstract!Reader /\ Holds(q.data, q.at, e)
    BY <1>1, <1>2, ReadsWithin, Zenon
  <1> HIDE DEF q
  <1>4. Reads(u, token, q)
    BY <1>3 DEF Found
  <1> QED
    BY <1>3, <1>4 DEF Reads, e, q

(* These are the encodings of n tokens, which are values of the component  *)
(* types of t, all of them types whose values are found.                   *)
Encodes(t, n, toks, encs, dyns) ==
  /\ t.subs \in Seq(ParamTypes) /\ n \in Nat /\ HasElements(t, n)
  /\ encs \in Seq(Seq(Byte)) /\ Len(encs) = n
  /\ \A i \in 1..n : LET u == Abstract!SubType(t, i)
                     IN  /\ u \in ParamTypes /\ Found(u)
                         /\ toks[i] \in Tokens /\ is_value[u][toks[i]]
                         /\ encs[i] = enc[u][toks[i]]
                         /\ dyns[i] <=> u \in DynamicTypes

(* A reader before a row finds every component. *)
LEMMA RowFound ==
  ASSUME NEW t, NEW n, NEW toks, NEW encs, NEW dyns, Encodes(t, n, toks, encs, dyns),
         Len(Layout(encs, dyns)) < U32 + WordLen,
         NEW r \in Abstract!Reader, Holds(r.data, r.at, Layout(encs, dyns)),
         r.base = r.at \/ \A i \in 1..n : ~dyns[i]
  PROVE  Abstract!Row(Abstract!value, t, n, r)
           = Abstract!Some([i \in 1..n |-> as_read[Abstract!SubType(t, i)][toks[i]]])
  <1> DEFINE L == Layout(encs, dyns)
             U(i) == Abstract!SubType(t, i)
             at(i) == Abstract!HeadsLen(Abstract!head_len, t, i - 1)
             element(i) == Abstract!value[U(i)][Abstract!Skip(r, at(i))]
             meant(i) == as_read[U(i)][toks[i]]
  <1>1. ASSUME NEW i \in 1..n
        PROVE  /\ U(i) \in ParamTypes /\ Found(U(i))
               /\ toks[i] \in Tokens /\ is_value[U(i)][toks[i]]
               /\ encs[i] = enc[U(i)][toks[i]]
               /\ dyns[i] <=> U(i) \in DynamicTypes
    BY DEF Encodes
  <1>0. /\ t.subs \in Seq(ParamTypes) /\ n \in Nat /\ HasElements(t, n)
        /\ encs \in Seq(Seq(Byte)) /\ Len(encs) = n
    BY DEF Encodes
  <1>2. \A k \in 0..n : LenTo(SizesOf(encs, dyns), k)
                          = Abstract!HeadsLen(Abstract!head_len, t, k)
    <2>1. \A i \in 1..n : LET u == Abstract!SubType(t, i)
                          IN  /\ dyns[i] => Abstract!head_len[u] = WordLen
                              /\ ~dyns[i] => Abstract!head_len[u] = Len(encs[i])
      <3> HIDE DEF U
      <3>1. ASSUME NEW i \in 1..n
            PROVE  /\ dyns[i] => Abstract!head_len[U(i)] = WordLen
                   /\ ~dyns[i] => Abstract!head_len[U(i)] = Len(encs[i])
        <4>0. U(i) \in ParamTypes /\ toks[i] \in Tokens /\ is_value[U(i)][toks[i]]
          BY <1>1
        <4>1. /\ U(i) \in DynamicTypes => Abstract!head_len[U(i)] = WordLen
              /\ U(i) \notin DynamicTypes =>
                   Abstract!head_len[U(i)] = Len(enc[U(i)][toks[i]])
          BY <4>0, HeadOfValue
        <4> QED BY <1>1, <4>1
      <3> QED BY <3>1 DEF U
    <2> QED BY <1>0, <2>1, SizesMeasured
  <1>3. \A i \in 1..n : at(i) = HeadAt(encs, dyns, i)
    <2>1. \A i \in 1..n : i - 1 \in 0..n
      BY <1>0
    <2> QED BY <1>2, <2>1 DEF HeadAt
  <1>4. /\ L \in Seq(Byte)
        /\ \A i \in 1..n :
             /\ HeadAt(encs, dyns, i) \in Nat /\ OffsetOf(encs, dyns, i) \in Nat
             /\ ~dyns[i] => Holds(L, HeadAt(encs, dyns, i), encs[i])
             /\ dyns[i] => /\ Holds(L, HeadAt(encs, dyns, i),
                                    NumberWord(OffsetOf(encs, dyns, i)))
                           /\ Holds(L, OffsetOf(encs, dyns, i), encs[i])
    BY <1>0, LayoutFacts, Zenon
  <1>5. Len(L) < U32 + WordLen /\ Holds(r.data, r.at, L)
    OBVIOUS
  <1> HIDE DEF L, U, at
  <1>6. ASSUME NEW i \in 1..n
        PROVE  element(i) = Abstract!Some(meant(i))
    <2> DEFINE u == U(i)
               token == toks[i]
               h == HeadAt(encs, dyns, i)
               off == OffsetOf(encs, dyns, i)
    <2>1. CanonicalValue(u, token)
      BY <1>1, AllCanonical DEF Canonical
    <2>2. /\ Len(encs[i]) \in Nat /\ Len(L) \in Nat
          /\ dyns[i] => Len(encs[i]) >= WordLen
      BY <1>0, <1>1, <1>4, <2>1, LenProperties DEF CanonicalValue
    <2>3. /\ h \in Nat /\ off \in Nat
          /\ ~dyns[i] => h + Len(encs[i]) <= Len(L)
          /\ dyns[i] => off + Len(encs[i]) <= Len(L)
      BY <1>4 DEF Holds
    <2>4. Len(encs[i]) < U32 + WordLen /\ (dyns[i] => off < U32)
      <3> HIDE DEF h, off
      <3> QED BY <1>5, <2>2, <2>3, WordAssumption, RadixFacts
    <2>5. at(i) = h
      BY <1>3
    <2>6. /\ u \in ParamTypes /\ Found(u)
          /\ token \in Tokens /\ is_value[u][token] /\ encs[i] = enc[u][token]
          /\ dyns[i] <=> u \in DynamicTypes
      BY <1>1
    <2>7. CASE dyns[i]
      <3>1. r.base = r.at
        BY <2>7
      <3>2. Holds(L, h, NumberWord(off)) /\ Holds(L, off, enc[u][token])
        BY <1>4, <2>6, <2>7
      <3> HIDE DEF u, token, h, off
      <3>3. u \in DynamicTypes /\ Len(enc[u][token]) < U32 + WordLen /\ off < U32
        BY <2>4, <2>6, <2>7
      <3>5. /\ u \in ParamTypes /\ Found(u) /\ token \in Tokens /\ is_value[u][token]
            /\ h \in Nat /\ off \in Nat /\ L \in Seq(Byte) /\ Holds(r.data, r.at, L)
        BY <1>4, <1>5, <2>3, <2>6
      <3>4. Abstract!value[u][Abstract!Skip(r, h)] = Abstract!Some(as_read[u][token])
        BY <3>1, <3>2, <3>3, <3>5, FoundThrough
      <3> QED BY <2>5, <3>4 DEF u, token
    <2>8. CASE ~dyns[i]
      <3>2. Holds(L, h, enc[u][token])
        BY <1>4, <2>6, <2>8
      <3> HIDE DEF u, token, h, off
      <3>3. u \notin DynamicTypes /\ Len(enc[u][token]) < U32 + WordLen
        BY <2>4, <2>6, <2>8
      <3>5. /\ u \in ParamTypes /\ Found(u) /\ token \in Tokens /\ is_value[u][token]
            /\ h \in Nat /\ L \in Seq(Byte) /\ Holds(r.data, r.at, L)
        BY <1>4, <1>5, <2>3, <2>6
      <3>4. Abstract!value[u][Abstract!Skip(r, h)] = Abstract!Some(as_read[u][token])
        BY <3>2, <3>3, <3>5, FoundHere
      <3> QED BY <2>5, <3>4 DEF u, token
    <2> QED BY <2>7, <2>8
  <1>7. Abstract!Row(Abstract!value, t, n, r)
          = IF \E i \in 1..n : ~element(i).defined THEN Abstract!Undefined
            ELSE Abstract!Some([i \in 1..n |-> element(i).val])
    BY DEF Abstract!Row, U, at
  <1> HIDE DEF element, meant
  <1>8. \A i \in 1..n : element(i).defined /\ element(i).val = meant(i)
    <2>1. \A v : Abstract!Some(v).defined /\ Abstract!Some(v).val = v
      BY DEF Abstract!Some
    <2> QED BY <1>6, <2>1
  <1>9. [i \in 1..n |-> element(i).val] = [i \in 1..n |-> meant(i)]
    BY <1>8
  <1>10. Abstract!Row(Abstract!value, t, n, r) = Abstract!Some([i \in 1..n |-> meant(i)])
    BY <1>7, <1>8, <1>9
  <1> QED
    BY <1>10 DEF meant, U

-----------------------------------------------------------------------------
(* Values of every type are found. *)

(* An array or a tuple whose components are found. *)
LEMMA FoundRow ==
  ASSUME NEW t \in ParamTypes, t.kind \in {"Array", "FixedArray", "Tuple"},
         \A i \in DOMAIN t.subs : Found(t.subs[i]),
         NEW token \in Tokens, is_value[t][token],
         Len(enc[t][token]) < U32 + WordLen, NEW r \in Abstract!Reader
  PROVE  Reads(t, token, r)
  <1> DEFINE e == enc[t][token]
             encs == PartsOf(t, token)
             dyns == DynsOf(t, token)
             n    == Len(token.subs)
             L    == Layout(encs, dyns)
             meant == [i \in 1..n |-> as_read[Abstract!SubType(t, i)][token.subs[i]]]
  <1>1. /\ encs \in Seq(Seq(Byte)) /\ Len(encs) = n /\ n \in Nat
        /\ DOMAIN token.subs = 1..n
        /\ HasElements(t, n) /\ t.subs \in Seq(ParamTypes)
        /\ RowEnc(enc, t, token) = L /\ L \in Seq(Byte)
        /\ \A i \in 1..n :
             /\ Abstract!SubType(t, i) = TypeOf(t, i)
             /\ TypeOf(t, i) \in Range(t.subs) /\ TypeOf(t, i) \in ParamTypes
             /\ token.subs[i] \in Tokens
             /\ is_value[TypeOf(t, i)][token.subs[i]]
             /\ encs[i] = enc[TypeOf(t, i)][token.subs[i]]
             /\ dyns[i] <=> TypeOf(t, i) \in DynamicTypes
    BY RowParts, Zenon
  <1>2. /\ token.val = <<>>
        /\ t.kind = "Tuple" => n = Len(t.subs)
        /\ t.kind = "FixedArray" => n = t.size
        /\ t.kind = "Array" => n < U32
    <2>1. Shaped(t, token)
      BY ValueParts
    <2> QED BY <2>1, Zenon DEF Shaped
  <1>3. as_read[t][token] = Token(t.kind, <<>>, meant)
    <2>1. as_read[t][token]
            = Token(t.kind, token.val,
                    [i \in DOMAIN token.subs |-> as_read[TypeOf(t, i)][token.subs[i]]])
      BY AsRead, Zenon
    <2>2. [i \in DOMAIN token.subs |-> as_read[TypeOf(t, i)][token.subs[i]]] = meant
      BY <1>1
    <2> QED BY <1>2, <2>1, <2>2
  <1>4. /\ t.kind = "Array" => e = NumberWord(n) \o L
        /\ t.kind # "Array" => e = L
    <2>1. e = EncBody(enc, t, token)
      BY EncEquation, Zenon DEF EncDef
    <2> QED BY <1>1, <2>1, Zenon DEF EncBody
  <1>5. Len(e) < U32 + WordLen
    OBVIOUS
  <1>6. WordLen \in Nat /\ U32 \in Nat /\ r.at \in Nat /\ r.data \in Seq(Byte)
    BY WordAssumption, RadixFacts DEF Abstract!Reader, Abstract!Byte, Byte
  <1> SUFFICES ASSUME Holds(r.data, r.at, e)
               PROVE  (IF t \in DynamicTypes THEN Abstract!InTails(Abstract!value, t, r)
                                             ELSE Abstract!value[t][r])
                        = Abstract!Some(as_read[t][token])
    BY DEF Reads
  <1>7. ASSUME NEW q \in Abstract!Reader, Holds(q.data, q.at, L), Len(L) < U32 + WordLen,
               q.base = q.at \/ \A i \in 1..n : ~dyns[i]
        PROVE  Abstract!Node(t, Abstract!Row(Abstract!value, t, n, q))
                 = Abstract!Some(as_read[t][token])
    <2>1. Encodes(t, n, token.subs, encs, dyns)
      <3>1. ASSUME NEW i \in 1..n
            PROVE  /\ TypeOf(t, i) = Abstract!SubType(t, i) /\ Found(TypeOf(t, i))
                   /\ TypeOf(t, i) \in ParamTypes
                   /\ token.subs[i] \in Tokens /\ is_value[TypeOf(t, i)][token.subs[i]]
                   /\ encs[i] = enc[TypeOf(t, i)][token.subs[i]]
                   /\ dyns[i] <=> TypeOf(t, i) \in DynamicTypes
        <4>1. Found(TypeOf(t, i))
          BY <1>1 DEF Range
        <4> QED BY <1>1, <4>1
      <3> HIDE DEF encs, dyns, n
      <3> QED BY <1>1, <3>1 DEF Encodes
    <2> HIDE DEF encs, dyns, n
    <2>3. Abstract!Row(Abstract!value, t, n, q) = Abstract!Some(meant)
      BY <1>7, <2>1, RowFound
    <2> HIDE DEF meant
    <2> HIDE DEF L
    <2> QED
      BY <1>3, <2>3 DEF Abstract!Node, Abstract!Some, Abstract!Token, Token
  <1> DEFINE w == NumberWord(n)
  <1>8. w \in Seq(Byte) /\ Len(w) = WordLen
    BY <1>1, NumberWordBytes
  <1> HIDE DEF encs, dyns, n, L, e, meant, w
  <1>9. CASE t.kind # "Array"
    <2>1. e = L /\ Holds(r.data, r.at, L) /\ Len(L) < U32 + WordLen
      BY <1>4, <1>5, <1>9
    <2>2. Abstract!Width(t) = n
      BY <1>2, <1>9 DEF Abstract!Width
    <2>3. CASE t \in DynamicTypes
      <3> DEFINE q == Abstract!Rebased(r)
      <3>1. q \in Abstract!Reader
        BY ReaderMoves
      <3>2. q.data = r.data /\ q.at = r.at /\ q.base = q.at
        BY DEF Abstract!Rebased, Abstract!Reader
      <3>3. Abstract!Within(r, 0)
        BY <1>1, <1>6, <2>1, LenProperties DEF Holds, Abstract!Within
      <3>4. Abstract!InTails(Abstract!value, t, r)
              = Abstract!Node(t, Abstract!Row(Abstract!value, t, n, q))
        BY <1>9, <2>2, <3>3 DEF Abstract!InTails
      <3> HIDE DEF q
      <3>5. Abstract!Node(t, Abstract!Row(Abstract!value, t, n, q))
              = Abstract!Some(as_read[t][token])
        BY <1>7, <2>1, <3>1, <3>2
      <3> QED BY <2>3, <3>4, <3>5
    <2>4. CASE t \notin DynamicTypes
      <3>1. Abstract!value[t][r] = Abstract!Node(t, Abstract!Row(Abstract!value, t, n, r))
        <4>1. Abstract!value[t][r] = Abstract!ValueAt(Abstract!value, t, r)
          BY ValueEquation
        <4>2. ~Abstract!behind[t]
          BY <2>4, Behind DEF DynamicTypes
        <4> QED BY <1>9, <2>2, <4>1, <4>2 DEF Abstract!ValueAt, Abstract!InHeads
      <3>2. \A i \in 1..n : ~dyns[i]
        <4> TAKE i \in 1..n
        <4>1. PICK j \in DOMAIN t.subs : TypeOf(t, i) = t.subs[j]
          BY <1>1 DEF Range
        <4>2. is_dynamic[t] = \/ t.kind \in {"Bytes", "String", "Array"}
                              \/ /\ t.kind \in {"FixedArray", "Tuple"}
                                 /\ \E x \in DOMAIN t.subs : is_dynamic[t.subs[x]]
          BY IsDynamic
        <4>3. ~is_dynamic[t]
          BY <2>4 DEF DynamicTypes
        <4>4. ~is_dynamic[t.subs[j]]
          BY <1>9, <4>2, <4>3
        <4>5. TypeOf(t, i) \notin DynamicTypes
          BY <4>1, <4>4 DEF DynamicTypes
        <4> QED BY <1>1, <4>5
      <3>3. Abstract!Node(t, Abstract!Row(Abstract!value, t, n, r))
              = Abstract!Some(as_read[t][token])
        BY <1>7, <2>1, <3>2
      <3> QED BY <2>4, <3>1, <3>3
    <2> QED BY <2>3, <2>4
  <1>10. CASE t.kind = "Array"
    <2> DEFINE p == Abstract!Skip(r, WordLen)
               q == Abstract!Rebased(p)
    <2>1. e = w \o L
      BY <1>4, <1>10 DEF w
    <2>2. e \in Seq(Byte) /\ Len(e) = WordLen + Len(L) /\ Holds(e, 0, w) /\ Holds(e, WordLen, L)
      BY <1>1, <1>8, <2>1, HoldsInConcat, Zenon
    <2>3. Len(L) < U32 + WordLen
      BY <1>1, <1>5, <1>6, <2>2, LenProperties
    <2>4. Abstract!IsNumber(r) /\ Abstract!NumberAt(r) = n
      <3>1. Holds(r.data, r.at, w)
        BY <1>8, <2>2, ReadsFirst, Zenon
      <3> QED BY <1>1, <1>2, <1>10, <3>1, ReadsNumber DEF w
    <2>5. p \in Abstract!Reader /\ Holds(p.data, p.at, L)
      BY <1>1, <1>6, <2>2, ReadsWithin, Zenon
    <2>6. Abstract!InTails(Abstract!value, t, r)
            = Abstract!Node(t, Abstract!Row(Abstract!value, t, n, q))
      <3>1. Abstract!Elements(Abstract!value, t, r) = Abstract!Row(Abstract!value, t, n, q)
        BY <2>4 DEF Abstract!Elements
      <3> QED BY <1>10, <3>1 DEF Abstract!InTails
    <2>7. q \in Abstract!Reader
      BY <2>5, ReaderMoves, Zenon
    <2> HIDE DEF p
    <2>8. q.data = p.data /\ q.at = p.at /\ q.base = q.at
      BY <2>5 DEF Abstract!Rebased, Abstract!Reader
    <2> HIDE DEF q
    <2>9. Abstract!Node(t, Abstract!Row(Abstract!value, t, n, q))
            = Abstract!Some(as_read[t][token])
      BY <1>7, <2>3, <2>5, <2>7, <2>8
    <2>10. t \in DynamicTypes
      BY <1>10, KindsOfTypes
    <2> QED BY <2>6, <2>9, <2>10
  <1> QED
    BY <1>9, <1>10

(* The decoder finds every value that stands encoded before it. *)
LEMMA AllFound == \A t \in ParamTypes : Found(t)
  <1> DEFINE S == {t \in ParamTypes : Found(t)}
  <1>1. ASSUME NEW t \in ParamTypes, \A i \in DOMAIN t.subs : t.subs[i] \in S
        PROVE  t \in S
    <2>1. ASSUME NEW token \in Tokens, is_value[t][token],
                 Len(enc[t][token]) < U32 + WordLen, NEW r \in Abstract!Reader
          PROVE  Reads(t, token, r)
      <3>1. t.kind \in Kinds
        BY TypeFields
      <3>2. CASE t.kind \in {"Address", "Int", "Uint", "Bool"}
        BY <2>1, <3>2, FoundWord
      <3>3. CASE t.kind = "FixedBytes"
        BY <2>1, <3>3, FoundFixedBytes
      <3>4. CASE t.kind \in {"Bytes", "String"}
        BY <2>1, <3>4, FoundBytes
      <3>5. CASE t.kind \in {"Array", "FixedArray", "Tuple"}
        <4>1. \A i \in DOMAIN t.subs : Found(t.subs[i])
          BY <1>1
        <4> QED BY <2>1, <3>5, <4>1, FoundRow
      <3> QED BY <3>1, <3>2, <3>3, <3>4, <3>5 DEF Kinds
    <2> QED BY <2>1 DEF Found
  <1> HIDE DEF S
  <1>2. ParamTypes \subseteq S
    BY <1>1, TypeInduction
  <1> QED
    BY <1>2 DEF S

-----------------------------------------------------------------------------
(* What an encoding decodes to. *)

(* The encodings of the values of a call. *)
CallParts(tokens, ts) == [i \in DOMAIN ts |-> enc[ts[i]][tokens[i]]]
CallDyns(ts)          == [i \in DOMAIN ts |-> ts[i] \in DynamicTypes]

(* They are those of the arguments of a tuple. *)
LEMMA CallEncodes ==
  ASSUME NEW tokens \in Seq(Tokens), NEW ts \in Seq(ParamTypes), Len(tokens) = Len(ts),
         \A i \in DOMAIN ts : is_value[ts[i]][tokens[i]]
  PROVE  /\ EncAll(tokens, ts) = Layout(CallParts(tokens, ts), CallDyns(ts))
         /\ Encodes(Abstract!TupleT(ts), Len(ts), tokens, CallParts(tokens, ts), CallDyns(ts))
         /\ \A i \in 1..Len(ts) : Abstract!SubType(Abstract!TupleT(ts), i) = ts[i]
  <1> DEFINE args == Abstract!TupleT(ts)
             encs == CallParts(tokens, ts)
             dyns == CallDyns(ts)
             n    == Len(ts)
  <1>1. n \in Nat /\ DOMAIN ts = 1..n /\ DOMAIN tokens = 1..n
    BY LenProperties
  <1>2. EncAll(tokens, ts) = Layout(encs, dyns)
    BY Zenon DEF EncAll, CallParts, CallDyns
  <1>3. args.kind = "Tuple" /\ args.subs = ts
    BY DEF Abstract!TupleT, Abstract!ParamType
  <1> HIDE DEF args
  <1>4. \A i \in 1..n : Abstract!SubType(args, i) = ts[i]
    BY <1>3 DEF Abstract!SubType
  <1>5. ASSUME NEW i \in 1..n
        PROVE  /\ ts[i] \in ParamTypes /\ tokens[i] \in Tokens /\ is_value[ts[i]][tokens[i]]
               /\ Found(ts[i]) /\ enc[ts[i]][tokens[i]] \in Seq(Byte)
    <2>1. ts[i] \in ParamTypes /\ tokens[i] \in Tokens /\ is_value[ts[i]][tokens[i]]
      BY <1>1, ElementOfSeq
    <2>2. CanonicalValue(ts[i], tokens[i])
      BY <2>1, AllCanonical DEF Canonical
    <2> QED BY <2>1, <2>2, AllFound DEF CanonicalValue
  <1>6. /\ encs \in Seq(Seq(Byte)) /\ Len(encs) = n
        /\ \A i \in 1..n : encs[i] = enc[ts[i]][tokens[i]]
    <2>1. encs = [i \in 1..n |-> enc[ts[i]][tokens[i]]]
      BY <1>1 DEF CallParts
    <2>2. \A i \in 1..n : enc[ts[i]][tokens[i]] \in Seq(Byte)
      BY <1>5
    <2> HIDE DEF encs
    <2> QED BY <1>1, <2>1, <2>2
  <1>7. \A i \in 1..n : dyns[i] <=> ts[i] \in DynamicTypes
    BY <1>1 DEF CallDyns
  <1> HIDE DEF encs, dyns, n
  <1>8. HasElements(args, n)
    BY <1>3 DEF HasElements, n
  <1>9. Encodes(args, n, tokens, encs, dyns)
    <2>1. args.subs \in Seq(ParamTypes)
      BY <1>3
    <2>2. \A i \in 1..n : LET u == Abstract!SubType(args, i)
                          IN  /\ u \in ParamTypes /\ Found(u)
                              /\ tokens[i] \in Tokens /\ is_value[u][tokens[i]]
                              /\ encs[i] = enc[u][tokens[i]]
                              /\ dyns[i] <=> u \in DynamicTypes
      BY <1>4, <1>5, <1>6, <1>7, ZenonT(40)
    <2> QED BY <1>1, <1>6, <1>8, <2>1, <2>2 DEF Encodes
  <1> QED
    BY <1>2, <1>4, <1>9 DEF args, encs, dyns, n

(* The heads of static values in a row. *)
LEMMA StaticSizes ==
  ASSUME NEW t, NEW n, NEW tokens, NEW encs, NEW dyns, Encodes(t, n, tokens, encs, dyns),
         \A i \in 1..n : ~dyns[i]
  PROVE  \A k \in 0..n : LenTo(SizesOf(encs, dyns), k)
                           = Abstract!HeadsLen(Abstract!head_len, t, k)
  <1>1. /\ t.subs \in Seq(ParamTypes) /\ n \in Nat /\ HasElements(t, n)
        /\ encs \in Seq(Seq(Byte)) /\ Len(encs) = n
    BY DEF Encodes
  <1>2. \A i \in 1..n : LET u == Abstract!SubType(t, i)
                        IN  /\ u \in ParamTypes /\ tokens[i] \in Tokens
                            /\ is_value[u][tokens[i]] /\ encs[i] = enc[u][tokens[i]]
                            /\ dyns[i] <=> u \in DynamicTypes
    BY DEF Encodes
  <1>3. \A i \in 1..n : LET u == Abstract!SubType(t, i)
                        IN  /\ dyns[i] => Abstract!head_len[u] = WordLen
                            /\ ~dyns[i] => Abstract!head_len[u] = Len(encs[i])
    <2> TAKE i \in 1..n
    <2> DEFINE u == Abstract!SubType(t, i)
    <2>1. u \in ParamTypes /\ tokens[i] \in Tokens /\ is_value[u][tokens[i]]
          /\ encs[i] = enc[u][tokens[i]] /\ u \notin DynamicTypes
      BY <1>2
    <2> HIDE DEF u
    <2>2. Abstract!head_len[u] = Len(enc[u][tokens[i]])
      BY <2>1, HeadOfValue
    <2>3. Abstract!head_len[u] = Len(encs[i])
      BY <2>1, <2>2
    <2> QED BY <2>3 DEF u
  <1> QED
    BY <1>1, <1>3, SizesMeasured

(* The values of static types are encoded as their heads, one by one. *)
LEMMA StaticLayoutLen ==
  ASSUME NEW t, NEW n, NEW tokens, NEW encs, NEW dyns, Encodes(t, n, tokens, encs, dyns),
         \A i \in 1..n : ~dyns[i]
  PROVE  Len(Layout(encs, dyns)) = Abstract!HeadsLen(Abstract!head_len, t, n)
  <1> DEFINE L == Layout(encs, dyns)
  <1>1. n \in Nat /\ encs \in Seq(Seq(Byte)) /\ Len(encs) = n
    BY DEF Encodes
  <1>4. \A k \in 0..n : LenTo(SizesOf(encs, dyns), k)
                          = Abstract!HeadsLen(Abstract!head_len, t, k)
    BY StaticSizes
  <1>5. LenTo(TailsOf(encs, dyns), n) = 0
    <2> DEFINE tails == TailsOf(encs, dyns)
    <2>1. /\ tails \in Seq(Seq(Byte)) /\ Len(tails) = n
          /\ \A i \in 1..n : ~dyns[i] => tails[i] = <<>>
      BY <1>1, LayoutParts, Zenon
    <2> HIDE DEF tails
    <2>2. \A i \in 1..Len(tails) : tails[i] = <<>>
      BY <2>1
    <2>3. LenTo(tails, Len(tails)) = 0
      BY <2>1, <2>2, LenOfNothing
    <2> QED BY <2>1, <2>3 DEF tails
  <1>6. Len(L) = LenTo(SizesOf(encs, dyns), n) + LenTo(TailsOf(encs, dyns), n)
        /\ LenTo(SizesOf(encs, dyns), n) \in Nat
    BY <1>1, LayoutFacts, Zenon DEF L
  <1>7. n \in 0..n
    BY <1>1
  <1> HIDE DEF L
  <1>8. Len(L) = Abstract!HeadsLen(Abstract!head_len, t, n)
    BY <1>4, <1>5, <1>6, <1>7
  <1> QED BY <1>8 DEF L

(* So the encoding of values of static types is as long as their heads. *)
LEMMA StaticCallLen ==
  ASSUME NEW tokens \in Seq(Tokens), NEW ts \in Seq(ParamTypes), Len(tokens) = Len(ts),
         \A i \in DOMAIN ts : is_value[ts[i]][tokens[i]],
         \A i \in DOMAIN ts : ts[i] \notin DynamicTypes
  PROVE  Len(EncAll(tokens, ts))
           = Abstract!HeadsLen(Abstract!head_len, Abstract!TupleT(ts), Len(ts))
  <1>1. /\ EncAll(tokens, ts) = Layout(CallParts(tokens, ts), CallDyns(ts))
        /\ Encodes(Abstract!TupleT(ts), Len(ts), tokens, CallParts(tokens, ts), CallDyns(ts))
    BY CallEncodes
  <1> DEFINE dyns == CallDyns(ts)
             n    == Len(ts)
  <1>2. \A i \in 1..n : ~dyns[i]
    BY LenProperties DEF CallDyns
  <1>3. Encodes(Abstract!TupleT(ts), n, tokens, CallParts(tokens, ts), dyns)
    BY <1>1
  <1> HIDE DEF dyns, n
  <1>4. Len(Layout(CallParts(tokens, ts), dyns))
          = Abstract!HeadsLen(Abstract!head_len, Abstract!TupleT(ts), n)
    BY <1>2, <1>3, StaticLayoutLen
  <1> QED
    BY <1>1, <1>4 DEF dyns, n

(* The decoder finds what the caller means in the encoding of a call: a    *)
(* lax one always, a strict one if all types are static.                   *)
LEMMA DecodedIsMeant ==
  ASSUME NEW tokens \in Seq(Tokens), NEW ts \in Seq(ParamTypes), Len(tokens) = Len(ts),
         \A i \in DOMAIN ts : is_value[ts[i]][tokens[i]],
         NEW d, d = EncAll(tokens, ts), Len(d) < U32 + WordLen,
         d = <<>> => \A i \in DOMAIN ts : is_empty_bytes_valid_encoding(ts[i]),
         NEW strict \in BOOLEAN, strict => \A i \in DOMAIN ts : ts[i] \notin DynamicTypes
  PROVE  Abstract!Decoded(ts, d, strict)
           = Abstract!Some([i \in DOMAIN tokens |-> as_read[ts[i]][tokens[i]]])
  <1> DEFINE args == Abstract!TupleT(ts)
             encs == CallParts(tokens, ts)
             dyns == CallDyns(ts)
             n    == Len(ts)
             r    == At(d, strict, 0, 0)
             empty == d = <<>> /\ \E i \in DOMAIN ts :
                                    ~Abstract!is_empty_bytes_valid_encoding(ts[i])
             meant == [i \in DOMAIN tokens |-> as_read[ts[i]][tokens[i]]]
  <1>1. /\ EncAll(tokens, ts) = Layout(encs, dyns) /\ Encodes(args, n, tokens, encs, dyns)
        /\ \A i \in 1..n : Abstract!SubType(args, i) = ts[i]
    BY CallEncodes
  <1>2. DOMAIN tokens = 1..n
    BY LenProperties
  <1>3. Abstract!Decoded(ts, d, strict)
             = IF \/ empty
                  \/ strict /\ Abstract!HeadsLen(Abstract!head_len, args, n) # Len(d)
               THEN Abstract!Undefined ELSE Abstract!Row(Abstract!value, args, n, r)
    BY DEF Abstract!Decoded, At
  <1>4. ~empty
    BY DEF Abstract!is_empty_bytes_valid_encoding, is_empty_bytes_valid_encoding
  <1>5. strict => Abstract!HeadsLen(Abstract!head_len, args, n) = Len(d)
    BY StaticCallLen
  <1>6. d \in Seq(Byte)
    <2> HIDE DEF encs, dyns
    <2>1. encs \in Seq(Seq(Byte))
      BY <1>1 DEF Encodes
    <2>2. Layout(encs, dyns) \in Seq(Byte)
      BY <2>1, LayoutFacts, Zenon
    <2> QED BY <1>1, <2>2
  <1> HIDE DEF args, encs, dyns, n, empty
  <1>7. r = [data |-> d, strict |-> strict, base |-> 0, at |-> 0]
    BY DEF At
  <1>8. r \in Abstract!Reader /\ r.data = d /\ r.at = 0 /\ r.base = 0
    BY <1>6, <1>7 DEF Abstract!Reader, Byte, Abstract!Byte
  <1> HIDE DEF r
  <1>9. Holds(r.data, r.at, Layout(encs, dyns)) /\ Len(Layout(encs, dyns)) < U32 + WordLen
    <2>1. Layout(encs, dyns) = d
      BY <1>1
    <2>2. Holds(d, 0, d)
      BY <1>6, LenProperties DEF Holds
    <2> QED BY <1>8, <2>1, <2>2
  <1>10. Abstract!Row(Abstract!value, args, n, r)
           = Abstract!Some([i \in 1..n |-> as_read[Abstract!SubType(args, i)][tokens[i]]])
    <2>1. r.base = r.at
      BY <1>8
    <2> QED BY <1>1, <1>8, <1>9, <2>1, RowFound
  <1>11. [i \in 1..n |-> as_read[Abstract!SubType(args, i)][tokens[i]]] = meant
    BY <1>1, <1>2
  <1> HIDE DEF meant
  <1>12. Abstract!Decoded(ts, d, strict) = Abstract!Row(Abstract!value, args, n, r)
    BY <1>3, <1>4, <1>5
  <1>13. Abstract!Decoded(ts, d, strict) = Abstract!Some(meant)
    BY <1>10, <1>11, <1>12
  <1> QED
    BY <1>13 DEF meant

-----------------------------------------------------------------------------
(* What the decoder finds are values. *)

(* The types whose values the encoder and the decoder lay out alike.  The  *)
(* other ones are bytesN for N = 0 or more than a word, and arrays of no   *)
(* elements of a dynamic type, which the encoder takes for static, and     *)
(* what is made of these.                                                  *)
UsualType(t) ==
  /\ t.kind = "FixedBytes" => t.size \in 1..WordLen
  /\ t.kind = "FixedArray" /\ t.size = 0 => t \notin DynamicTypes

usual[t \in ParamTypes] ==
  UsualType(t) /\ \A i \in DOMAIN t.subs : usual[t.subs[i]]

(* The right side of usual's definition. *)
UsualDef(f, t) == UsualType(t) /\ \A i \in DOMAIN t.subs : f[t.subs[i]]

Usuals == INSTANCE Recursion WITH
  Dom <- ParamTypes, measure <- nodes, Def <- UsualDef

(* usual obeys its definition. *)
LEMMA UsualEquation ==
  ASSUME NEW t \in ParamTypes, usual[t]
  PROVE  UsualType(t) /\ \A i \in DOMAIN t.subs : usual[t.subs[i]]
  <1>1. Usuals!WellFounded
    <2>1. ASSUME NEW f, NEW g, NEW s \in ParamTypes,
                 \A u \in ParamTypes : nodes[u] < nodes[s] => f[u] = g[u]
          PROVE  UsualDef(f, s) = UsualDef(g, s)
      <3>1. \A i \in DOMAIN s.subs : f[s.subs[i]] = g[s.subs[i]]
        BY <2>1, Components
      <3> QED
        BY <3>1 DEF UsualDef
    <2> QED
      BY <2>1, FiniteTypesAssumption DEF Usuals!WellFounded
  <1>2. usual = CHOOSE f : f = [s \in ParamTypes |-> UsualDef(f, s)]
    BY DEF usual, UsualDef
  <1>3. usual = [s \in ParamTypes |-> UsualDef(usual, s)]
    BY <1>1, <1>2, NaturalInduction, Usuals!Defined DEF Usuals!Inductive
  <1>4. usual[t] = UsualDef(usual, t)
    BY <1>3
  <1> QED
    BY <1>4 DEF UsualDef

(* A token that decode finds for t is one that it reads back as it is. *)
FindsValues(t) ==
  \A r \in Abstract!Reader :
    Abstract!value[t][r].defined /\ Abstract!value[t][r].val \in Tokens =>
      Settled(t, Abstract!value[t][r].val)

(* The bytes read as a string are UTF-8. *)
LEMMA LossyIsValid ==
  ASSUME NEW s \in Seq(Byte)
  PROVE  /\ Abstract!Lossy(s) \in Seq(Byte)
         /\ \A i \in 1..Len(Abstract!Lossy(s)) : Abstract!Lossy(s)[i] \notin InvalidUtf8
  <1> DEFINE ss == [i \in DOMAIN s |-> IF s[i] \in InvalidUtf8 THEN Replacement ELSE <<s[i]>>]
             F  == FlattenSeq(ss)
  <1>1. Len(s) \in Nat /\ DOMAIN s = 1..Len(s) /\ \A i \in 1..Len(s) : s[i] \in Byte
    BY LenProperties, ElementOfSeq
  <1>2. ASSUME NEW i \in 1..Len(s)
        PROVE  ss[i] \in Seq(Byte) /\ \A m \in 1..Len(ss[i]) : ss[i][m] \notin InvalidUtf8
    <2>1. CASE s[i] \in InvalidUtf8
      <3>1. ss[i] = Replacement
        BY <1>1, <2>1
      <3>2. Replacement \in Seq(Byte) /\ \A m \in 1..Len(Replacement) : Replacement[m] \notin InvalidUtf8
        BY Utf8Assumption
      <3> QED BY <3>1, <3>2
    <2>2. CASE s[i] \notin InvalidUtf8
      <3>1. ss[i] = <<s[i]>> /\ s[i] \in Byte
        BY <1>1, <2>2
      <3>2. <<s[i]>> \in Seq(Byte) /\ \A m \in 1..Len(<<s[i]>>) : <<s[i]>>[m] = s[i]
        BY <3>1
      <3> QED BY <2>2, <3>1, <3>2
    <2> QED BY <2>1, <2>2
  <1>3. ss \in Seq(Seq(Byte)) /\ Len(ss) = Len(s)
    <2>1. DOMAIN ss = 1..Len(s) /\ ss = [i \in 1..Len(s) |-> ss[i]]
      BY <1>1
    <2> HIDE DEF ss
    <2> QED BY <1>1, <1>2, <2>1
  <1>4. Abstract!Lossy(s) = F
    <2>1. from_utf8_lossy(s) = Abstract!Lossy(s)
      BY SameLossy
    <2> QED BY <2>1 DEF from_utf8_lossy
  <1> HIDE DEF ss
  <1>5. F \in Seq(Byte) /\ \A j \in 1..Len(F) : F[j] \notin InvalidUtf8
    <2>1. F \in Seq(Byte)
      BY <1>3, FlattenFacts
    <2>2. ASSUME NEW j \in 1..Len(F) PROVE F[j] \notin InvalidUtf8
      <3>1. PICK i \in 1..Len(ss) : \E m \in 1..Len(ss[i]) : F[j] = ss[i][m]
        BY <1>3, FlattenBytes
      <3> QED BY <1>2, <1>3, <3>1
    <2> QED BY <2>1, <2>2
  <1> QED
    BY <1>4, <1>5

(* A token without components. *)
LEMMA SettledLeaf ==
  ASSUME NEW t \in ParamTypes, NEW bytes, NEW token \in Tokens,
         token = Token(t.kind, bytes, <<>>), Shaped(t, token),
         t.kind = "FixedBytes" => Len(bytes) = t.size
  PROVE  Settled(t, token)
  <1>1. token.kind = t.kind /\ token.val = bytes /\ token.subs = <<>>
    BY DEF Token
  <1>2. is_value[t][token]
    <2>1. Parts(t, token) = DOMAIN token.subs
      BY IsValueEquation
    <2>2. Parts(t, token) = {}
      BY <1>1, <2>1
    <2> QED BY <2>2, IsValueEquation
  <1>3. CASE t.kind # "FixedBytes"
    <2>1. as_read[t][token] = Token(t.kind, token.val, <<>>)
      BY <1>1, <1>2, <1>3, AsReadLeaf
    <2> QED BY <1>1, <1>2, <2>1 DEF Settled
  <1>4. CASE t.kind = "FixedBytes"
    <2>1. as_read[t][token] = Token(t.kind, bytes \o Zeros(t.size - Len(bytes)), <<>>)
      <3>1. as_read[t][token]
              = Token(t.kind, token.val \o Zeros(t.size - Len(token.val)), <<>>)
        BY <1>2, <1>4, AsRead, Zenon
      <3> QED BY <1>1, <3>1
    <2>2. bytes \in Seq(Byte) /\ t.size \in Nat /\ t.size - Len(bytes) = 0
      BY <1>1, <1>4, TokenFields, TypeFields
    <2>3. Zeros(0) = <<>> /\ bytes \o <<>> = bytes
      <3>1. Zeros(0) \in Seq(Byte) /\ Len(Zeros(0)) = 0
        BY ZerosFacts
      <3>2. Zeros(0) = <<>>
        BY <3>1, EmptySeq
      <3> QED BY <2>2, <3>2, ConcatEmptySeq
    <2>4. as_read[t][token] = Token(t.kind, bytes, <<>>)
      BY <2>1, <2>2, <2>3
    <2> QED BY <1>2, <2>4 DEF Settled
  <1> QED BY <1>3, <1>4

(* Bytes that a reader reads. *)
LEMMA BytesWithin ==
  ASSUME NEW r \in Abstract!Reader, NEW n \in Nat, Abstract!Within(r, n)
  PROVE  Abstract!BytesAt(r, n) \in Seq(Byte) /\ Len(Abstract!BytesAt(r, n)) = n
  <1>1. r.at \in Nat /\ r.data \in Seq(Byte) /\ r.at + n <= Len(r.data)
    BY DEF Abstract!Reader, Abstract!Byte, Byte, Abstract!Within
  <1>2. Abstract!BytesAt(r, n) = Slice(r.data, r.at, r.at + n)
    BY DEF Abstract!BytesAt, Slice
  <1>3. (r.at + n) - r.at = n /\ r.at + n \in Nat /\ r.at <= r.at + n
    BY <1>1
  <1> QED BY <1>1, <1>2, <1>3, SliceIsBytes

(* A payload that a reader accepts is there. *)
LEMMA PayloadWithin ==
  ASSUME NEW r \in Abstract!Reader, NEW n \in Nat, Abstract!Payload(r, n)
  PROVE  Abstract!Within(r, n)
  <1>1. Abstract!Payload(Lax(r), n)
    BY LaxPayload
  <1>2. ~Lax(r).strict
    BY LaxReads
  <1>3. Abstract!Within(Lax(r), n)
    BY <1>1, <1>2 DEF Abstract!Payload
  <1> QED BY <1>3, LaxReads

(* The bytes behind a length. *)
LEMMA CountedBytes ==
  ASSUME NEW r \in Abstract!Reader, Abstract!Counted(r).defined
  PROVE  Abstract!Counted(r).val \in Seq(Byte)
  <1> DEFINE s == Abstract!Skip(r, WordLen)
             n == Abstract!NumberAt(r)
  <1>1. Abstract!IsNumber(r) /\ Abstract!Payload(s, n)
    BY DEF Abstract!Counted, Abstract!Undefined
  <1>2. s \in Abstract!Reader /\ n \in Nat
    BY <1>1, ReaderMoves, WordAssumption
  <1>3. Abstract!Counted(r) = Abstract!Some(Abstract!BytesAt(s, n))
    BY <1>1 DEF Abstract!Counted
  <1> HIDE DEF s, n
  <1>4. Abstract!BytesAt(s, n) \in Seq(Byte)
    BY <1>1, <1>2, PayloadWithin, BytesWithin
  <1>5. \A v : Abstract!Some(v).val = v
    BY Zenon DEF Abstract!Some
  <1> QED BY <1>3, <1>4, <1>5

(* What is found of a token without components. *)
LEMMA LeafIs ==
  ASSUME NEW t, NEW res, Abstract!Leaf(t, res).defined
  PROVE  res.defined /\ Abstract!Leaf(t, res).val = Token(t.kind, res.val, <<>>)
  <1>1. res.defined
    BY DEF Abstract!Leaf
  <1>2. Abstract!Leaf(t, res) = Abstract!Some(Abstract!Token(t.kind, res.val, <<>>))
    BY <1>1 DEF Abstract!Leaf
  <1>3. \A v : Abstract!Some(v).val = v
    BY Zenon DEF Abstract!Some
  <1> QED BY <1>1, <1>2, <1>3 DEF Abstract!Token, Token

(* And of one with components. *)
LEMMA NodeIs ==
  ASSUME NEW t, NEW res, Abstract!Node(t, res).defined
  PROVE  res.defined /\ Abstract!Node(t, res).val = Token(t.kind, <<>>, res.val)
  <1>1. res.defined
    BY DEF Abstract!Node
  <1>2. Abstract!Node(t, res) = Abstract!Some(Abstract!Token(t.kind, <<>>, res.val))
    BY <1>1 DEF Abstract!Node
  <1>3. \A v : Abstract!Some(v).val = v
    BY Zenon DEF Abstract!Some
  <1> QED BY <1>1, <1>2, <1>3 DEF Abstract!Token, Token

(* The bytes of a value that is one word. *)
LEMMA WordAtIs ==
  ASSUME NEW r \in Abstract!Reader, Abstract!Within(r, WordLen), NEW t,
         t.kind \in {"Address", "Int", "Uint", "Bool"}, Abstract!WordAt(t, r).defined
  PROVE  LET w == Abstract!BytesAt(r, WordLen)
             v == Abstract!WordAt(t, r).val
         IN  /\ w \in Seq(Byte) /\ Len(w) = WordLen
             /\ t.kind = "Address" => /\ v = SubSeq(w, AddrPad + 1, WordLen)
                                      /\ v \in Seq(Byte) /\ Len(v) = WordLen - AddrPad
                                      /\ r.strict => IsZero(SubSeq(w, 1, AddrPad))
             /\ t.kind = "Bool" => v \in {<<0>>, <<1>>}
             /\ t.kind \in {"Int", "Uint"} => v = w
  <1> DEFINE w == Abstract!BytesAt(r, WordLen)
             v == Abstract!WordAt(t, r).val
  <1>0. \A x : Abstract!Some(x).val = x
    BY Zenon DEF Abstract!Some
  <1>1. w \in Seq(Byte) /\ Len(w) = WordLen
    BY BytesWithin, WordAssumption
  <1>2. CASE t.kind = "Address"
    <2>1. /\ Abstract!WordAt(t, r) = Abstract!Some(SubSeq(w, AddrPad + 1, WordLen))
          /\ r.strict => Abstract!IsZero(SubSeq(w, 1, AddrPad))
      BY <1>2 DEF Abstract!WordAt, Abstract!Undefined
    <2>2. v = SubSeq(w, AddrPad + 1, WordLen)
      BY <1>0, <2>1
    <2>3. v \in Seq(Byte) /\ Len(v) = WordLen - AddrPad
      <3>1. Slice(w, AddrPad, WordLen) \in Seq(Byte)
            /\ Len(Slice(w, AddrPad, WordLen)) = WordLen - AddrPad
        <4> HIDE DEF w
        <4>1. AddrPad \in Nat /\ WordLen \in Nat /\ AddrPad <= WordLen /\ WordLen <= Len(w)
          BY <1>1, WordAssumption
        <4> QED BY <1>1, <4>1, SliceIsBytes
      <3> QED BY <2>2, <3>1 DEF Slice
    <2> QED BY <1>1, <1>2, <2>1, <2>2, <2>3 DEF IsZero, Abstract!IsZero
  <1>3. CASE t.kind = "Bool"
    <2>1. Abstract!WordAt(t, r) = Abstract!Some(<<IF w[WordLen] = 1 THEN 1 ELSE 0>>)
      BY <1>3 DEF Abstract!WordAt, Abstract!Undefined
    <2>2. v = <<IF w[WordLen] = 1 THEN 1 ELSE 0>>
      BY <1>0, <2>1
    <2>3. v \in {<<0>>, <<1>>}
      BY <2>2
    <2> QED BY <1>1, <1>3, <2>3
  <1>4. CASE t.kind \in {"Int", "Uint"}
    <2>1. Abstract!WordAt(t, r) = Abstract!Some(w)
      BY <1>4 DEF Abstract!WordAt
    <2>2. v = w
      BY <1>0, <2>1
    <2> QED BY <1>1, <1>4, <2>2
  <1> QED BY <1>2, <1>3, <1>4

(* The components of a row are values of their types. *)
LEMMA RowSettled ==
  ASSUME NEW t, t.subs \in Seq(ParamTypes), \A u \in Range(t.subs) : FindsValues(u),
         NEW n \in Nat, HasElements(t, n), NEW r \in Abstract!Reader,
         Abstract!Row(Abstract!value, t, n, r).defined,
         NEW vals \in Seq(Tokens), vals = Abstract!Row(Abstract!value, t, n, r).val
  PROVE  /\ vals = [i \in 1..n |-> vals[i]]
         /\ \A i \in 1..n : Settled(Abstract!SubType(t, i), vals[i])
  <1> DEFINE h(i) == Abstract!HeadsLen(Abstract!head_len, t, i - 1)
             e(i) == Abstract!value[Abstract!SubType(t, i)][Abstract!Skip(r, h(i))]
  <1>1. Abstract!Row(Abstract!value, t, n, r)
          = IF \E i \in 1..n : ~e(i).defined THEN Abstract!Undefined
            ELSE Abstract!Some([i \in 1..n |-> e(i).val])
    BY DEF Abstract!Row
  <1>2. \A i \in 1..n : /\ h(i) \in Nat /\ FindsValues(Abstract!SubType(t, i))
                        /\ Abstract!Skip(r, h(i)) \in Abstract!Reader
    BY HeadsLenNat, ReaderMoves
  <1>3. \A v : Abstract!Some(v).val = v
    BY Zenon DEF Abstract!Some
  <1> DEFINE all == [i \in 1..n |-> e(i).val]
  <1>4. (\A i \in 1..n : e(i).defined) /\ vals = all
    <2> HIDE DEF e, all
    <2>1. ~Abstract!Undefined.defined
      BY DEF Abstract!Undefined
    <2>2. \A i \in 1..n : e(i).defined
      BY <1>1, <2>1
    <2>3. Abstract!Row(Abstract!value, t, n, r) = Abstract!Some(all)
      BY <1>1, <2>2 DEF all
    <2> QED BY <1>3, <2>2, <2>3
  <1>5. vals = [i \in 1..n |-> vals[i]] /\ \A i \in 1..n : vals[i] = e(i).val
    <2> HIDE DEF e
    <2> QED BY <1>4
  <1>6. ASSUME NEW i \in 1..n
        PROVE  Settled(Abstract!SubType(t, i), vals[i])
    <2>1. DOMAIN vals = 1..n
      BY <1>5
    <2>2. vals[i] \in Tokens
      BY <2>1
    <2>3. e(i).defined /\ e(i).val \in Tokens /\ vals[i] = e(i).val
      <3> HIDE DEF e
      <3> QED BY <1>4, <1>5, <2>2
    <2> QED BY <1>2, <2>3 DEF FindsValues
  <1> QED BY <1>5, <1>6

(* So is the token made of them. *)
LEMMA NodeSettled ==
  ASSUME NEW t \in ParamTypes, usual[t], t.kind \in {"Array", "FixedArray", "Tuple"},
         \A i \in DOMAIN t.subs : FindsValues(t.subs[i]),
         NEW n \in Nat, t.kind = "Array" => n < U32,
         t.kind # "Array" => n = Abstract!Width(t),
         NEW r \in Abstract!Reader,
         Abstract!Node(t, Abstract!Row(Abstract!value, t, n, r)).defined,
         NEW token \in Tokens,
         token = Abstract!Node(t, Abstract!Row(Abstract!value, t, n, r)).val
  PROVE  Settled(t, token)
  <1> DEFINE row == Abstract!Row(Abstract!value, t, n, r)
  <1>1. t.subs \in Seq(ParamTypes) /\ t.kind \in {"Array", "FixedArray"} => Len(t.subs) = 1
    BY TypeFields
  <1>2. \A u \in Range(t.subs) : FindsValues(u)
    BY DEF Range
  <1>3. HasElements(t, n)
    BY TypeFields DEF HasElements, Abstract!Width
  <1>4. row.defined /\ token = Token(t.kind, <<>>, row.val)
    BY NodeIs
  <1> DEFINE vals == row.val
  <1>5. token.kind = t.kind /\ token.val = <<>> /\ token.subs = vals /\ vals \in Seq(Tokens)
    <2> HIDE DEF vals
    <2>1. token.kind = t.kind /\ token.val = <<>> /\ token.subs = vals
      BY <1>4 DEF Token, vals
    <2> QED BY <2>1, TokenFields
  <1>6. /\ vals = [i \in 1..n |-> vals[i]]
        /\ \A i \in 1..n : Settled(Abstract!SubType(t, i), vals[i])
    <2>1. vals \in Seq(Tokens) /\ t.subs \in Seq(ParamTypes)
          /\ vals = Abstract!Row(Abstract!value, t, n, r).val
      BY <1>5, TypeFields
    <2>2. Abstract!Row(Abstract!value, t, n, r).defined
      BY <1>4
    <2> HIDE DEF row, vals
    <2>3. ASSUME NEW s, s.subs \in Seq(ParamTypes), \A u \in Range(s.subs) : FindsValues(u),
                 HasElements(s, n), Abstract!Row(Abstract!value, s, n, r).defined,
                 NEW vs \in Seq(Tokens), vs = Abstract!Row(Abstract!value, s, n, r).val
          PROVE  /\ vs = [i \in 1..n |-> vs[i]]
                 /\ \A i \in 1..n : Settled(Abstract!SubType(s, i), vs[i])
      BY <2>3, RowSettled
    <2> QED BY <1>2, <1>3, <2>1, <2>2, <2>3
  <1> HIDE DEF row, vals
  <1>7. Len(vals) = n /\ DOMAIN vals = 1..n
    BY <1>5, <1>6
  <1>8. Shaped(t, token)
    <2>1. t.kind = "Tuple" => n = Len(t.subs)
      BY DEF Abstract!Width
    <2>2. t.kind = "FixedArray" => n = t.size /\ (n = 0 => t \notin DynamicTypes)
      BY UsualEquation DEF Abstract!Width, UsualType
    <2> QED BY <1>5, <1>7, <2>1, <2>2, Zenon DEF Shaped
  <1>9. \A i \in 1..n : Settled(TypeOf(t, i), token.subs[i])
    BY <1>5, <1>6 DEF TypeOf, Abstract!SubType
  <1>10. is_value[t][token]
    <2>1. Parts(t, token) = 1..n
      BY <1>5, <1>7, <1>8, IsValueEquation
    <2> QED BY <1>8, <1>9, <2>1, IsValueEquation DEF Settled
  <1>11. as_read[t][token] = token
    <2>1. as_read[t][token]
            = Token(t.kind, token.val,
                    [i \in DOMAIN token.subs |-> as_read[TypeOf(t, i)][token.subs[i]]])
      BY <1>10, AsRead, Zenon
    <2>2. [i \in DOMAIN token.subs |-> as_read[TypeOf(t, i)][token.subs[i]]] = vals
      BY <1>5, <1>6, <1>7, <1>9 DEF Settled
    <2> QED BY <1>4, <1>5, <2>1, <2>2 DEF vals
  <1> QED BY <1>10, <1>11 DEF Settled

(* Values among the heads. *)
LEMMA HeadSettled ==
  ASSUME NEW t \in ParamTypes, usual[t], ~Abstract!behind[t],
         \A i \in DOMAIN t.subs : FindsValues(t.subs[i]),
         NEW r \in Abstract!Reader, Abstract!InHeads(Abstract!value, t, r).defined,
         NEW token \in Tokens, token = Abstract!InHeads(Abstract!value, t, r).val
  PROVE  Settled(t, token)
  <1>1. /\ t.kind \in Kinds /\ t.size \in Nat
        /\ t.kind \notin {"Bytes", "String", "Array"}
    BY TypeFields, BehindEquation, Zenon DEF BehindDef
  <1>0. ~Abstract!Undefined.defined /\ \A v : Abstract!Some(v).val = v
    BY Zenon DEF Abstract!Some, Abstract!Undefined
  <1>2. CASE t.kind \in {"Address", "Int", "Uint", "Bool"}
    <2> DEFINE v == Abstract!WordAt(t, r).val
    <2>1. Abstract!InHeads(Abstract!value, t, r)
            = IF Abstract!Within(r, WordLen)
              THEN Abstract!Leaf(t, Abstract!WordAt(t, r)) ELSE Abstract!Undefined
      BY <1>2 DEF Abstract!InHeads
    <2>2. Abstract!Within(r, WordLen) /\ Abstract!Leaf(t, Abstract!WordAt(t, r)).defined
          /\ token = Abstract!Leaf(t, Abstract!WordAt(t, r)).val
      BY <1>0, <2>1
    <2>3. Abstract!WordAt(t, r).defined /\ token = Token(t.kind, v, <<>>)
      BY <2>2, LeafIs
    <2>4. /\ t.kind = "Address" => Len(v) = WordLen - AddrPad
          /\ t.kind = "Bool" => v \in {<<0>>, <<1>>}
          /\ t.kind \in {"Int", "Uint"} => Len(v) = WordLen
      <3>1. LET w == Abstract!BytesAt(r, WordLen)
                x == Abstract!WordAt(t, r).val
            IN  /\ w \in Seq(Byte) /\ Len(w) = WordLen
                /\ t.kind = "Address" => /\ x = SubSeq(w, AddrPad + 1, WordLen)
                                         /\ x \in Seq(Byte) /\ Len(x) = WordLen - AddrPad
                                         /\ r.strict => IsZero(SubSeq(w, 1, AddrPad))
                /\ t.kind = "Bool" => x \in {<<0>>, <<1>>}
                /\ t.kind \in {"Int", "Uint"} => x = w
        <4>1. Abstract!Within(r, WordLen) /\ Abstract!WordAt(t, r).defined
          BY <2>2, <2>3
        <4> QED BY <1>2, <4>1, WordAtIs
      <3> QED BY <3>1
    <2> HIDE DEF v
    <2>5. token.kind = t.kind /\ token.val = v /\ token.subs = <<>>
      BY <2>3 DEF Token
    <2>6. Shaped(t, token)
      BY <1>2, <2>4, <2>5 DEF Shaped
    <2> QED BY <1>2, <2>3, <2>6, SettledLeaf
  <1>3. CASE t.kind = "FixedBytes"
    <2> DEFINE v == Abstract!BytesAt(r, t.size)
    <2>1. Abstract!InHeads(Abstract!value, t, r)
            = IF Abstract!Payload(r, t.size)
              THEN Abstract!Leaf(t, Abstract!Some(v)) ELSE Abstract!Undefined
      BY <1>3 DEF Abstract!InHeads
    <2>2. Abstract!Payload(r, t.size) /\ Abstract!Leaf(t, Abstract!Some(v)).defined
          /\ token = Abstract!Leaf(t, Abstract!Some(v)).val
      BY <1>0, <2>1
    <2>3. v \in Seq(Byte) /\ Len(v) = t.size
      BY <1>1, <2>2, PayloadWithin, BytesWithin
    <2> HIDE DEF v
    <2>4. token = Token(t.kind, v, <<>>)
      BY <1>0, <2>2, LeafIs
    <2>5. token.kind = t.kind /\ token.val = v /\ token.subs = <<>>
      BY <2>4 DEF Token
    <2>6. Shaped(t, token)
      <3>1. t.size \in 1..WordLen
        BY <1>3, UsualEquation DEF UsualType
      <3>2. Len(token.val) \in 1..t.size /\ t.size <= WordLen
        BY <2>3, <2>5, <3>1
      <3> QED BY <1>3, <2>5, <3>2, Zenon DEF Shaped
    <2> QED BY <1>3, <2>3, <2>4, <2>6, SettledLeaf
  <1>4. CASE t.kind \in {"FixedArray", "Tuple"}
    <2> DEFINE n == Abstract!Width(t)
    <2>1. Abstract!InHeads(Abstract!value, t, r)
            = Abstract!Node(t, Abstract!Row(Abstract!value, t, n, r))
      BY <1>4 DEF Abstract!InHeads
    <2>2. n \in Nat
      BY <1>1, <1>4, TypeFields DEF Abstract!Width
    <2> QED BY <1>4, <2>1, <2>2, NodeSettled
  <1> QED BY <1>1, <1>2, <1>3, <1>4 DEF Kinds

(* Values that an offset leads to. *)
LEMMA TailSettled ==
  ASSUME NEW t \in ParamTypes, usual[t], Abstract!behind[t],
         \A i \in DOMAIN t.subs : FindsValues(t.subs[i]),
         NEW r \in Abstract!Reader, Abstract!InTails(Abstract!value, t, r).defined,
         NEW token \in Tokens, token = Abstract!InTails(Abstract!value, t, r).val
  PROVE  Settled(t, token)
  <1>0. ~Abstract!Undefined.defined /\ \A v : Abstract!Some(v).val = v
    BY Zenon DEF Abstract!Some, Abstract!Undefined
  <1>1. t.kind \in {"Bytes", "String", "Array", "FixedArray", "Tuple"}
    <2>1. \/ t.kind \in {"Bytes", "String", "Array"}
          \/ \E i \in DOMAIN t.subs : Abstract!behind[t.subs[i]]
      BY BehindEquation DEF BehindDef
    <2>2. (\E i \in DOMAIN t.subs : TRUE) => t.subs # <<>>
      OBVIOUS
    <2> QED BY <2>1, <2>2, TypeFields
  <1>2. CASE t.kind = "Bytes"
    <2> DEFINE v == Abstract!Counted(r).val
    <2>1. Abstract!InTails(Abstract!value, t, r) = Abstract!Leaf(t, Abstract!Counted(r))
      BY <1>2 DEF Abstract!InTails
    <2>2. token = Token(t.kind, v, <<>>)
      BY <2>1, LeafIs
    <2> HIDE DEF v
    <2>3. token.kind = t.kind /\ token.val = v /\ token.subs = <<>>
      BY <2>2 DEF Token
    <2>4. Shaped(t, token)
      BY <1>2, <2>3, Zenon DEF Shaped
    <2> QED BY <1>2, <2>2, <2>4, SettledLeaf
  <1>3. CASE t.kind = "String"
    <2> DEFINE c == Abstract!Counted(r)
               v == Abstract!Lossy(c.val)
    <2>1. Abstract!InTails(Abstract!value, t, r) = Abstract!Leaf(t, Abstract!LossyOf(c))
      BY <1>3 DEF Abstract!InTails
    <2>2. Abstract!LossyOf(c).defined /\ token = Token(t.kind, Abstract!LossyOf(c).val, <<>>)
      BY <2>1, LeafIs
    <2>3. c.defined /\ Abstract!LossyOf(c).val = v
      <3>1. c.defined
        BY <2>2 DEF Abstract!LossyOf
      <3>2. Abstract!LossyOf(c) = Abstract!Some(v)
        BY <3>1 DEF Abstract!LossyOf
      <3> QED BY <1>0, <3>1, <3>2
    <2>4. v \in Seq(Byte) /\ \A i \in 1..Len(v) : v[i] \notin InvalidUtf8
      BY <2>3, CountedBytes, LossyIsValid
    <2> HIDE DEF v
    <2>5. token = Token(t.kind, v, <<>>)
      BY <2>2, <2>3
    <2>6. token.kind = t.kind /\ token.val = v /\ token.subs = <<>>
      BY <2>5 DEF Token
    <2>7. Shaped(t, token)
      BY <1>3, <2>4, <2>6, Zenon DEF Shaped
    <2> QED BY <1>3, <2>5, <2>7, SettledLeaf
  <1>4. CASE t.kind = "Array"
    <2> DEFINE n == Abstract!NumberAt(r)
               p == Abstract!Skip(r, WordLen)
               q == Abstract!Rebased(p)
    <2>1. Abstract!InTails(Abstract!value, t, r)
            = Abstract!Node(t, Abstract!Elements(Abstract!value, t, r))
      BY <1>4 DEF Abstract!InTails
    <2>2. Abstract!Elements(Abstract!value, t, r).defined
      BY <2>1, NodeIs
    <2>3. Abstract!IsNumber(r)
      BY <1>0, <2>2 DEF Abstract!Elements
    <2>4. Abstract!Elements(Abstract!value, t, r) = Abstract!Row(Abstract!value, t, n, q)
      BY <2>3 DEF Abstract!Elements
    <2>5. q \in Abstract!Reader
      <3>1. p \in Abstract!Reader
        BY ReaderMoves, WordAssumption
      <3> QED BY <3>1, ReaderMoves
    <2>6. n \in Nat /\ n < U32
      <3> DEFINE w == Abstract!BytesAt(r, WordLen)
      <3>1. w \in Seq(Byte) /\ Len(w) = WordLen
        BY <2>3, BytesWithin, WordAssumption DEF Abstract!IsNumber
      <3>2. n = WordValue(w)
        BY DEF Abstract!NumberAt, Abstract!WordValue, WordValue
      <3> HIDE DEF w
      <3>3. WordValue(w) \in 0..(U32 - 1)
        BY <3>1, WordValueRange, Zenon
      <3> HIDE DEF n
      <3> QED BY <3>2, <3>3, RadixFacts
    <2> HIDE DEF n, q
    <2>7. /\ Abstract!Node(t, Abstract!Row(Abstract!value, t, n, q)).defined
          /\ token = Abstract!Node(t, Abstract!Row(Abstract!value, t, n, q)).val
      BY <2>1, <2>4
    <2> QED BY <1>4, <2>5, <2>6, <2>7, NodeSettled
  <1>5. CASE t.kind \in {"FixedArray", "Tuple"}
    <2> DEFINE n == Abstract!Width(t)
               q == Abstract!Rebased(r)
    <2>1. /\ Abstract!Node(t, Abstract!Row(Abstract!value, t, n, q)).defined
          /\ token = Abstract!Node(t, Abstract!Row(Abstract!value, t, n, q)).val
      BY <1>0, <1>5 DEF Abstract!InTails
    <2>2. n \in Nat
      BY <1>5, TypeFields DEF Abstract!Width
    <2>3. q \in Abstract!Reader
      BY ReaderMoves
    <2> QED BY <1>5, <2>1, <2>2, <2>3, NodeSettled
  <1> QED BY <1>1, <1>2, <1>3, <1>4, <1>5

(* The decoder finds values of every type, and such as it reads back.      *)
LEMMA AllFindValues == \A t \in ParamTypes : usual[t] => FindsValues(t)
  <1> DEFINE S == {t \in ParamTypes : usual[t] => FindsValues(t)}
  <1>1. ASSUME NEW t \in ParamTypes, \A i \in DOMAIN t.subs : t.subs[i] \in S
        PROVE  t \in S
    <2> SUFFICES ASSUME usual[t] PROVE FindsValues(t)
      OBVIOUS
    <2>1. \A i \in DOMAIN t.subs : FindsValues(t.subs[i])
      BY <1>1, UsualEquation
    <2> SUFFICES ASSUME NEW r \in Abstract!Reader, Abstract!value[t][r].defined,
                        Abstract!value[t][r].val \in Tokens
                 PROVE  Settled(t, Abstract!value[t][r].val)
      BY DEF FindsValues
    <2> DEFINE token == Abstract!value[t][r].val
    <2>2. Abstract!value[t][r] = Abstract!ValueAt(Abstract!value, t, r)
      BY ValueEquation
    <2>3. CASE ~Abstract!behind[t]
      <3>1. Abstract!value[t][r] = Abstract!InHeads(Abstract!value, t, r)
        BY <2>2, <2>3 DEF Abstract!ValueAt
      <3> QED BY <2>1, <2>3, <3>1, HeadSettled
    <2>4. CASE Abstract!behind[t]
      <3>1. Abstract!value[t][r]
              = IF Abstract!IsNumber(r)
                THEN Abstract!InTails(Abstract!value, t, Abstract!Target(r))
                ELSE Abstract!Undefined
        BY <2>2, <2>4 DEF Abstract!ValueAt
      <3>2. Abstract!IsNumber(r)
        BY <3>1 DEF Abstract!Undefined
      <3>3. Abstract!Target(r) \in Abstract!Reader
        BY <3>2, ReaderMoves
      <3> QED BY <2>1, <2>4, <3>1, <3>2, <3>3, TailSettled
    <2> QED BY <2>3, <2>4
  <1> HIDE DEF S
  <1>2. ParamTypes \subseteq S
    BY <1>1, TypeInduction
  <1> QED BY <1>2 DEF S

(* So are the tokens that decode and decode_validate return. *)
LEMMA DecodedSettled ==
  ASSUME NEW ts \in Seq(ParamTypes), \A i \in DOMAIN ts : usual[ts[i]],
         NEW d \in Seq(Byte), NEW strict \in BOOLEAN,
         Abstract!Decoded(ts, d, strict).defined,
         NEW tokens \in Seq(Tokens), tokens = Abstract!Decoded(ts, d, strict).val
  PROVE  /\ Len(tokens) = Len(ts)
         /\ \A i \in DOMAIN ts : Settled(ts[i], tokens[i])
  <1> DEFINE args == Abstract!TupleT(ts)
             n    == Len(ts)
             r    == At(d, strict, 0, 0)
             empty == d = <<>> /\ \E i \in DOMAIN ts :
                                    ~Abstract!is_empty_bytes_valid_encoding(ts[i])
             row  == Abstract!Row(Abstract!value, args, n, r)
  <1>1. Abstract!Decoded(ts, d, strict)
             = IF \/ empty
                  \/ strict /\ Abstract!HeadsLen(Abstract!head_len, args, n) # Len(d)
               THEN Abstract!Undefined ELSE row
    BY DEF Abstract!Decoded, At
  <1>2. args.kind = "Tuple" /\ args.subs = ts /\ n \in Nat /\ DOMAIN ts = 1..n
    BY LenProperties DEF Abstract!TupleT, Abstract!ParamType
  <1>3. r \in Abstract!Reader
    <2>1. strict = strict /\ FALSE \in BOOLEAN
      OBVIOUS
    <2> QED BY AtStart
  <1>4. \A u \in Range(args.subs) : FindsValues(u)
    BY <1>2, AllFindValues DEF Range
  <1>5. HasElements(args, n) /\ args.subs \in Seq(ParamTypes)
    BY <1>2 DEF HasElements
  <1>6. row.defined /\ tokens = row.val
    <2> HIDE DEF row, empty
    <2>1. ~Abstract!Undefined.defined
      BY DEF Abstract!Undefined
    <2> QED BY <1>1, <2>1
  <1>7. \A i \in 1..n : Abstract!SubType(args, i) = ts[i]
    BY <1>2 DEF Abstract!SubType
  <1> HIDE DEF args, n, r, empty
  <1>8. /\ tokens = [i \in 1..n |-> tokens[i]]
        /\ \A i \in 1..n : Settled(Abstract!SubType(args, i), tokens[i])
    <2>1. n \in Nat
      BY <1>2
    <2> QED BY <1>3, <1>4, <1>5, <1>6, <2>1, RowSettled
  <1>9. Len(tokens) = n
    BY <1>2, <1>8
  <1> QED BY <1>2, <1>7, <1>8, <1>9 DEF n

-----------------------------------------------------------------------------
(* What decode_validate accepts is an encoding. *)

(* The right side of has_bool's definition. *)
HasBoolDef(f, t) == t.kind = "Bool" \/ \E i \in DOMAIN t.subs : f[t.subs[i]]

HasBools == INSTANCE Recursion WITH
  Dom <- ParamTypes, measure <- nodes, Def <- HasBoolDef

(* has_bool obeys its definition. *)
LEMMA HasBoolEquation ==
  ASSUME NEW t \in ParamTypes, ~has_bool[t]
  PROVE  t.kind # "Bool" /\ \A i \in DOMAIN t.subs : ~has_bool[t.subs[i]]
  <1>1. HasBools!WellFounded
    <2>1. ASSUME NEW f, NEW g, NEW s \in ParamTypes,
                 \A u \in ParamTypes : nodes[u] < nodes[s] => f[u] = g[u]
          PROVE  HasBoolDef(f, s) = HasBoolDef(g, s)
      <3>1. \A i \in DOMAIN s.subs : f[s.subs[i]] = g[s.subs[i]]
        BY <2>1, Components
      <3> QED
        BY <3>1 DEF HasBoolDef
    <2> QED
      BY <2>1, FiniteTypesAssumption DEF HasBools!WellFounded
  <1>2. has_bool = CHOOSE f : f = [s \in ParamTypes |-> HasBoolDef(f, s)]
    BY DEF has_bool, HasBoolDef
  <1>3. has_bool = [s \in ParamTypes |-> HasBoolDef(has_bool, s)]
    BY <1>1, <1>2, NaturalInduction, HasBools!Defined DEF HasBools!Inductive
  <1>4. has_bool[t] = HasBoolDef(has_bool, t)
    BY <1>3
  <1> QED
    BY <1>4 DEF HasBoolDef

(* The types of which decode_validate accepts one encoding of each value.  *)
Plain(t) == usual[t] /\ t \notin DynamicTypes /\ ~has_bool[t]

(* Their components are such types. *)
LEMMA PlainParts ==
  ASSUME NEW t \in ParamTypes, Plain(t)
  PROVE  /\ t.kind \in {"Address", "Int", "Uint", "FixedBytes", "FixedArray", "Tuple"}
         /\ \A i \in DOMAIN t.subs : Plain(t.subs[i])
  <1>1. /\ t.kind \in Kinds /\ t.subs \in Seq(ParamTypes)
        /\ t.subs # <<>> => t.kind \in {"Array", "FixedArray", "Tuple"}
    BY TypeFields
  <1>2. /\ usual[t] /\ ~is_dynamic[t] /\ ~has_bool[t]
    BY DEF Plain, DynamicTypes
  <1>3. is_dynamic[t] = \/ t.kind \in {"Bytes", "String", "Array"}
                        \/ /\ t.kind \in {"FixedArray", "Tuple"}
                           /\ \E i \in DOMAIN t.subs : is_dynamic[t.subs[i]]
    BY IsDynamic
  <1>4. t.kind \in {"Address", "Int", "Uint", "FixedBytes", "FixedArray", "Tuple"}
    BY <1>1, <1>2, <1>3, HasBoolEquation DEF Kinds
  <1>5. ASSUME NEW i \in DOMAIN t.subs
        PROVE  Plain(t.subs[i])
    <2>1. t.kind \in {"FixedArray", "Tuple"}
      <3>1. t.subs # <<>>
        BY <1>5
      <3> QED BY <1>1, <1>4, <3>1
    <2>2. ~is_dynamic[t.subs[i]]
      BY <1>2, <1>3, <2>1
    <2>3. usual[t.subs[i]] /\ ~has_bool[t.subs[i]]
      BY <1>2, UsualEquation, HasBoolEquation
    <2> QED BY <2>2, <2>3 DEF Plain, DynamicTypes
  <1> QED BY <1>4, <1>5

(* The bytes of e are those of d from p on, as far as there are any.       *)
Stands(d, p, e) ==
  \A j \in 1..Len(e) : p + j \in 1..Len(d) /\ d[p + j] = e[j]

(* Bytes that a reader has read stand there. *)
LEMMA ReadStands ==
  ASSUME NEW r \in Abstract!Reader, NEW n \in Nat, Abstract!Within(r, n)
  PROVE  Stands(r.data, r.at, Abstract!BytesAt(r, n))
  <1> DEFINE x == Abstract!BytesAt(r, n)
  <1>1. r.at \in Nat /\ r.data \in Seq(Byte) /\ r.at + n <= Len(r.data) /\ Len(r.data) \in Nat
    BY LenProperties DEF Abstract!Reader, Abstract!Byte, Byte, Abstract!Within
  <1>2. x \in Seq(Byte) /\ Len(x) = n
    BY BytesWithin
  <1>3. x = SubSeq(r.data, r.at + 1, r.at + n)
    BY DEF Abstract!BytesAt
  <1> HIDE DEF x
  <1>4. ASSUME NEW j \in 1..n
        PROVE  r.at + j \in 1..Len(r.data) /\ x[j] = r.data[r.at + j]
    <2>1. r.at + j \in 1..Len(r.data)
      BY <1>1
    <2>2. \A i \in (r.at + 1)..(r.at + n) : r.data[i] \in Byte
      <3> TAKE i \in (r.at + 1)..(r.at + n)
      <3>1. i \in 1..Len(r.data)
        BY <1>1
      <3> QED BY <1>1, <3>1, ElementOfSeq
    <2>3. \A i \in 1..((r.at + n) - (r.at + 1) + 1) :
            SubSeq(r.data, r.at + 1, r.at + n)[i] = r.data[(r.at + 1) + i - 1]
      <3>1. r.at + 1 \in Int /\ r.at + n \in Int
        BY <1>1
      <3> QED BY <2>2, <3>1, SubSeqProperties
    <2>4. j \in 1..((r.at + n) - (r.at + 1) + 1) /\ (r.at + 1) + j - 1 = r.at + j
      BY <1>1
    <2> QED BY <1>3, <2>1, <2>3, <2>4
  <1> QED BY <1>2, <1>4 DEF Stands, x

(* The bytes between two positions, when all the bytes around them stand.  *)
LEMMA SliceByte ==
  ASSUME NEW w \in Seq(Byte), NEW from \in Nat, NEW to \in Nat, from <= to, to <= Len(w)
  PROVE  /\ SubSeq(w, from + 1, to) \in Seq(Byte) /\ Len(SubSeq(w, from + 1, to)) = to - from
         /\ \A i \in 1..(to - from) : SubSeq(w, from + 1, to)[i] = w[from + i]
  <1>1. Len(w) \in Nat
    BY LenProperties
  <1>2. \A i \in (from + 1)..to : w[i] \in Byte
    <2> TAKE i \in (from + 1)..to
    <2>1. i \in 1..Len(w)
      BY <1>1
    <2> QED BY <2>1, ElementOfSeq
  <1>3. /\ SubSeq(w, from + 1, to) \in Seq(Byte)
        /\ Len(SubSeq(w, from + 1, to)) = IF from + 1 <= to THEN to - (from + 1) + 1 ELSE 0
        /\ \A i \in 1..(to - (from + 1) + 1) :
             SubSeq(w, from + 1, to)[i] = w[(from + 1) + i - 1]
    <2>1. from + 1 \in Int /\ to \in Int
      OBVIOUS
    <2> QED BY <1>2, <2>1, SubSeqProperties
  <1>4. to - (from + 1) + 1 = to - from /\ (from + 1 > to => to - from = 0)
    OBVIOUS
  <1>5. \A i \in 1..(to - from) : (from + 1) + i - 1 = from + i
    OBVIOUS
  <1> QED BY <1>3, <1>4, <1>5

(* The word of an address or an integer that a strict reader accepts. *)
LEMMA ExactWord ==
  ASSUME NEW t \in ParamTypes, t.kind \in {"Address", "Int", "Uint"},
         NEW r \in Abstract!Reader, r.strict,
         Abstract!InHeads(Abstract!value, t, r).defined,
         NEW token \in Tokens, token = Abstract!InHeads(Abstract!value, t, r).val
  PROVE  Stands(r.data, r.at, enc[t][token])
  <1> DEFINE w == Abstract!BytesAt(r, WordLen)
             v == Abstract!WordAt(t, r).val
             e == enc[t][token]
  <1>0. ~Abstract!Undefined.defined
    BY Zenon DEF Abstract!Undefined
  <1>1. Abstract!InHeads(Abstract!value, t, r)
          = IF Abstract!Within(r, WordLen)
            THEN Abstract!Leaf(t, Abstract!WordAt(t, r)) ELSE Abstract!Undefined
    BY DEF Abstract!InHeads
  <1>2. Abstract!Within(r, WordLen) /\ Abstract!Leaf(t, Abstract!WordAt(t, r)).defined
        /\ token = Abstract!Leaf(t, Abstract!WordAt(t, r)).val
    BY <1>0, <1>1
  <1>3. Abstract!WordAt(t, r).defined /\ token = Token(t.kind, v, <<>>)
    BY <1>2, LeafIs
  <1>4. /\ w \in Seq(Byte) /\ Len(w) = WordLen
        /\ t.kind = "Address" => /\ v = SubSeq(w, AddrPad + 1, WordLen)
                                 /\ IsZero(SubSeq(w, 1, AddrPad))
        /\ t.kind \in {"Int", "Uint"} => v = w
    <2>1. LET ww == Abstract!BytesAt(r, WordLen)
              x == Abstract!WordAt(t, r).val
          IN  /\ ww \in Seq(Byte) /\ Len(ww) = WordLen
              /\ t.kind = "Address" => /\ x = SubSeq(ww, AddrPad + 1, WordLen)
                                       /\ x \in Seq(Byte) /\ Len(x) = WordLen - AddrPad
                                       /\ r.strict => IsZero(SubSeq(ww, 1, AddrPad))
              /\ t.kind = "Bool" => x \in {<<0>>, <<1>>}
              /\ t.kind \in {"Int", "Uint"} => x = ww
      <3>1. t.kind \in {"Address", "Int", "Uint", "Bool"}
        OBVIOUS
      <3> QED BY <1>2, <1>3, <3>1, WordAtIs
    <2> QED BY <2>1
  <1>5. Stands(r.data, r.at, w)
    BY <1>2, ReadStands, WordAssumption
  <1> HIDE DEF w, v
  <1>6. token.val = v
    BY <1>3 DEF Token
  <1>7. e = EncBody(enc, t, token)
    BY EncEquation, Zenon DEF EncDef
  <1> HIDE DEF e
  <1>8. CASE t.kind \in {"Int", "Uint"}
    <2>1. e = token.val
      BY <1>7, <1>8 DEF EncBody
    <2> QED BY <1>4, <1>5, <1>6, <1>8, <2>1 DEF e
  <1>9. CASE t.kind = "Address"
    <2>1. e = Zeros(AddrPad) \o token.val
      BY <1>7, <1>9, Zenon DEF EncBody
    <2>2. /\ AddrPad \in Nat /\ WordLen \in Nat /\ AddrPad <= WordLen
      BY WordAssumption
    <2>3. /\ Zeros(AddrPad) \in Seq(Byte) /\ Len(Zeros(AddrPad)) = AddrPad
          /\ \A i \in 1..AddrPad : Zeros(AddrPad)[i] = 0
      BY <2>2, ZerosFacts
    <2>4. /\ v \in Seq(Byte) /\ Len(v) = WordLen - AddrPad
          /\ \A i \in 1..(WordLen - AddrPad) : v[i] = w[AddrPad + i]
      <3>1. AddrPad <= WordLen /\ WordLen <= Len(w) /\ w \in Seq(Byte)
        BY <1>4, <2>2
      <3>2. v = SubSeq(w, AddrPad + 1, WordLen)
        BY <1>4, <1>9
      <3> QED BY <2>2, <3>1, <3>2, SliceByte
    <2>5. \A i \in 1..AddrPad : w[i] = 0
      <3>1. /\ SubSeq(w, 0 + 1, AddrPad) \in Seq(Byte) /\ Len(SubSeq(w, 0 + 1, AddrPad)) = AddrPad - 0
            /\ \A i \in 1..(AddrPad - 0) : SubSeq(w, 0 + 1, AddrPad)[i] = w[0 + i]
        <4>1. 0 \in Nat /\ 0 <= AddrPad /\ AddrPad <= Len(w)
          BY <1>4, <2>2
        <4> QED BY <1>4, <2>2, <4>1, SliceByte
      <3>2. 0 + 1 = 1 /\ AddrPad - 0 = AddrPad /\ \A i \in 1..AddrPad : 0 + i = i
        BY <2>2
      <3>3. /\ SubSeq(w, 1, AddrPad) \in Seq(Byte) /\ Len(SubSeq(w, 1, AddrPad)) = AddrPad
            /\ \A i \in 1..AddrPad : SubSeq(w, 1, AddrPad)[i] = w[i]
        BY <3>1, <3>2
      <3>4. DOMAIN SubSeq(w, 1, AddrPad) = 1..AddrPad
        BY <3>3, LenProperties
      <3>5. IsZero(SubSeq(w, 1, AddrPad))
        BY <1>4, <1>9
      <3> QED BY <3>3, <3>4, <3>5 DEF IsZero
    <2> DEFINE z == Zeros(AddrPad)
               y == z \o v
    <2> HIDE DEF z
    <2>6. /\ y \in Seq(Byte) /\ Len(y) = Len(z) + Len(v)
          /\ \A i \in 1..(Len(z) + Len(v)) :
               y[i] = IF i <= Len(z) THEN z[i] ELSE v[i - Len(z)]
      BY <2>3, <2>4, ConcatProperties DEF z
    <2>7. e = y
      BY <1>6, <2>1 DEF z
    <2> HIDE DEF y
    <2>8. /\ Len(z) = AddrPad /\ Len(v) = WordLen - AddrPad /\ Len(y) = WordLen
          /\ \A i \in 1..AddrPad : z[i] = 0
      BY <2>2, <2>3, <2>4, <2>6 DEF z
    <2>9. ASSUME NEW i \in 1..WordLen
          PROVE  y[i] = w[i]
      <3>1. CASE i <= AddrPad
        BY <2>2, <2>5, <2>6, <2>8, <3>1
      <3>2. CASE ~(i <= AddrPad)
        <4>1. i - AddrPad \in 1..(WordLen - AddrPad) /\ AddrPad + (i - AddrPad) = i
          BY <2>2, <3>2
        <4>2. v[i - AddrPad] = w[i]
          BY <2>4, <4>1
        <4> QED BY <2>2, <2>6, <2>8, <3>2, <4>2
      <3> QED BY <3>1, <3>2
    <2>10. y = w
      BY <1>4, <2>6, <2>8, <2>9, SeqEqual
    <2> QED BY <1>5, <2>7, <2>10 DEF e
  <1> QED BY <1>8, <1>9

(* The word of a bytesN that a strict reader accepts. *)
LEMMA ExactFixedBytes ==
  ASSUME NEW t \in ParamTypes, t.kind = "FixedBytes", usual[t],
         NEW r \in Abstract!Reader, r.strict,
         Abstract!InHeads(Abstract!value, t, r).defined,
         NEW token \in Tokens, token = Abstract!InHeads(Abstract!value, t, r).val
  PROVE  Stands(r.data, r.at, enc[t][token])
  <1> DEFINE n == t.size
             v == Abstract!BytesAt(r, n)
             q == Abstract!Skip(r, n)
             e == enc[t][token]
  <1>0. ~Abstract!Undefined.defined /\ \A x : Abstract!Some(x).val = x
    BY Zenon DEF Abstract!Some, Abstract!Undefined
  <1>1. Abstract!InHeads(Abstract!value, t, r)
          = IF Abstract!Payload(r, t.size)
            THEN Abstract!Leaf(t, Abstract!Some(v)) ELSE Abstract!Undefined
    BY DEF Abstract!InHeads
  <1>2. Abstract!Payload(r, n) /\ Abstract!Leaf(t, Abstract!Some(v)).defined
        /\ token = Abstract!Leaf(t, Abstract!Some(v)).val
    BY <1>0, <1>1
  <1>3. token = Token(t.kind, v, <<>>)
    BY <1>0, <1>2, LeafIs
  <1>4. n \in 1..WordLen /\ WordLen \in Nat /\ n \in Nat
    <2>1. UsualType(t)
      BY UsualEquation
    <2> QED BY <2>1, WordAssumption DEF UsualType
  <1>5. WordsFor(n) = 1 /\ 1 * WordLen = WordLen
    <2> HIDE DEF n
    <2>1. WordsFor(n) = 1
      BY <1>4, WordsForFacts
    <2> QED BY <1>4, <2>1
  <1>6. Abstract!Within(r, WordLen) /\ IsZero(Abstract!BytesAt(q, WordLen - n))
    <2>1. Abstract!WordsFor(n) = WordsFor(n)
      BY DEF Abstract!WordsFor, WordsFor
    <2>2. Abstract!Within(r, WordsFor(n) * WordLen)
          /\ Abstract!IsZero(Abstract!BytesAt(q, WordsFor(n) * WordLen - n))
      BY <1>2, <2>1 DEF Abstract!Payload
    <2>3. WordsFor(n) * WordLen = WordLen
      BY <1>5
    <2> QED BY <2>2, <2>3 DEF IsZero, Abstract!IsZero
  <1>7. r.at \in Nat /\ r.data \in Seq(Byte) /\ Len(r.data) \in Nat
        /\ r.at + WordLen <= Len(r.data)
    BY <1>6, LenProperties DEF Abstract!Reader, Abstract!Byte, Byte, Abstract!Within
  <1>8. q \in Abstract!Reader /\ q.data = r.data /\ q.at = r.at + n
    <2>1. q \in Abstract!Reader
      <3>1. \A k \in Nat : Abstract!Skip(r, k) \in Abstract!Reader
        BY ReaderMoves
      <3> QED BY <1>4, <3>1
    <2> QED BY <2>1, Zenon DEF Abstract!Skip, Abstract!Reader
  <1>9. v \in Seq(Byte) /\ Len(v) = n /\ Stands(r.data, r.at, v)
    <2>1. Abstract!Within(r, n) /\ n \in Nat
      BY <1>4, <1>7 DEF Abstract!Within
    <2> QED BY <2>1, BytesWithin, ReadStands
  <1> DEFINE x == Abstract!BytesAt(q, WordLen - n)
  <1>10. x \in Seq(Byte) /\ Len(x) = WordLen - n /\ Stands(q.data, q.at, x)
    <2> HIDE DEF q
    <2>1. Abstract!Within(q, WordLen - n) /\ WordLen - n \in Nat
      BY <1>4, <1>7, <1>8 DEF Abstract!Within
    <2> QED BY <1>8, <2>1, BytesWithin, ReadStands
  <1> HIDE DEF n, v, x, q
  <1>11. \A i \in 1..(WordLen - n) : x[i] = 0
    <2>1. DOMAIN x = 1..(WordLen - n)
      BY <1>10, LenProperties
    <2> QED BY <1>6, <2>1, Zenon DEF IsZero, x
  <1>12. e = v \o Zeros(WordLen - n)
    <2>1. e = EncBody(enc, t, token)
      BY EncEquation, Zenon DEF EncDef
    <2>2. e = token.val \o Zeros(WordsFor(t.size) * WordLen - Len(token.val))
      BY <2>1, Zenon DEF EncBody
    <2>3. token.val = v
      BY <1>3 DEF Token
    <2> QED BY <1>5, <1>9, <2>2, <2>3 DEF n
  <1>13. /\ Zeros(WordLen - n) \in Seq(Byte) /\ Len(Zeros(WordLen - n)) = WordLen - n
         /\ \A i \in 1..(WordLen - n) : Zeros(WordLen - n)[i] = 0
    <2>1. WordLen - n \in Nat
      BY <1>4
    <2> QED BY <2>1, ZerosFacts
  <1> HIDE DEF e
  <1> DEFINE z == Zeros(WordLen - n)
  <1>14. /\ Len(e) = Len(v) + Len(z)
         /\ \A i \in 1..(Len(v) + Len(z)) :
              e[i] = IF i <= Len(v) THEN v[i] ELSE z[i - Len(v)]
    <2>1. z \in Seq(Byte) /\ v \in Seq(Byte) /\ e = v \o z
      BY <1>9, <1>12, <1>13
    <2> HIDE DEF z
    <2> QED BY <2>1, ConcatProperties
  <1>15. Len(z) = WordLen - n /\ \A i \in 1..(WordLen - n) : z[i] = 0
    BY <1>13
  <1> HIDE DEF z
  <1>16. Len(e) = WordLen
    BY <1>4, <1>9, <1>14, <1>15
  <1>17. ASSUME NEW j \in 1..WordLen
         PROVE  r.at + j \in 1..Len(r.data) /\ r.data[r.at + j] = e[j]
    <2>0. Len(v) + Len(z) = WordLen
      BY <1>14, <1>16
    <2>1. r.at + j \in 1..Len(r.data) /\ j \in 1..(Len(v) + Len(z))
      BY <1>4, <1>7, <2>0
    <2>2. CASE j <= n
      <3>1. j \in 1..n
        BY <1>4, <2>2
      <3>2. r.data[r.at + j] = v[j]
        BY <1>9, <3>1 DEF Stands
      <3> QED BY <1>9, <1>14, <2>1, <2>2, <3>2
    <2>3. CASE ~(j <= n)
      <3>1. j - n \in 1..(WordLen - n) /\ (r.at + n) + (j - n) = r.at + j
        <4>1. r.at \in Nat /\ n \in Nat /\ WordLen \in Nat /\ j \in 1..WordLen
          BY <1>4, <1>7
        <4>2. j - n \in 1..(WordLen - n)
          BY <2>3, <4>1
        <4> DEFINE a == r.at
        <4>3. a \in Nat
          BY <4>1
        <4> HIDE DEF a
        <4>4. (a + n) + (j - n) = a + j
          BY <4>1, <4>3
        <4> QED BY <4>2, <4>4 DEF a
      <3>2. r.data[r.at + j] = x[j - n]
        BY <1>8, <1>10, <3>1 DEF Stands
      <3>3. x[j - n] = 0 /\ z[j - n] = 0
        BY <1>11, <1>15, <3>1
      <3> QED BY <1>9, <1>14, <2>1, <2>3, <3>2, <3>3
    <2> QED BY <2>1, <2>2, <2>3
  <1>18. Stands(r.data, r.at, e)
    BY <1>16, <1>17 DEF Stands
  <1> QED BY <1>18 DEF e

(* Static values in a row stand where each of them does. *)
LEMMA RowStands ==
  ASSUME NEW t, NEW n, NEW toks, NEW encs, NEW dyns, Encodes(t, n, toks, encs, dyns),
         \A i \in 1..n : ~dyns[i], NEW d \in Seq(Byte), NEW p \in Nat,
         \A i \in 1..n :
           Stands(d, p + Abstract!HeadsLen(Abstract!head_len, t, i - 1), encs[i])
  PROVE  Stands(d, p, Layout(encs, dyns))
  <1> DEFINE sizes == SizesOf(encs, dyns)
             tails == TailsOf(encs, dyns)
             heads == HeadsOf(encs, dyns)
             F == FlattenSeq(heads)
  <1>1. n \in Nat /\ encs \in Seq(Seq(Byte)) /\ Len(encs) = n
    BY DEF Encodes
  <1>2. /\ tails \in Seq(Seq(Byte)) /\ Len(tails) = n
        /\ heads \in Seq(Seq(Byte)) /\ Len(heads) = n
        /\ \A i \in 1..n : /\ tails[i] = <<>> /\ heads[i] = encs[i]
                           /\ Len(heads[i]) = Len(sizes[i])
        /\ Layout(encs, dyns) = F \o FlattenSeq(tails)
    <2>1. /\ tails \in Seq(Seq(Byte)) /\ Len(tails) = n
          /\ heads \in Seq(Seq(Byte)) /\ Len(heads) = n
          /\ Layout(encs, dyns) = F \o FlattenSeq(tails)
      BY <1>1, LayoutParts
    <2>2. ASSUME NEW i \in 1..n
          PROVE  tails[i] = <<>> /\ heads[i] = encs[i] /\ Len(heads[i]) = Len(sizes[i])
      <3>1. ~dyns[i] /\ i \in 1..Len(encs)
        BY <1>1
      <3>2. tails[i] = <<>> /\ heads[i] = encs[i]
        BY <1>1, <3>1, LayoutParts
      <3>3. Len(heads[i]) = Len(sizes[i])
        BY <1>1, <3>1, LayoutParts
      <3> QED BY <3>2, <3>3
    <2> HIDE DEF tails, heads, sizes
    <2> QED BY <2>1, <2>2
  <1>3. \A k \in 0..n : LenTo(sizes, k) = Abstract!HeadsLen(Abstract!head_len, t, k)
    BY StaticSizes
  <1> HIDE DEF sizes, tails, heads
  <1>4. Layout(encs, dyns) = F
    <2>1. FlattenSeq(tails) = <<>>
      BY <1>2, NoLen
    <2>2. F \in Seq(Byte)
      BY <1>2, FlattenFacts
    <2> QED BY <1>2, <2>1, <2>2, ConcatEmptySeq
  <1>5. \A j \in 1..Len(F) : \E i \in 1..n : \E m \in 1..Len(heads[i]) :
          j = LenTo(heads, i - 1) + m /\ F[j] = heads[i][m]
    <2>1. heads \in Seq(Seq(Byte)) /\ Len(heads) = n
      BY <1>2
    <2>2. \A j \in 1..Len(F) : \E i \in 1..Len(heads) : \E m \in 1..Len(heads[i]) :
            j = LenTo(heads, i - 1) + m /\ F[j] = heads[i][m]
      BY <2>1, FlattenBytes, Zenon
    <2> HIDE DEF F
    <2> QED BY <2>1, <2>2
  <1>6. ASSUME NEW j \in 1..Len(F)
        PROVE  p + j \in 1..Len(d) /\ d[p + j] = F[j]
    <2>1. PICK i \in 1..n : \E m \in 1..Len(heads[i]) :
            j = LenTo(heads, i - 1) + m /\ F[j] = heads[i][m]
      BY <1>5
    <2>2. PICK m \in 1..Len(heads[i]) : j = LenTo(heads, i - 1) + m /\ F[j] = heads[i][m]
      BY <2>1
    <2> DEFINE h == Abstract!HeadsLen(Abstract!head_len, t, i - 1)
    <2>3. LenTo(heads, i - 1) = h
      <3>1. i - 1 \in 0..n /\ \A k \in 1..(i - 1) : k \in 1..n
        BY <1>1
      <3>2. LenTo(heads, i - 1) = LenTo(sizes, i - 1)
        BY <1>2, <3>1, SameLenTo
      <3> QED BY <1>3, <3>1, <3>2
    <2>4. Stands(d, p + h, encs[i])
      OBVIOUS
    <2>5. LenTo(heads, i - 1) \in Nat
      BY <1>1, <1>2, LenToPart
    <2> HIDE DEF h
    <2>6. heads[i] = encs[i]
      BY <1>2
    <2>7. (p + h) + m \in 1..Len(d) /\ d[(p + h) + m] = encs[i][m]
      BY <2>4, <2>6 DEF Stands
    <2>8. (p + h) + m = p + j
      <3>1. h \in Nat /\ j = h + m /\ m \in Int
        BY <2>2, <2>3, <2>5
      <3> QED BY <3>1
    <2> QED BY <2>2, <2>6, <2>7, <2>8
  <1> QED BY <1>4, <1>6 DEF Stands

(* A strict reader finds a value only before its encoding. *)
FindsEncodings(t) ==
  \A r \in Abstract!Reader :
    r.strict /\ Abstract!value[t][r].defined /\ Abstract!value[t][r].val \in Tokens =>
      Stands(r.data, r.at, enc[t][Abstract!value[t][r].val])

(* The components of a row stand one after the other. *)
LEMMA ElementsStand ==
  ASSUME NEW t, t.subs \in Seq(ParamTypes), \A u \in Range(t.subs) : FindsEncodings(u),
         NEW n \in Nat, HasElements(t, n), NEW r \in Abstract!Reader, r.strict,
         Abstract!Row(Abstract!value, t, n, r).defined,
         NEW vals \in Seq(Tokens), vals = Abstract!Row(Abstract!value, t, n, r).val
  PROVE  \A i \in 1..n :
           Stands(r.data, r.at + Abstract!HeadsLen(Abstract!head_len, t, i - 1),
                  enc[Abstract!SubType(t, i)][vals[i]])
  <1> DEFINE h(i) == Abstract!HeadsLen(Abstract!head_len, t, i - 1)
             e(i) == Abstract!value[Abstract!SubType(t, i)][Abstract!Skip(r, h(i))]
             all == [i \in 1..n |-> e(i).val]
  <1>1. Abstract!Row(Abstract!value, t, n, r)
          = IF \E i \in 1..n : ~e(i).defined THEN Abstract!Undefined
            ELSE Abstract!Some(all)
    BY DEF Abstract!Row
  <1>2. (\A i \in 1..n : e(i).defined) /\ vals = all
    <2> HIDE DEF e, all
    <2>1. ~Abstract!Undefined.defined /\ \A v : Abstract!Some(v).val = v
      BY Zenon DEF Abstract!Undefined, Abstract!Some
    <2>2. \A i \in 1..n : e(i).defined
      BY <1>1, <2>1
    <2>3. Abstract!Row(Abstract!value, t, n, r) = Abstract!Some(all)
      BY <1>1, <2>2
    <2> QED BY <2>1, <2>2, <2>3
  <1>3. DOMAIN vals = 1..n /\ \A i \in 1..n : vals[i] = e(i).val
    <2> HIDE DEF e
    <2> QED BY <1>2
  <1>4. ASSUME NEW i \in 1..n
        PROVE  Stands(r.data, r.at + h(i), enc[Abstract!SubType(t, i)][vals[i]])
    <2> DEFINE u == Abstract!SubType(t, i)
               q == Abstract!Skip(r, h(i))
    <2>1. h(i) \in Nat /\ u \in Range(t.subs)
      BY HeadsLenNat
    <2>2. q \in Abstract!Reader /\ q.data = r.data /\ q.strict = r.strict /\ q.at = r.at + h(i)
      <3>1. \A k \in Nat : Abstract!Skip(r, k) \in Abstract!Reader
        BY ReaderMoves
      <3>2. q \in Abstract!Reader
        BY <2>1, <3>1
      <3> HIDE DEF h
      <3> QED BY <3>2, Zenon DEF Abstract!Skip, Abstract!Reader
    <2>3. Abstract!value[u][q].defined /\ vals[i] = Abstract!value[u][q].val
      <3> HIDE DEF h, u, q
      <3> QED BY <1>2, <1>3 DEF u, q
    <2>4. vals[i] \in Tokens
      BY <1>3
    <2> HIDE DEF u, q, h
    <2>5. FindsEncodings(u)
      BY <2>1
    <2>6. Stands(q.data, q.at, enc[u][vals[i]])
      BY <2>2, <2>3, <2>4, <2>5 DEF FindsEncodings
    <2> QED BY <2>2, <2>6 DEF u
  <1> QED BY <1>4

(* The word that a strict reader finds, or the row of heads. *)
LEMMA ExactRow ==
  ASSUME NEW t \in ParamTypes, t.kind \in {"FixedArray", "Tuple"}, Plain(t),
         \A i \in DOMAIN t.subs : FindsEncodings(t.subs[i]),
         NEW r \in Abstract!Reader, r.strict,
         Abstract!InHeads(Abstract!value, t, r).defined,
         NEW token \in Tokens, token = Abstract!InHeads(Abstract!value, t, r).val,
         is_value[t][token]
  PROVE  Stands(r.data, r.at, enc[t][token])
  <1> DEFINE encs == PartsOf(t, token)
             dyns == DynsOf(t, token)
             n    == Len(token.subs)
             L    == Layout(encs, dyns)
  <1>1. /\ encs \in Seq(Seq(Byte)) /\ Len(encs) = n /\ n \in Nat
        /\ DOMAIN token.subs = 1..n
        /\ HasElements(t, n) /\ t.subs \in Seq(ParamTypes)
        /\ RowEnc(enc, t, token) = L
        /\ \A i \in 1..n :
             /\ Abstract!SubType(t, i) = TypeOf(t, i)
             /\ TypeOf(t, i) \in Range(t.subs) /\ TypeOf(t, i) \in ParamTypes
             /\ token.subs[i] \in Tokens
             /\ is_value[TypeOf(t, i)][token.subs[i]]
             /\ encs[i] = enc[TypeOf(t, i)][token.subs[i]]
             /\ dyns[i] <=> TypeOf(t, i) \in DynamicTypes
    BY RowParts, Zenon
  <1>2. n = Abstract!Width(t)
    <2>1. Shaped(t, token)
      BY ValueParts
    <2>2. /\ t.kind = "Tuple" => n = Len(t.subs)
          /\ t.kind = "FixedArray" => n = t.size
      BY <2>1, Zenon DEF Shaped
    <2> QED BY <2>2 DEF Abstract!Width
  <1>3. enc[t][token] = L
    <2>1. enc[t][token] = EncBody(enc, t, token)
      BY EncEquation, Zenon DEF EncDef
    <2> QED BY <1>1, <2>1, Zenon DEF EncBody
  <1>4. /\ Abstract!Row(Abstract!value, t, n, r).defined
        /\ token.subs = Abstract!Row(Abstract!value, t, n, r).val
    <2> DEFINE row == Abstract!Row(Abstract!value, t, n, r)
    <2>1. Abstract!InHeads(Abstract!value, t, r)
            = Abstract!Node(t, Abstract!Row(Abstract!value, t, Abstract!Width(t), r))
      BY DEF Abstract!InHeads
    <2>2. Abstract!Node(t, row).defined /\ token = Abstract!Node(t, row).val
      BY <1>2, <2>1
    <2>3. row.defined /\ token = Token(t.kind, <<>>, row.val)
      BY <2>2, LeafIs, NodeIs
    <2> HIDE DEF row
    <2>4. token.subs = row.val
      BY <2>3 DEF Token
    <2> QED BY <2>3, <2>4 DEF row
  <1> HIDE DEF encs, dyns, n, L
  <1>5. \A u \in Range(t.subs) : FindsEncodings(u) /\ u \notin DynamicTypes
    <2>1. \A i \in DOMAIN t.subs : FindsEncodings(t.subs[i]) /\ t.subs[i] \notin DynamicTypes
      BY PlainParts DEF Plain
    <2> QED BY <2>1 DEF Range
  <1>6. \A i \in 1..n : ~dyns[i]
    BY <1>1, <1>5
  <1>7. Encodes(t, n, token.subs, encs, dyns)
    <2>1. ASSUME NEW i \in 1..n
          PROVE  /\ TypeOf(t, i) = Abstract!SubType(t, i) /\ Found(TypeOf(t, i))
                 /\ TypeOf(t, i) \in ParamTypes
                 /\ token.subs[i] \in Tokens /\ is_value[TypeOf(t, i)][token.subs[i]]
                 /\ encs[i] = enc[TypeOf(t, i)][token.subs[i]]
                 /\ dyns[i] <=> TypeOf(t, i) \in DynamicTypes
      BY <1>1, AllFound
    <2> QED BY <1>1, <2>1 DEF Encodes
  <1>8. \A i \in 1..n :
          Stands(r.data, r.at + Abstract!HeadsLen(Abstract!head_len, t, i - 1), encs[i])
    <2>1. \A u \in Range(t.subs) : FindsEncodings(u)
      BY <1>5
    <2>2. token.subs \in Seq(Tokens)
      BY TokenFields
    <2>3. \A i \in 1..n :
            Stands(r.data, r.at + Abstract!HeadsLen(Abstract!head_len, t, i - 1),
                   enc[Abstract!SubType(t, i)][token.subs[i]])
      BY <1>1, <1>4, <2>1, <2>2, ElementsStand
    <2> QED BY <1>1, <2>3
  <1>9. r.at \in Nat /\ r.data \in Seq(Byte)
    BY DEF Abstract!Reader, Abstract!Byte, Byte
  <1>10. Stands(r.data, r.at, L)
    <2>1. Stands(r.data, r.at, Layout(encs, dyns))
      BY <1>6, <1>7, <1>8, <1>9, RowStands
    <2> QED BY <2>1 DEF L
  <1> QED BY <1>3, <1>10

(* So it is with every such type. *)
LEMMA AllExact == \A t \in ParamTypes : Plain(t) => FindsEncodings(t)
  <1> DEFINE S == {t \in ParamTypes : Plain(t) => FindsEncodings(t)}
  <1>1. ASSUME NEW t \in ParamTypes, \A i \in DOMAIN t.subs : t.subs[i] \in S
        PROVE  t \in S
    <2> SUFFICES ASSUME Plain(t) PROVE FindsEncodings(t)
      OBVIOUS
    <2>1. /\ t.kind \in {"Address", "Int", "Uint", "FixedBytes", "FixedArray", "Tuple"}
          /\ \A i \in DOMAIN t.subs : FindsEncodings(t.subs[i])
      BY <1>1, PlainParts
    <2>2. usual[t] /\ ~Abstract!behind[t]
      BY Behind DEF Plain, DynamicTypes
    <2> SUFFICES ASSUME NEW r \in Abstract!Reader, r.strict,
                        Abstract!value[t][r].defined, Abstract!value[t][r].val \in Tokens
                 PROVE  Stands(r.data, r.at, enc[t][Abstract!value[t][r].val])
      BY DEF FindsEncodings
    <2> DEFINE token == Abstract!value[t][r].val
    <2>3. is_value[t][token]
      <3>1. FindsValues(t)
        BY <2>2, AllFindValues
      <3> QED BY <3>1 DEF FindsValues, Settled
    <2>4. Abstract!value[t][r] = Abstract!InHeads(Abstract!value, t, r)
      <3>1. Abstract!value[t][r] = Abstract!ValueAt(Abstract!value, t, r)
        BY ValueEquation
      <3> QED BY <2>2, <3>1 DEF Abstract!ValueAt
    <2>5. /\ Abstract!InHeads(Abstract!value, t, r).defined
          /\ token \in Tokens /\ token = Abstract!InHeads(Abstract!value, t, r).val
      BY <2>4
    <2> HIDE DEF token
    <2>6. CASE t.kind \in {"Address", "Int", "Uint"}
      <3>1. Stands(r.data, r.at, enc[t][token])
        BY <2>5, <2>6, ExactWord
      <3> QED BY <3>1 DEF token
    <2>7. CASE t.kind = "FixedBytes"
      <3>1. Stands(r.data, r.at, enc[t][token])
        BY <2>2, <2>5, <2>7, ExactFixedBytes
      <3> QED BY <3>1 DEF token
    <2>8. CASE t.kind \in {"FixedArray", "Tuple"}
      <3>1. Stands(r.data, r.at, enc[t][token])
        BY <2>1, <2>3, <2>5, <2>8, ExactRow
      <3> QED BY <3>1 DEF token
    <2> QED BY <2>1, <2>6, <2>7, <2>8
  <1> HIDE DEF S
  <1>2. ParamTypes \subseteq S
    BY <1>1, TypeInduction
  <1> QED BY <1>2 DEF S

(* CallEncodes, of all calls. *)
LEMMA OfCalls ==
  \A ts \in Seq(ParamTypes) : \A tokens \in Seq(Tokens) :
    Len(tokens) = Len(ts) /\ (\A i \in DOMAIN ts : is_value[ts[i]][tokens[i]]) =>
      /\ EncAll(tokens, ts) = Layout(CallParts(tokens, ts), CallDyns(ts))
      /\ Encodes(Abstract!TupleT(ts), Len(ts), tokens, CallParts(tokens, ts), CallDyns(ts))
      /\ \A i \in 1..Len(ts) : Abstract!SubType(Abstract!TupleT(ts), i) = ts[i]
  BY CallEncodes

(* Data that decode_validate accepts for such types is the encoding of the *)
(* tokens it returns.                                                      *)
LEMMA DecodedExact ==
  ASSUME NEW ts \in Seq(ParamTypes), \A i \in DOMAIN ts : Plain(ts[i]),
         NEW d \in Seq(Byte), Len(d) < U32 + WordLen, NEW strict \in BOOLEAN, strict,
         Abstract!Decoded(ts, d, strict).defined,
         NEW tokens \in Seq(Tokens), tokens = Abstract!Decoded(ts, d, strict).val
  PROVE  encode(tokens) = d
  <1> DEFINE args == Abstract!TupleT(ts)
             n    == Len(ts)
             r    == At(d, strict, 0, 0)
             row  == Abstract!Row(Abstract!value, args, n, r)
             empty == d = <<>> /\ \E i \in DOMAIN ts :
                                    ~Abstract!is_empty_bytes_valid_encoding(ts[i])
             encs == CallParts(tokens, ts)
             dyns == CallDyns(ts)
             e    == EncAll(tokens, ts)
  <1>1. Abstract!Decoded(ts, d, strict)
             = IF \/ empty
                  \/ strict /\ Abstract!HeadsLen(Abstract!head_len, args, n) # Len(d)
               THEN Abstract!Undefined ELSE row
    BY DEF Abstract!Decoded, At
  <1>2. row.defined /\ tokens = row.val
        /\ Abstract!HeadsLen(Abstract!head_len, args, n) = Len(d)
    <2> HIDE DEF row, empty, args, n
    <2>1. ~Abstract!Undefined.defined
      BY DEF Abstract!Undefined
    <2> QED BY <1>1, <2>1
  <1>3. args.kind = "Tuple" /\ args.subs = ts /\ n \in Nat /\ DOMAIN ts = 1..n
    BY LenProperties DEF Abstract!TupleT, Abstract!ParamType
  <1>4. r \in Abstract!Reader /\ r.strict /\ r.data = d /\ r.at = 0
    <2>1. strict = strict /\ FALSE \in BOOLEAN
      OBVIOUS
    <2>2. r \in Abstract!Reader
      BY <2>1, AtStart
    <2> QED BY <2>2 DEF At
  <1>5. \A i \in DOMAIN ts : usual[ts[i]] /\ ts[i] \notin DynamicTypes
    BY DEF Plain
  <1>6. Len(tokens) = Len(ts) /\ \A i \in DOMAIN ts : is_value[ts[i]][tokens[i]]
    <2>1. \A i \in DOMAIN ts : usual[ts[i]]
      BY <1>5
    <2>2. Len(tokens) = Len(ts) /\ \A i \in DOMAIN ts : Settled(ts[i], tokens[i])
      BY <2>1, DecodedSettled
    <2> QED BY <2>2 DEF Settled
  <1>7. /\ e = Layout(encs, dyns) /\ Encodes(args, n, tokens, encs, dyns)
        /\ \A i \in 1..n : Abstract!SubType(args, i) = ts[i]
    <2>1. /\ EncAll(tokens, ts) = Layout(CallParts(tokens, ts), CallDyns(ts))
          /\ Encodes(Abstract!TupleT(ts), Len(ts), tokens, CallParts(tokens, ts), CallDyns(ts))
          /\ \A i \in 1..Len(ts) : Abstract!SubType(Abstract!TupleT(ts), i) = ts[i]
      BY <1>6, OfCalls
    <2> QED BY <2>1
  <1>8. Len(e) = Len(d)
    BY <1>2, <1>5, <1>6, StaticCallLen
  <1>9. \A i \in 1..n : ~dyns[i] /\ encs[i] = enc[ts[i]][tokens[i]]
    BY <1>3, <1>5 DEF CallDyns, CallParts
  <1> HIDE DEF args, n, r, row, empty, encs, dyns, e
  <1>10. \A i \in 1..n :
           Stands(r.data, r.at + Abstract!HeadsLen(Abstract!head_len, args, i - 1),
                  enc[Abstract!SubType(args, i)][tokens[i]])
    <2>1. \A u \in Range(args.subs) : FindsEncodings(u)
      BY <1>3, AllExact DEF Range
    <2>2. HasElements(args, n) /\ args.subs \in Seq(ParamTypes)
      BY <1>7 DEF Encodes
    <2>3. Abstract!Row(Abstract!value, args, n, r).defined
          /\ tokens = Abstract!Row(Abstract!value, args, n, r).val
      BY <1>2 DEF row
    <2> QED BY <1>3, <1>4, <2>1, <2>2, <2>3, ElementsStand
  <1>11. Stands(d, 0, e)
    <2>1. \A i \in 1..n :
            Stands(d, 0 + Abstract!HeadsLen(Abstract!head_len, args, i - 1), encs[i])
      <3> TAKE i \in 1..n
      <3>1. Stands(r.data, r.at + Abstract!HeadsLen(Abstract!head_len, args, i - 1),
                   enc[Abstract!SubType(args, i)][tokens[i]])
        BY <1>10
      <3>2. enc[Abstract!SubType(args, i)][tokens[i]] = encs[i]
        BY <1>7, <1>9
      <3> QED BY <1>4, <3>1, <3>2
    <2>2. \A i \in 1..n : ~dyns[i]
      BY <1>9
    <2>3. Stands(d, 0, Layout(encs, dyns))
      BY <1>7, <2>1, <2>2, RowStands
    <2> QED BY <1>7, <2>3
  <1>12. e = d
    <2>1. e \in Seq(Byte)
      <3>1. encs \in Seq(Seq(Byte))
        BY <1>7 DEF Encodes
      <3>2. Layout(encs, dyns) \in Seq(Byte)
        BY <3>1, LayoutFacts, Zenon
      <3> QED BY <1>7, <3>2
    <2>2. \A j \in 1..Len(e) : e[j] = d[j]
      <3> TAKE j \in 1..Len(e)
      <3>1. d[0 + j] = e[j] /\ 0 + j = j
        BY <1>11 DEF Stands
      <3> QED BY <3>1
    <2> QED BY <1>8, <2>1, <2>2, SeqEqual
  <1>13. Len(EncAll(tokens, ts)) < U32 + WordLen
    BY <1>8 DEF e
  <1>14. encode(tokens) = EncAll(tokens, ts)
    BY <1>6, <1>13, EncodeIsCanonical
  <1> QED BY <1>12, <1>14 DEF e
=============================================================================
