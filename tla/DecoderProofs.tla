--------------------------- MODULE DecoderProofs ---------------------------
(***************************************************************************)
(* The proofs about Decoder: whatever the types and the data, decode and   *)
(* decode_validate read inside the data, stand at the head of the element  *)
(* that they decode, follow their types, and never panic.                  *)
(*                                                                         *)
(* The theorems assume Wide, that usize has room for the sum of two u32    *)
(* lengths; without it the sum of decoder.rs:80 wraps.                     *)
(* Nothing is assumed of the data or of the allocator, and of the types    *)
(* only that they are finite trees.                                        *)
(***************************************************************************)
EXTENDS DecoderImplements, EncoderProofs

-----------------------------------------------------------------------------
(* Numbers. *)

(* A sum of lengths that fits in usize does not wrap. *)
LEMMA UAddExact ==
  ASSUME NEW a \in Nat, NEW b \in Nat, a + b < UsizeSize
  PROVE  UAdd(a, b) = a + b
  BY RadixFacts DEF UAdd

(* Rounding up to a word adds less than a word, if it does not wrap. *)
LEMMA RoundUpBounds ==
  ASSUME NEW n \in Nat, n + WordLen <= UsizeSize
  PROVE  /\ round_up_nearest_multiple(n) \in Nat
         /\ n <= round_up_nearest_multiple(n)
         /\ round_up_nearest_multiple(n) < n + WordLen
  <1>1. UAdd(n, WordLen - 1) = n + WordLen - 1
    <2>1. WordLen - 1 \in Nat /\ n + (WordLen - 1) < UsizeSize
      BY WordAssumption, RadixFacts
    <2> QED
      BY <2>1, UAddExact, WordAssumption
  <1> DEFINE m == n + WordLen - 1
             q == m \div WordLen
  <1>2. m \in Nat /\ WordLen \in Nat /\ WordLen > 0
    BY WordAssumption
  <1>3. q \in Nat /\ q * WordLen <= m /\ m < q * WordLen + WordLen
    BY <1>2, SMTT(30)
  <1> QED
    BY <1>1, <1>2, <1>3 DEF round_up_nearest_multiple

(* Appending a digit to a number below M gives a number below M * Radix. *)
LEMMA HornerStep ==
  ASSUME NEW M \in Nat, NEW v \in 0..(M - 1), NEW b \in Byte
  PROVE  v * Radix + b \in 0..(M * Radix - 1)
  <1>1. b \in Nat /\ b < Radix /\ Radix \in Nat
    BY RadixFacts DEF Byte
  <1>2. v + 1 <= M /\ v \in Nat
    OBVIOUS
  <1>3. (v + 1) * Radix <= M * Radix
    BY <1>1, <1>2
  <1>4. (v + 1) * Radix = v * Radix + Radix
    BY <1>1, <1>2
  <1>5. v * Radix \in Nat /\ M * Radix \in Nat
    BY <1>1, <1>2
  <1> QED
    BY <1>1, <1>3, <1>4, <1>5

(* What as_usize reads from a word is a u32. *)
LEMMA WordValueRange ==
  ASSUME NEW w \in Seq(Byte), Len(w) = WordLen
  PROVE  WordValue(w) \in 0..(U32 - 1)
  <1>1. /\ w[WordLen - 3] \in Byte /\ w[WordLen - 2] \in Byte
        /\ w[WordLen - 1] \in Byte /\ w[WordLen] \in Byte
    BY WordAssumption
  <1> DEFINE v1 == w[WordLen - 3]
             v2 == v1 * Radix + w[WordLen - 2]
             v3 == v2 * Radix + w[WordLen - 1]
  <1>0. Radix * Radix \in Nat /\ Radix * Radix * Radix \in Nat
    BY RadixFacts
  <1>2. v1 \in 0..(Radix - 1)
    BY <1>1 DEF Byte
  <1>3. v2 \in 0..(Radix * Radix - 1)
    BY <1>1, <1>2, RadixFacts, HornerStep
  <1>4. v3 \in 0..(Radix * Radix * Radix - 1)
    <2> HIDE DEF v2
    <2> QED BY <1>0, <1>1, <1>3, HornerStep
  <1>5. v3 * Radix + w[WordLen] \in 0..(U32 - 1)
    <2> HIDE DEF v3
    <2> QED BY <1>0, <1>1, <1>4, HornerStep DEF U32
  <1> QED
    BY <1>5 DEF WordValue

-----------------------------------------------------------------------------
(* The reads. *)

(* A slice in range is a sequence of bytes of the expected length. *)
LEMMA SliceIsBytes ==
  ASSUME NEW d \in Seq(Byte), NEW from \in Nat, NEW to \in Nat,
         from <= to, to <= Len(d)
  PROVE  Slice(d, from, to) \in Seq(Byte) /\ Len(Slice(d, from, to)) = to - from
  <1>1. \A i \in (from + 1)..to : d[i] \in Byte
    OBVIOUS
  <1>2. /\ SubSeq(d, from + 1, to) \in Seq(Byte)
        /\ Len(SubSeq(d, from + 1, to))
             = IF from + 1 <= to THEN to - (from + 1) + 1 ELSE 0
    BY <1>1, SubSeqProperties
  <1> QED
    BY <1>2 DEF Slice

(* peek tests the range it slices: it yields its bytes, or an error. *)
LEMMA PeekSafe ==
  ASSUME NEW d \in Seq(Byte), NEW offset \in Nat, NEW len \in Nat,
         offset + len < UsizeSize
  PROVE  LET r == peek(d, offset, len)
         IN  /\ r.status \in {"Ok", "Err"}
             /\ r.status = "Ok" => /\ r.val \in Seq(Byte) /\ Len(r.val) = len
                                   /\ offset + len <= Len(d)
  <1>1. UAdd(offset, len) = offset + len
    BY UAddExact
  <1>2. offset + len <= Len(d) =>
          /\ Slice(d, offset, offset + len) \in Seq(Byte)
          /\ Len(Slice(d, offset, offset + len)) = len
    <2> SUFFICES ASSUME offset + len <= Len(d)
                 PROVE  /\ Slice(d, offset, offset + len) \in Seq(Byte)
                        /\ Len(Slice(d, offset, offset + len)) = len
      OBVIOUS
    <2> DEFINE to == offset + len
    <2>1. to \in Nat /\ offset <= to /\ to - offset = len
      OBVIOUS
    <2>2. to <= Len(d)
      OBVIOUS
    <2> HIDE DEF to
    <2>3. Slice(d, offset, to) \in Seq(Byte) /\ Len(Slice(d, offset, to)) = to - offset
      BY <2>1, <2>2, SliceIsBytes
    <2> QED
      BY <2>1, <2>3 DEF to
  <1>3. CASE offset + len > Len(d)
    BY <1>1, <1>3 DEF peek, Err
  <1>4. CASE offset + len <= Len(d)
    <2>1. peek(d, offset, len) = Ok(Slice(d, offset, offset + len))
      BY <1>1, <1>4 DEF peek, Index
    <2> QED
      BY <2>1, <1>2, <1>4 DEF Ok
  <1> QED
    BY <1>3, <1>4

(* peek_32_bytes yields a word, or an error. *)
LEMMA PeekWordSafe ==
  ASSUME NEW d \in Seq(Byte), NEW offset \in Nat, offset + WordLen < UsizeSize
  PROVE  LET r == peek_32_bytes(d, offset)
         IN  /\ r.status \in {"Ok", "Err"}
             /\ r.status = "Ok" => /\ r.val \in Seq(Byte) /\ Len(r.val) = WordLen
                                   /\ offset + WordLen <= Len(d)
  BY PeekSafe, WordAssumption DEF peek_32_bytes

(* A length or an offset that was read is a u32. *)
LEMMA PeekUsizeSafe ==
  ASSUME NEW d \in Seq(Byte), NEW offset \in Nat, offset + WordLen < UsizeSize
  PROVE  LET r == peek_usize(d, offset)
         IN  /\ r.status \in {"Ok", "Err"}
             /\ r.status = "Ok" => /\ r.val \in Nat /\ r.val < U32
                                   /\ offset + WordLen <= Len(d)
  <1> DEFINE w == peek_32_bytes(d, offset)
  <1>1. /\ w.status \in {"Ok", "Err"}
        /\ w.status = "Ok" => /\ w.val \in Seq(Byte) /\ Len(w.val) = WordLen
                              /\ offset + WordLen <= Len(d)
    BY PeekWordSafe
  <1>2. w.status = "Ok" => WordValue(w.val) \in 0..(U32 - 1)
    BY <1>1, WordValueRange
  <1>3. peek_usize(d, offset) = IF w.status = "Ok" THEN as_usize(w.val) ELSE w
    BY DEF peek_usize
  <1> HIDE DEF w
  <1> QED
    BY <1>1, <1>2, <1>3, RadixFacts DEF as_usize, Ok, Err

(* take_bytes tests the ranges it slices, in both modes. *)
LEMMA TakeBytesSafe ==
  ASSUME NEW d \in Seq(Byte), NEW offset \in Nat, NEW len \in Nat,
         NEW strict \in BOOLEAN, offset + len + WordLen <= UsizeSize
  PROVE  LET r == take_bytes(d, offset, len, strict)
         IN  /\ r.status \in {"Ok", "Err"}
             /\ r.status = "Ok" => offset + len <= Len(d)
  <1>0. WordLen \in Nat /\ WordLen > 4
    BY WordAssumption
  <1> DEFINE padded == round_up_nearest_multiple(len)
  <1>1. padded \in Nat /\ len <= padded /\ padded < len + WordLen
    BY <1>0, RoundUpBounds, RadixFacts
  <1> HIDE DEF padded
  <1>2. UAdd(offset, len) = offset + len /\ UAdd(offset, padded) = offset + padded
    BY <1>0, <1>1, UAddExact, RadixFacts
  <1>3. CASE strict
    BY <1>1, <1>2, <1>3 DEF take_bytes, Index, Ok, Err, Panic, padded
  <1>4. CASE ~strict
    <2>1. take_bytes(d, offset, len, strict) = peek(d, offset, len)
      BY <1>4 DEF take_bytes
    <2> QED
      BY <2>1, <1>0, PeekSafe, RadixFacts
  <1> QED
    BY <1>3, <1>4

-----------------------------------------------------------------------------
(* The inductive invariant.  That no slice panics follows from StackOK:    *)
(* the bounds it puts on the cursors make every sum of lengths exact.      *)

DataFits == 2 * Len(data) < UsizeSize

IInv == TypeOK /\ StackOK /\ NoPanic /\ DataFits

(* The fields of a frame. *)
LEMMA FrameFields ==
  ASSUME NEW f \in Frame
  PROVE  /\ f.kind \in FrameKinds /\ f.elems \in Seq(ParamTypes)
         /\ f.dyn \in BOOLEAN /\ f.base \in Nat /\ f.off \in Nat
         /\ f.next \in Nat /\ f.count \in Nat
  BY DEF Frame

(* A frame that advances keeps its call and changes its cursor only. *)
LEMMA AdvanceFields ==
  ASSUME NEW g \in Frame, NEW o \in Nat
  PROVE  LET f == Advance(g, o)
         IN  /\ f \in Frame /\ f.kind = g.kind /\ f.elems = g.elems
             /\ f.dyn = g.dyn /\ f.base = g.base /\ f.count = g.count
             /\ f.off = o /\ f.next = g.next + 1
  <1>1. \A h \in Frame : /\ [h EXCEPT !.off = o] \in Frame
                         /\ [h EXCEPT !.next = h.next + 1] \in Frame
    BY SMTT(20) DEF Frame
  <1> DEFINE h == [g EXCEPT !.off = o]
  <1>2. h \in Frame /\ h.next = g.next
    BY <1>1 DEF Frame
  <1>3. Advance(g, o) = [h EXCEPT !.next = h.next + 1]
    BY SMTT(20) DEF Advance, Frame
  <1>4. Advance(g, o) \in Frame
    <2> HIDE DEF h
    <2> QED BY <1>1, <1>2, <1>3
  <1>5. LET f == Advance(g, o)
        IN  /\ f.kind = g.kind /\ f.elems = g.elems
            /\ f.dyn = g.dyn /\ f.base = g.base /\ f.count = g.count
            /\ f.off = o /\ f.next = g.next + 1
    BY SMTT(20) DEF Advance, Frame
  <1> QED
    BY <1>4, <1>5

(* What the invariant says of the innermost call and of the slice it reads. *)
LEMMA TopFacts ==
  ASSUME IInv, Wide, status = "running"
  PROVE  /\ Len(stack) \in Nat /\ Len(stack) > 0
         /\ Top \in Frame /\ FrameOK(Top)
         /\ Len(data) \in Nat /\ WordLen \in Nat
         /\ View(Top) \in Seq(Byte) /\ Len(View(Top)) = Len(data) - Top.base
         /\ Top.off + WordLen < UsizeSize
  <1>1. stack \in Seq(Frame) /\ stack # <<>> /\ data \in Seq(Byte)
    BY DEF IInv, TypeOK, StackOK
  <1>2. Len(stack) \in Nat /\ Len(stack) > 0 /\ Len(stack) \in DOMAIN stack
    BY <1>1
  <1>3. Top \in Frame /\ FrameOK(Top)
    BY <1>1, <1>2 DEF Top, IInv, StackOK
  <1>4. Len(data) \in Nat /\ WordLen \in Nat
    BY <1>1, WordAssumption
  <1>5. Top.base \in Nat /\ Top.off \in Nat /\ Top.base <= Len(data)
        /\ Top.off <= Len(data) - Top.base + WordLen
    BY <1>3, FrameFields DEF FrameOK
  <1>6. View(Top) \in Seq(Byte) /\ Len(View(Top)) = Len(data) - Top.base
    BY <1>1, <1>4, <1>5, SliceIsBytes, Len(data) <= Len(data) DEF View
  <1>7. Top.off + WordLen < UsizeSize
    BY <1>4, <1>5, RadixFacts DEF IInv, DataFits, Wide
  <1> QED
    BY <1>2, <1>3, <1>4, <1>6, <1>7

(* While a call has an element left, it has a type for it. *)
LEMMA ElemType ==
  ASSUME IInv, Wide, status = "running", Top.next <= Top.count
  PROVE  Elem(Top) \in ParamTypes
  <1>1. Top \in Frame /\ FrameOK(Top)
    BY TopFacts
  <1>2. Top.elems \in Seq(ParamTypes) /\ Top.next \in Nat /\ Top.count \in Nat
    BY <1>1, FrameFields
  <1> QED
    BY <1>1, <1>2 DEF Elem, ElemAt, FrameOK

(* Returning an error keeps the invariant. *)
LEMMA ReturnErr ==
  ASSUME IInv, Return("Err")
  PROVE  IInv'
  BY DEF IInv, TypeOK, StackOK, NoPanic, DataFits, Return, Outcomes, Frame

(* Pushing a token keeps the invariant, if the new offset is at most a    *)
(* word past the call's tail.                                              *)
LEMMA DeliverSafe ==
  ASSUME IInv, Wide, status = "running", Top.next <= Top.count,
         NEW token, NEW o \in Nat, o <= Len(data) - Top.base + WordLen,
         Deliver(token, o)
  PROVE  IInv'
  <1> DEFINE n == Len(stack)
             f == Advance(Top, o)
  <1>1. /\ n \in Nat /\ n > 0 /\ Top \in Frame /\ FrameOK(Top)
        /\ stack \in Seq(Frame)
    BY TopFacts DEF IInv, TypeOK
  <1>2. /\ stack' = [stack EXCEPT ![n] = f]
        /\ acc' = [acc EXCEPT ![n] = Append(@, token)]
        /\ UNCHANGED <<types, data, validate, status>>
    BY DEF Deliver, Top
  <1>3. /\ f \in Frame /\ f.kind = Top.kind /\ f.elems = Top.elems
        /\ f.dyn = Top.dyn /\ f.base = Top.base /\ f.count = Top.count
        /\ f.off = o /\ f.next = Top.next + 1
    BY <1>1, AdvanceFields
  <1>4. FrameOK(f)
    BY <1>1, <1>3, FrameFields DEF FrameOK
  <1> HIDE DEF f
  <1>5. /\ stack' \in Seq(Frame) /\ DOMAIN stack' = 1..n /\ DOMAIN stack = 1..n
        /\ stack'[n] = f
        /\ \A k \in 1..n : k # n => stack'[k] = stack[k]
    BY <1>1, <1>2, <1>3
  <1>n. n \in Nat /\ n > 0 /\ Top = stack[n]
    BY <1>1 DEF Top
  <1> HIDE DEF n
  <1>6. TypeOK'
    BY <1>2, <1>5 DEF IInv, TypeOK
  <1>7. \A k \in 1..n : FrameOK(stack'[k])
    BY <1>4, <1>5 DEF IInv, StackOK
  <1>8. \A k \in 1..n : k > 1 => CalledBy(stack'[k], stack'[k - 1])
    <2> SUFFICES ASSUME NEW k \in 1..n, k > 1
                 PROVE  CalledBy(stack'[k], stack'[k - 1])
      OBVIOUS
    <2>0. k - 1 \in 1..n /\ k - 1 # n
      BY <1>n
    <2>1. k - 1 \in 1..n /\ stack'[k - 1] = stack[k - 1]
      BY <1>5, <2>0
    <2>2. CalledBy(stack[k], stack[k - 1])
      BY <1>5 DEF IInv, StackOK
    <2>3. CASE k # n
      BY <1>5, <2>1, <2>2, <2>3
    <2>4. CASE k = n
      BY <1>3, <1>5, <1>n, <2>1, <2>2, <2>4 DEF CalledBy
    <2> QED
      BY <2>3, <2>4
  <1>9. stack'[1].kind = "Params"
    <2>1. stack[1].kind = "Params"
      BY <1>5, <1>n DEF IInv, StackOK
    <2>2. CASE n = 1
      BY <1>3, <1>5, <1>n, <2>1, <2>2
    <2>3. CASE n # 1
      BY <1>n, <1>5, <2>1, <2>3
    <2> QED
      BY <2>2, <2>3
  <1>10. StackOK'
    <2>1. \A k \in DOMAIN stack' : FrameOK(stack[k])'
      BY <1>2, <1>5, <1>7 DEF FrameOK
    <2>2. \A k \in DOMAIN stack' : k > 1 => CalledBy(stack[k], stack[k - 1])'
      BY <1>2, <1>5, <1>8 DEF CalledBy
    <2>3. stack' # <<>>
      BY <1>n, <1>5
    <2> QED
      BY <1>2, <1>9, <2>1, <2>2, <2>3 DEF StackOK
  <1> QED
    BY <1>2, <1>6, <1>10 DEF IInv, NoPanic, DataFits

(* A vector with an element appended is a vector one longer. *)
LEMMA AppendVectors ==
  ASSUME NEW n \in Nat, NEW v, v = [k \in 1..n |-> v[k]], NEW e
  PROVE  Append(v, e) = [k \in 1..(n + 1) |-> Append(v, e)[k]]
  <1> DEFINE S == {v[k] : k \in 1..n} \cup {e}
  <1>1. v \in [1..n -> S]
    OBVIOUS
  <1>2. v \in Seq(S) /\ Len(v) = n
    BY <1>1
  <1>3. e \in S
    OBVIOUS
  <1> HIDE DEF S
  <1>4. Append(v, e) \in Seq(S) /\ Len(Append(v, e)) = n + 1
    BY <1>2, <1>3, AppendProperties
  <1>5. Append(v, e) \in [1..(n + 1) -> S]
    BY <1>4, LenProperties
  <1> QED
    BY <1>5

(* Opening a call keeps the invariant, if its frame is in range and fits  *)
(* under its caller.                                                       *)
LEMMA OpenSafe ==
  ASSUME IInv, Wide, status = "running",
         NEW f \in Frame, FrameOK(f), CalledBy(f, Top), Open(f)
  PROVE  IInv'
  <1> DEFINE n == Len(stack)
  <1>1. n \in Nat /\ n > 0 /\ stack \in Seq(Frame) /\ DOMAIN stack = 1..n
    BY TopFacts DEF IInv, TypeOK
  <1>2. /\ stack' = Append(stack, f) /\ acc' = Append(acc, <<>>)
        /\ UNCHANGED <<types, data, validate, status>>
    BY DEF Open
  <1>3. /\ stack' \in Seq(Frame) /\ DOMAIN stack' = 1..(n + 1)
        /\ stack'[n + 1] = f
        /\ \A k \in 1..n : stack'[k] = stack[k]
    BY <1>1, <1>2, AppendProperties
  <1>4. Top = stack[n]
    BY DEF Top
  <1>5. acc = [k \in 1..n |-> acc[k]]
    BY <1>1 DEF IInv, TypeOK
  <1> HIDE DEF n
  <1>6. acc' = [k \in 1..(n + 1) |-> acc'[k]]
    BY <1>1, <1>2, <1>5, AppendVectors
  <1>7. TypeOK'
    BY <1>2, <1>3, <1>6 DEF IInv, TypeOK
  <1>8. \A k \in DOMAIN stack' : FrameOK(stack[k])'
    <2>1. \A k \in 1..(n + 1) : FrameOK(stack'[k])
      BY <1>1, <1>3 DEF IInv, StackOK
    <2> QED
      BY <1>2, <1>3, <2>1 DEF FrameOK
  <1>9. \A k \in DOMAIN stack' : k > 1 => CalledBy(stack[k], stack[k - 1])'
    <2>1. ASSUME NEW k \in 1..(n + 1), k > 1
          PROVE  CalledBy(stack'[k], stack'[k - 1])
      <3>1. k - 1 \in 1..n /\ stack'[k - 1] = stack[k - 1]
        BY <1>1, <1>3, <2>1
      <3>2. CASE k = n + 1
        BY <1>1, <1>3, <1>4, <3>1, <3>2
      <3>3. CASE k # n + 1
        <4>1. k \in 1..n
          BY <1>1, <3>3
        <4> QED
          BY <1>1, <1>3, <2>1, <3>1, <4>1 DEF IInv, StackOK
      <3> QED
        BY <3>2, <3>3
    <2> QED
      BY <1>2, <1>3, <2>1 DEF CalledBy
  <1>10. stack' # <<>> /\ stack'[1].kind = "Params"
    <2>1. 1 \in 1..n /\ stack[1].kind = "Params"
      BY <1>1 DEF IInv, StackOK
    <2> QED
      BY <1>1, <1>3, <2>1
  <1>11. StackOK'
    BY <1>2, <1>8, <1>9, <1>10 DEF StackOK
  <1> QED
    BY <1>2, <1>7, <1>11 DEF IInv, NoPanic, DataFits

-----------------------------------------------------------------------------
(* What a step of the decoder may be.  Whatever it read, it pushes a token *)
(* of the type it is at, or opens a call on that type, or fails with Err.  *)

LeafKinds == Kinds \ {"Array", "FixedArray", "Tuple"}

(* f is a call on the type that its caller g is at. *)
Opened(f, g) ==
  LET t == Elem(g)
  IN  /\ f.kind = t.kind /\ f.elems = t.subs
      /\ f.dyn <=> t \in DynamicTypes
      /\ f.kind # "Array" =>
           f.count = IF t.kind = "Tuple" THEN Len(t.subs) ELSE t.size

Beginning ==
  /\ status = "start" /\ status' = "running"
  /\ stack' = <<RootFrame>> /\ acc' = << <<>> >>
  /\ UNCHANGED <<types, data, validate>>

Failing == Return("Err")

Pushing ==
  /\ status = "running" /\ Top.next <= Top.count
  /\ Elem(Top).kind \in LeafKinds
  /\ Top.off <= Len(data) - Top.base
  /\ \E val : Deliver(Token(Elem(Top).kind, val, <<>>), Top.off + WordLen)

Opening ==
  /\ status = "running" /\ Top.next <= Top.count
  /\ \E f \in Frame :
       /\ f.next = 1 /\ f.off = IF f.dyn THEN 0 ELSE Top.off
       /\ FrameOK(f) /\ CalledBy(f, Top) /\ Opened(f, Top)
       /\ Open(f)

Completing ==
  /\ status = "running" /\ Len(stack) = 1 /\ Top.next > Top.count
  /\ validate => Top.off = Len(data)
  /\ status' = "Ok"
  /\ UNCHANGED <<types, data, validate, stack, acc>>

(* A call that pushes one token, or fails without a panic. *)
LEMMA TakeShape ==
  ASSUME IInv, Wide, status = "running", Top.next <= Top.count,
         Elem(Top).kind \in LeafKinds,
         NEW res, res.status \in {"Ok", "Err"},
         res.status = "Ok" => Top.off <= Len(data) - Top.base,
         Take(Elem(Top).kind, res)
  PROVE  Pushing \/ Failing
  <1>1. /\ Top \in Frame /\ Len(data) \in Nat /\ WordLen \in Nat
        /\ Top.off + WordLen < UsizeSize
    BY TopFacts
  <1>2. Top.off \in Nat /\ Top.base \in Nat
    BY <1>1, FrameFields
  <1>3. UAdd(Top.off, WordLen) = Top.off + WordLen
    BY <1>1, <1>2, UAddExact
  <1>4. CASE /\ res.status = "Ok"
             /\ Deliver(Token(Elem(Top).kind, res.val, <<>>), UAdd(Top.off, WordLen))
    BY <1>3, <1>4 DEF Pushing
  <1>5. CASE res.status # "Ok" /\ Return(res.status)
    BY <1>5 DEF Failing
  <1> QED
    BY <1>4, <1>5 DEF Take

-----------------------------------------------------------------------------
(* One lemma for each action of Next, up to Leave. *)

(* decode_impl up to its loop begins, or fails. *)
LEMMA StartShape ==
  ASSUME Start
  PROVE  Beginning \/ Failing
  BY DEF Start, Beginning, Failing

(* The arm of addresses reads one word in range. *)
LEMMA DecodeAddressShape ==
  ASSUME IInv, Wide, DecodeAddress
  PROVE  Pushing \/ Failing
  <1> DEFINE d == View(Top)
             w == peek_32_bytes(d, Top.off)
             res == decode_address(d, Top.off)
  <1>1. /\ status = "running" /\ Top.next <= Top.count
        /\ Elem(Top).kind \in LeafKinds /\ Take(Elem(Top).kind, res)
    BY DEF DecodeAddress, Decoding, LeafKinds, Kinds
  <1>2. /\ Top \in Frame /\ d \in Seq(Byte) /\ Len(d) = Len(data) - Top.base
        /\ Top.off + WordLen < UsizeSize /\ WordLen \in Nat /\ Len(data) \in Nat
    BY <1>1, TopFacts
  <1>3. Top.off \in Nat /\ Top.base \in Nat
    BY <1>2, FrameFields
  <1> HIDE DEF d
  <1>4. /\ w.status \in {"Ok", "Err"}
        /\ w.status = "Ok" => Top.off + WordLen <= Len(d)
    BY <1>2, <1>3, PeekWordSafe
  <1>5. /\ res.status \in {"Ok", "Err"}
        /\ res.status = "Ok" => w.status = "Ok"
    <2>1. res = IF w.status # "Ok" THEN w
                ELSE IF validate /\ ~IsZero(Slice(w.val, 0, AddrPad)) THEN Err
                ELSE Ok(Slice(w.val, AddrPad, WordLen))
      BY DEF decode_address
    <2> HIDE DEF w, res
    <2> QED
      BY <1>4, <2>1 DEF Ok, Err
  <1>6. res.status = "Ok" => Top.off <= Len(data) - Top.base
    BY <1>2, <1>3, <1>4, <1>5
  <1> QED
    BY <1>1, <1>5, <1>6, TakeShape

(* The arms of integers read one word in range. *)
LEMMA DecodeIntShape ==
  ASSUME IInv, Wide, DecodeInt
  PROVE  Pushing \/ Failing
  <1> DEFINE d == View(Top)
             res == peek_32_bytes(d, Top.off)
  <1>1. /\ status = "running" /\ Top.next <= Top.count
        /\ Elem(Top).kind \in LeafKinds /\ Take(Elem(Top).kind, res)
    BY DEF DecodeInt, Decoding, LeafKinds, Kinds
  <1>2. /\ Top \in Frame /\ d \in Seq(Byte) /\ Len(d) = Len(data) - Top.base
        /\ Top.off + WordLen < UsizeSize /\ WordLen \in Nat /\ Len(data) \in Nat
    BY <1>1, TopFacts
  <1>3. Top.off \in Nat /\ Top.base \in Nat
    BY <1>2, FrameFields
  <1> HIDE DEF d
  <1>4. /\ res.status \in {"Ok", "Err"}
        /\ res.status = "Ok" => Top.off + WordLen <= Len(d)
    BY <1>2, <1>3, PeekWordSafe
  <1>5. res.status = "Ok" => Top.off <= Len(data) - Top.base
    BY <1>2, <1>3, <1>4
  <1> QED
    BY <1>1, <1>4, <1>5, TakeShape

(* The arm of booleans reads one word in range. *)
LEMMA DecodeBoolShape ==
  ASSUME IInv, Wide, DecodeBool
  PROVE  Pushing \/ Failing
  <1> DEFINE d == View(Top)
             w == peek_32_bytes(d, Top.off)
             res == decode_bool(d, Top.off)
  <1>1. /\ status = "running" /\ Top.next <= Top.count
        /\ Elem(Top).kind \in LeafKinds /\ Take(Elem(Top).kind, res)
    BY DEF DecodeBool, Decoding, LeafKinds, Kinds
  <1>2. /\ Top \in Frame /\ d \in Seq(Byte) /\ Len(d) = Len(data) - Top.base
        /\ Top.off + WordLen < UsizeSize /\ WordLen \in Nat /\ Len(data) \in Nat
    BY <1>1, TopFacts
  <1>3. Top.off \in Nat /\ Top.base \in Nat
    BY <1>2, FrameFields
  <1> HIDE DEF d
  <1>4. /\ w.status \in {"Ok", "Err"}
        /\ w.status = "Ok" => Top.off + WordLen <= Len(d)
    BY <1>2, <1>3, PeekWordSafe
  <1>5. /\ res.status \in {"Ok", "Err"}
        /\ res.status = "Ok" => w.status = "Ok"
    <2>1. res = IF w.status = "Ok" THEN as_bool(w.val) ELSE w
      BY DEF decode_bool
    <2>2. as_bool(w.val).status \in {"Ok", "Err"}
      BY DEF as_bool, Ok, Err
    <2> HIDE DEF w, res
    <2> QED
      BY <1>4, <2>1, <2>2
  <1>6. res.status = "Ok" => Top.off <= Len(data) - Top.base
    BY <1>2, <1>3, <1>4, <1>5
  <1> QED
    BY <1>1, <1>5, <1>6, TakeShape

(* The arm of bytesN reads N bytes in range and may step a word further. *)
LEMMA DecodeFixedBytesShape ==
  ASSUME IInv, Wide, DecodeFixedBytes
  PROVE  Pushing \/ Failing
  <1> DEFINE d == View(Top)
             size == Elem(Top).size
             res == take_bytes(d, Top.off, size, validate)
  <1>1. /\ status = "running" /\ Top.next <= Top.count
        /\ Elem(Top).kind = "FixedBytes" /\ Take(Elem(Top).kind, res)
        /\ Elem(Top).kind \in LeafKinds
    BY DEF DecodeFixedBytes, Decoding, LeafKinds, Kinds
  <1>2. /\ Top \in Frame /\ d \in Seq(Byte) /\ Len(d) = Len(data) - Top.base
        /\ WordLen \in Nat /\ Len(data) \in Nat /\ FrameOK(Top)
    BY <1>1, TopFacts
  <1>3. Top.off \in Nat /\ Top.base \in Nat /\ validate \in BOOLEAN
    BY <1>2, FrameFields DEF IInv, TypeOK
  <1>4. size \in Nat /\ 2 * (size + 2 * WordLen) <= UsizeSize
    BY <1>1, ElemType, TypeFields DEF Wide
  <1>5. Top.off <= Len(data) + WordLen
    BY <1>2, <1>3 DEF FrameOK
  <1> HIDE DEF d, size
  <1>6. Top.off + size + WordLen <= UsizeSize
    BY <1>2, <1>3, <1>4, <1>5, RadixFacts DEF IInv, DataFits
  <1>7. /\ res.status \in {"Ok", "Err"}
        /\ res.status = "Ok" => Top.off + size <= Len(d)
    BY <1>2, <1>3, <1>4, <1>6, TakeBytesSafe
  <1> HIDE DEF res
  <1>8. res.status = "Ok" => Top.off <= Len(data) - Top.base
    BY <1>2, <1>3, <1>4, <1>7
  <1> QED
    BY <1>1, <1>7, <1>8, TakeShape

(* Both dynamic_offset and the length it leads to are u32s, so the sums of *)
(* decode_bytes do not wrap.                                               *)
LEMMA DecodeBytesReads ==
  ASSUME Wide, NEW d \in Seq(Byte), NEW offset \in Nat, validate \in BOOLEAN,
         offset + WordLen < UsizeSize
  PROVE  LET r == decode_bytes(d, offset)
         IN  /\ r.status \in {"Ok", "Err"}
             /\ r.status = "Ok" => offset + WordLen <= Len(d)
  <1>0. WordLen \in Nat /\ WordLen > 4 /\ U32 \in Nat /\ UsizeSize \in Nat
        /\ 2 * (U32 + 2 * WordLen) <= UsizeSize
    BY WordAssumption, RadixFacts DEF Wide
  <1> DEFINE dynamic_offset == peek_usize(d, offset)
             len == peek_usize(d, dynamic_offset.val)
             from == UAdd(dynamic_offset.val, WordLen)
             bytes == take_bytes(d, from, len.val, validate)
             r == decode_bytes(d, offset)
  <1>1. r = IF dynamic_offset.status # "Ok" THEN dynamic_offset
            ELSE IF len.status # "Ok" THEN len ELSE bytes
    BY DEF decode_bytes
  <1>2. /\ dynamic_offset.status \in {"Ok", "Err"}
        /\ dynamic_offset.status = "Ok" =>
             /\ dynamic_offset.val \in Nat /\ dynamic_offset.val < U32
             /\ offset + WordLen <= Len(d)
    BY PeekUsizeSafe
  <1>3. ASSUME dynamic_offset.status = "Ok"
        PROVE  /\ len.status \in {"Ok", "Err"}
               /\ len.status = "Ok" => len.val \in Nat /\ len.val < U32
    <2>1. dynamic_offset.val \in Nat /\ dynamic_offset.val + WordLen < UsizeSize
      BY <1>0, <1>2, <1>3
    <2> QED
      BY <2>1, PeekUsizeSafe
  <1>4. ASSUME dynamic_offset.status = "Ok", len.status = "Ok"
        PROVE  bytes.status \in {"Ok", "Err"}
    <2>1. /\ dynamic_offset.val \in Nat /\ dynamic_offset.val < U32
          /\ len.val \in Nat /\ len.val < U32
      BY <1>2, <1>3, <1>4
    <2>2. dynamic_offset.val + WordLen < UsizeSize
      BY <1>0, <2>1
    <2>3. from = dynamic_offset.val + WordLen
      BY <1>0, <2>1, <2>2, UAddExact
    <2>4. from \in Nat /\ from + len.val + WordLen <= UsizeSize
      BY <1>0, <2>1, <2>3
    <2> HIDE DEF from, len
    <2> QED
      BY <2>1, <2>4, TakeBytesSafe
  <1> HIDE DEF dynamic_offset, len, bytes, r
  <1>5. r.status \in {"Ok", "Err"} /\ (r.status = "Ok" => dynamic_offset.status = "Ok")
    BY <1>1, <1>2, <1>3, <1>4
  <1> QED
    BY <1>2, <1>5 DEF r

(* The arm of bytes follows its offset in range. *)
LEMMA DecodeBytesShape ==
  ASSUME IInv, Wide, DecodeBytes
  PROVE  Pushing \/ Failing
  <1> DEFINE d == View(Top)
             res == decode_bytes(d, Top.off)
  <1>1. /\ status = "running" /\ Top.next <= Top.count
        /\ Elem(Top).kind \in LeafKinds /\ Take(Elem(Top).kind, res)
    BY DEF DecodeBytes, Decoding, LeafKinds, Kinds
  <1>2. /\ Top \in Frame /\ d \in Seq(Byte) /\ Len(d) = Len(data) - Top.base
        /\ Top.off + WordLen < UsizeSize /\ WordLen \in Nat /\ Len(data) \in Nat
    BY <1>1, TopFacts
  <1>3. Top.off \in Nat /\ Top.base \in Nat /\ validate \in BOOLEAN
    BY <1>2, FrameFields DEF IInv, TypeOK
  <1> HIDE DEF d
  <1>4. /\ res.status \in {"Ok", "Err"}
        /\ res.status = "Ok" => Top.off + WordLen <= Len(d)
    BY <1>2, <1>3, DecodeBytesReads
  <1>5. res.status = "Ok" => Top.off <= Len(data) - Top.base
    BY <1>2, <1>3, <1>4
  <1> QED
    BY <1>1, <1>4, <1>5, TakeShape

(* The arm of strings reads what the arm of bytes reads. *)
LEMMA DecodeStringShape ==
  ASSUME IInv, Wide, DecodeString
  PROVE  Pushing \/ Failing
  <1> DEFINE d == View(Top)
             bytes == decode_bytes(d, Top.off)
             res == lossy_string(bytes)
  <1>1. /\ status = "running" /\ Top.next <= Top.count
        /\ Elem(Top).kind \in LeafKinds /\ Take(Elem(Top).kind, res)
    BY DEF DecodeString, Decoding, LeafKinds, Kinds
  <1>2. /\ Top \in Frame /\ d \in Seq(Byte) /\ Len(d) = Len(data) - Top.base
        /\ Top.off + WordLen < UsizeSize /\ WordLen \in Nat /\ Len(data) \in Nat
    BY <1>1, TopFacts
  <1>3. Top.off \in Nat /\ Top.base \in Nat /\ validate \in BOOLEAN
    BY <1>2, FrameFields DEF IInv, TypeOK
  <1> HIDE DEF d
  <1>4. /\ bytes.status \in {"Ok", "Err"}
        /\ bytes.status = "Ok" => Top.off + WordLen <= Len(d)
    BY <1>2, <1>3, DecodeBytesReads
  <1> HIDE DEF bytes
  <1>5. res.status = bytes.status
    BY DEF lossy_string, Ok
  <1>6. res.status = "Ok" => Top.off <= Len(data) - Top.base
    BY <1>2, <1>3, <1>4, <1>5
  <1> QED
    BY <1>1, <1>4, <1>5, <1>6, TakeShape

(* The slice &data[tail_offset..] of an array is in range, although the    *)
(* code does not test it: reading the length word before it did.           *)
LEMMA OpenArrayReads ==
  ASSUME Wide, NEW d \in Seq(Byte), NEW offset \in Nat,
         offset + WordLen < UsizeSize
  PROVE  LET r == open_array(d, offset)
         IN  /\ r.status \in {"Ok", "Err"}
             /\ r.status = "Ok" => /\ offset + WordLen <= Len(d)
                                   /\ r.val.base \in Nat /\ r.val.base <= Len(d)
                                   /\ r.val.count \in Nat
  <1>0. WordLen \in Nat /\ WordLen > 4 /\ U32 \in Nat /\ UsizeSize \in Nat
        /\ 2 * (U32 + 2 * WordLen) <= UsizeSize
    BY WordAssumption, RadixFacts DEF Wide
  <1> DEFINE len_offset == peek_usize(d, offset)
             len == peek_usize(d, len_offset.val)
             from == UAdd(len_offset.val, WordLen)
             r == open_array(d, offset)
  <1>1. r = IF len_offset.status # "Ok" THEN len_offset
            ELSE IF len.status # "Ok" THEN len
            ELSE IF from > Len(d) THEN Panic
            ELSE Ok([base |-> from, count |-> len.val])
    BY DEF open_array
  <1>2. /\ len_offset.status \in {"Ok", "Err"}
        /\ len_offset.status = "Ok" =>
             /\ len_offset.val \in Nat /\ len_offset.val < U32
             /\ offset + WordLen <= Len(d)
    BY PeekUsizeSafe
  <1>3. ASSUME len_offset.status = "Ok"
        PROVE  /\ len.status \in {"Ok", "Err"}
               /\ len.status = "Ok" => /\ len.val \in Nat
                                       /\ from \in Nat /\ from <= Len(d)
    <2>1. len_offset.val \in Nat /\ len_offset.val + WordLen < UsizeSize
      BY <1>0, <1>2, <1>3
    <2>2. from = len_offset.val + WordLen
      BY <1>0, <2>1, UAddExact
    <2>3. /\ len.status \in {"Ok", "Err"}
          /\ len.status = "Ok" => /\ len.val \in Nat
                                  /\ len_offset.val + WordLen <= Len(d)
      BY <2>1, PeekUsizeSafe
    <2> QED
      BY <1>0, <2>1, <2>2, <2>3
  <1> HIDE DEF len_offset, len, from, r
  <1>4. CASE len_offset.status # "Ok"
    BY <1>1, <1>2, <1>4 DEF r
  <1>5. CASE len_offset.status = "Ok" /\ len.status # "Ok"
    BY <1>1, <1>2, <1>3, <1>5 DEF r
  <1>6. CASE len_offset.status = "Ok" /\ len.status = "Ok"
    <2>1. from \in Nat /\ from <= Len(d) /\ Len(d) \in Nat /\ len.val \in Nat
      BY <1>3, <1>6
    <2>2. r = Ok([base |-> from, count |-> len.val])
      BY <1>1, <1>6, <2>1
    <2> QED
      BY <1>2, <1>6, <2>1, <2>2 DEF r, Ok
  <1> QED
    BY <1>4, <1>5, <1>6

(* The arm of arrays opens a call on a tail inside the data. *)
LEMMA DecodeArrayShape ==
  ASSUME IInv, Wide, DecodeArray
  PROVE  Opening \/ Failing
  <1> DEFINE d == View(Top)
             res == open_array(d, Top.off)
             f == [kind |-> "Array", elems |-> Elem(Top).subs, dyn |-> TRUE,
                   base |-> Top.base + res.val.base, off |-> 0,
                   next |-> 1, count |-> res.val.count]
  <1>1. /\ status = "running" /\ Top.next <= Top.count
        /\ Elem(Top).kind = "Array"
        /\ \/ res.status = "Ok" /\ TryOpen(f)
           \/ res.status # "Ok" /\ Return(res.status)
    BY DEF DecodeArray, Decoding
  <1>2. /\ Top \in Frame /\ d \in Seq(Byte) /\ Len(d) = Len(data) - Top.base
        /\ Top.off + WordLen < UsizeSize /\ WordLen \in Nat /\ Len(data) \in Nat
    BY <1>1, TopFacts
  <1>3. Top.off \in Nat /\ Top.base \in Nat
    BY <1>2, FrameFields
  <1>4. Elem(Top).subs \in Seq(ParamTypes) /\ Len(Elem(Top).subs) = 1
    BY <1>1, ElemType, TypeFields
  <1> HIDE DEF d
  <1>5. /\ res.status \in {"Ok", "Err"}
        /\ res.status = "Ok" => /\ Top.off + WordLen <= Len(d)
                                /\ res.val.base \in Nat /\ res.val.base <= Len(d)
                                /\ res.val.count \in Nat
    BY <1>2, <1>3, OpenArrayReads
  <1> HIDE DEF res
  <1>6. CASE res.status = "Ok" /\ Open(f)
    <2>1. f \in Frame
      BY <1>3, <1>4, <1>5, <1>6 DEF Frame, FrameKinds
    <2>2. FrameOK(f)
      BY <1>2, <1>3, <1>4, <1>5, <1>6 DEF FrameOK
    <2>3. CalledBy(f, Top)
      BY <1>1, <1>2, <1>5, <1>6 DEF CalledBy
    <2>4. Opened(f, Top)
      <3>1. Elem(Top) \in DynamicTypes
        BY <1>1, ElemType, IsDynamic DEF DynamicTypes
      <3> QED
        BY <1>1, <3>1 DEF Opened
    <2>5. f.next = 1 /\ f.dyn = TRUE /\ f.off = 0
      OBVIOUS
    <2> HIDE DEF f
    <2> QED
      BY <1>1, <1>6, <2>1, <2>2, <2>3, <2>4, <2>5 DEF Opening
  <1>7. CASE Return("Err")
    BY <1>7 DEF Failing
  <1> QED
    BY <1>1, <1>5, <1>6, <1>7 DEF TryOpen

(* The frame of a fixed array or a tuple is in range where it starts. *)
LEMMA ComponentFrameTypes ==
  ASSUME NEW t \in ParamTypes, t.kind \in {"FixedArray", "Tuple"},
         NEW dyn \in BOOLEAN, NEW base \in Nat, NEW off \in Nat,
         base <= Len(data), off <= Len(data) - base + WordLen
  PROVE  LET f == ComponentFrame(t, dyn, base, off)
         IN  f \in Frame /\ FrameOK(f) /\ f.kind # "Params"
  <1>1. t.subs \in Seq(ParamTypes) /\ Len(t.subs) \in Nat /\ t.size \in Nat
        /\ (t.kind = "FixedArray" => Len(t.subs) = 1)
    BY TypeFields
  <1> DEFINE f == ComponentFrame(t, dyn, base, off)
             count == IF t.kind = "Tuple" THEN Len(t.subs) ELSE t.size
  <1>2. count \in Nat
    BY <1>1
  <1>3. f = [kind |-> t.kind, elems |-> t.subs, dyn |-> dyn, base |-> base,
             off |-> off, next |-> 1, count |-> count]
    BY DEF ComponentFrame
  <1>4. (t.kind = "Tuple" => count = Len(t.subs)) /\ t.kind \in FrameKinds
    BY DEF FrameKinds
  <1> HIDE DEF count, f
  <1>5. f \in Frame
    BY <1>1, <1>2, <1>3, <1>4 DEF Frame
  <1>6. FrameOK(f)
    BY <1>1, <1>2, <1>3, <1>4 DEF FrameOK
  <1> QED
    BY <1>3, <1>5, <1>6 DEF f

(* It is opened, unless memory runs out. *)
LEMMA OpenComponentsShape ==
  ASSUME status = "running", Top.next <= Top.count,
         NEW f \in Frame, FrameOK(f), CalledBy(f, Top), Opened(f, Top),
         f.next = 1, f.off = IF f.dyn THEN 0 ELSE Top.off,
         OpenComponents(f)
  PROVE  Opening \/ Failing
  BY DEF OpenComponents, TryOpen, Opening, Failing

(* A static component is read in place, from its caller's slice. *)
LEMMA DecodeStaticComponentsShape ==
  ASSUME IInv, Wide, DecodeStaticComponents
  PROVE  Opening \/ Failing
  <1> DEFINE f == ComponentFrame(Elem(Top), FALSE, Top.base, Top.off)
  <1>1. /\ status = "running" /\ Top.next <= Top.count
        /\ Elem(Top).kind \in {"FixedArray", "Tuple"} /\ OpenComponents(f)
        /\ Elem(Top) \notin DynamicTypes
    BY DEF DecodeStaticComponents, Decoding
  <1>2. Top \in Frame /\ FrameOK(Top) /\ Elem(Top) \in ParamTypes
    BY <1>1, TopFacts, ElemType
  <1>3. Top.off \in Nat /\ Top.base \in Nat
    BY <1>2, FrameFields
  <1>4. f \in Frame /\ FrameOK(f) /\ f.kind # "Params"
    BY <1>1, <1>2, <1>3, ComponentFrameTypes DEF FrameOK
  <1>5. CalledBy(f, Top)
    BY <1>1, <1>4 DEF CalledBy, ComponentFrame
  <1>6. Opened(f, Top) /\ f.next = 1 /\ f.off = IF f.dyn THEN 0 ELSE Top.off
    BY <1>1 DEF Opened, ComponentFrame
  <1> HIDE DEF f
  <1> QED
    BY <1>1, <1>4, <1>5, <1>6, OpenComponentsShape

(* A dynamic component is read from a tail inside the data. *)
LEMMA DecodeDynamicComponentsShape ==
  ASSUME IInv, Wide, DecodeDynamicComponents
  PROVE  Opening \/ Failing
  <1> DEFINE d == View(Top)
             tail == peek_usize(d, Top.off)
             res == open_tail(d, Top.off)
             f == ComponentFrame(Elem(Top), TRUE, Top.base + res.val, 0)
  <1>1. /\ status = "running" /\ Top.next <= Top.count
        /\ Elem(Top).kind \in {"FixedArray", "Tuple"}
        /\ Elem(Top) \in DynamicTypes
        /\ \/ res.status = "Ok" /\ OpenComponents(f)
           \/ res.status # "Ok" /\ Return(res.status)
    BY DEF DecodeDynamicComponents, Decoding
  <1>2. /\ Top \in Frame /\ d \in Seq(Byte) /\ Len(d) = Len(data) - Top.base
        /\ Top.off + WordLen < UsizeSize /\ WordLen \in Nat /\ Len(data) \in Nat
        /\ Elem(Top) \in ParamTypes
    BY <1>1, TopFacts, ElemType
  <1>3. Top.off \in Nat /\ Top.base \in Nat
    BY <1>2, FrameFields
  <1> HIDE DEF d
  <1>4. /\ tail.status \in {"Ok", "Err"}
        /\ tail.status = "Ok" => tail.val \in Nat /\ Top.off + WordLen <= Len(d)
    BY <1>2, <1>3, PeekUsizeSafe
  <1>5. res = IF tail.status = "Ok" /\ tail.val > Len(d) THEN Err ELSE tail
    BY DEF open_tail
  <1> HIDE DEF tail, res
  <1>6. /\ res.status \in {"Ok", "Err"}
        /\ res.status = "Ok" => /\ res.val \in Nat /\ res.val <= Len(d)
                                /\ Top.off + WordLen <= Len(d)
    BY <1>2, <1>4, <1>5 DEF Err
  <1>7. CASE res.status = "Ok" /\ OpenComponents(f)
    <2>1. Top.base + res.val \in Nat /\ Top.base + res.val <= Len(data)
          /\ 0 <= Len(data) - (Top.base + res.val) + WordLen
      BY <1>2, <1>3, <1>6, <1>7
    <2>2. f \in Frame /\ FrameOK(f) /\ f.kind # "Params"
      BY <1>1, <1>2, <2>1, ComponentFrameTypes
    <2>3. CalledBy(f, Top)
      BY <1>1, <1>2, <1>6, <1>7, <2>2 DEF CalledBy, ComponentFrame
    <2>4. Opened(f, Top) /\ f.next = 1 /\ f.off = IF f.dyn THEN 0 ELSE Top.off
      BY <1>1 DEF Opened, ComponentFrame
    <2> HIDE DEF f
    <2> QED
      BY <1>1, <1>7, <2>2, <2>3, <2>4, OpenComponentsShape
  <1>8. CASE Return("Err")
    BY <1>8 DEF Failing
  <1> QED
    BY <1>1, <1>6, <1>7, <1>8

(* The end of decode_impl returns the tokens, or fails. *)
LEMMA FinishShape ==
  ASSUME Finish
  PROVE  Completing \/ Failing
  BY DEF Finish, Completing, Failing

(* Every step has one of these shapes. *)
LEMMA StepShape ==
  ASSUME Wide, IInv, [Next]_vars
  PROVE  \/ Beginning \/ Failing \/ Pushing \/ Opening
         \/ Leave \/ Completing \/ UNCHANGED vars
  <1>1. CASE Start                   BY <1>1, StartShape
  <1>2. CASE DecodeAddress           BY <1>2, DecodeAddressShape
  <1>3. CASE DecodeInt               BY <1>3, DecodeIntShape
  <1>4. CASE DecodeBool              BY <1>4, DecodeBoolShape
  <1>5. CASE DecodeFixedBytes        BY <1>5, DecodeFixedBytesShape
  <1>6. CASE DecodeBytes             BY <1>6, DecodeBytesShape
  <1>7. CASE DecodeString            BY <1>7, DecodeStringShape
  <1>8. CASE DecodeArray             BY <1>8, DecodeArrayShape
  <1>9. CASE DecodeStaticComponents  BY <1>9, DecodeStaticComponentsShape
  <1>10. CASE DecodeDynamicComponents BY <1>10, DecodeDynamicComponentsShape
  <1>11. CASE Leave                  BY <1>11
  <1>12. CASE Finish                 BY <1>12, FinishShape
  <1>13. CASE UNCHANGED vars         BY <1>13
  <1> QED
    BY <1>1, <1>2, <1>3, <1>4, <1>5, <1>6, <1>7, <1>8, <1>9, <1>10, <1>11,
       <1>12, <1>13 DEF Next

-----------------------------------------------------------------------------
(* Each of them keeps the invariant. *)

(* The loop of decode_impl begins on the types of the call. *)
LEMMA BeginSafe ==
  ASSUME IInv, Beginning
  PROVE  IInv'
  <1>0. /\ status' = "running" /\ stack' = <<RootFrame>> /\ acc' = << <<>> >>
        /\ UNCHANGED <<types, data, validate>>
    BY DEF Beginning
  <1>1. types \in Seq(ParamTypes) /\ Len(types) \in Nat /\ data \in Seq(Byte)
        /\ Len(data) \in Nat /\ WordLen \in Nat
    BY WordAssumption DEF IInv, TypeOK
  <1>2. RootFrame \in Frame
    BY <1>1 DEF RootFrame, Frame, FrameKinds
  <1>3. FrameOK(RootFrame) /\ RootFrame.kind = "Params"
    BY <1>1 DEF RootFrame, FrameOK
  <1> HIDE DEF RootFrame
  <1>4. /\ stack' \in Seq(Frame) /\ DOMAIN stack' = 1..1
        /\ stack'[1] = RootFrame /\ stack' # <<>>
    BY <1>0, <1>2
  <1>5. acc' = [k \in 1..1 |-> acc'[k]]
    BY <1>0
  <1>6. TypeOK'
    BY <1>0, <1>4, <1>5 DEF IInv, TypeOK
  <1>7. \A k \in DOMAIN stack' : FrameOK(stack[k])'
    BY <1>0, <1>3, <1>4 DEF FrameOK
  <1>8. StackOK'
    BY <1>0, <1>3, <1>4, <1>7 DEF StackOK
  <1> QED
    BY <1>0, <1>6, <1>8 DEF IInv, NoPanic, DataFits

(* A token is pushed, and the cursor goes on by a word. *)
LEMMA PushSafe ==
  ASSUME IInv, Wide, Pushing
  PROVE  IInv'
  <1>1. /\ status = "running" /\ Top.next <= Top.count
        /\ Top.off <= Len(data) - Top.base
    BY DEF Pushing
  <1>2. PICK val : Deliver(Token(Elem(Top).kind, val, <<>>), Top.off + WordLen)
    BY DEF Pushing
  <1>3. Top \in Frame /\ Len(data) \in Nat /\ WordLen \in Nat
    BY <1>1, TopFacts
  <1>4. Top.off + WordLen \in Nat /\ Top.off + WordLen <= Len(data) - Top.base + WordLen
    BY <1>1, <1>3, FrameFields
  <1> QED
    BY <1>1, <1>2, <1>4, DeliverSafe

(* A call that returns leaves its caller at an offset in range. *)
LEMMA LeaveSafe ==
  ASSUME IInv, Wide, Leave
  PROVE  IInv'
  <1> DEFINE n == Len(stack)
             g == stack[n - 1]
             o == NewOffset(Top, g)
             a == Advance(g, o)
             m == n - 1
  <1>1. /\ status = "running" /\ n > 1
        /\ stack' = [i \in 1..m |-> IF i < m THEN stack[i]
                                    ELSE Advance(stack[i], NewOffset(Top, stack[i]))]
        /\ acc' = [i \in 1..m |-> IF i < m THEN acc[i]
                     ELSE Append(acc[i], Token(Top.kind, <<>>, acc[n]))]
        /\ UNCHANGED <<types, data, validate, status>>
    BY DEF Leave
  <1>2. /\ n \in Nat /\ stack \in Seq(Frame) /\ DOMAIN stack = 1..n
        /\ Top \in Frame /\ FrameOK(Top) /\ Top = stack[n]
        /\ Len(data) \in Nat /\ WordLen \in Nat
    BY <1>1, TopFacts DEF IInv, TypeOK, Top
  <1>3. m \in Nat /\ m > 0 /\ m \in 1..n /\ n \in 1..n /\ n - 1 = m
    BY <1>1, <1>2
  <1> HIDE DEF n, m
  <1>4. g \in Frame /\ FrameOK(g) /\ CalledBy(Top, g) /\ g = stack[m]
    <2>1. g = stack[m] /\ stack[m] \in Frame
      BY <1>2, <1>3
    <2>2. FrameOK(stack[m])
      BY <1>2, <1>3 DEF IInv, StackOK
    <2>3. CalledBy(stack[n], stack[n - 1])
      BY <1>1, <1>2, <1>3 DEF IInv, StackOK
    <2> QED
      BY <1>2, <2>1, <2>2, <2>3
  <1> HIDE DEF g
  <1>5. /\ g.off \in Nat /\ g.base \in Nat /\ g.next \in Nat /\ g.count \in Nat
        /\ Top.off \in Nat /\ Top.base \in Nat /\ Top.dyn \in BOOLEAN
    BY <1>2, <1>4, FrameFields
  <1>6. o \in Nat /\ o <= Len(data) - g.base + WordLen
    <2>1. CASE Top.dyn
      <3>1. g.off + WordLen <= Len(data) - g.base
        BY <1>4, <2>1 DEF CalledBy
      <3>2. UAdd(g.off, WordLen) = g.off + WordLen
        <4>1. g.off + WordLen < UsizeSize
          BY <1>2, <1>5, <3>1, RadixFacts DEF IInv, DataFits
        <4> QED
          BY <1>2, <1>5, <4>1, UAddExact
      <3> QED
        BY <1>2, <1>5, <2>1, <3>1, <3>2 DEF NewOffset
    <2>2. CASE ~Top.dyn
      <3>1. Top.base = g.base /\ Top.off <= Len(data) - Top.base + WordLen
        BY <1>2, <1>4, <2>2 DEF CalledBy, FrameOK
      <3> QED
        BY <1>5, <2>2, <3>1 DEF NewOffset
    <2> QED
      BY <1>5, <2>1, <2>2
  <1> HIDE DEF o
  <1>7. /\ a \in Frame /\ a.kind = g.kind /\ a.elems = g.elems
        /\ a.dyn = g.dyn /\ a.base = g.base /\ a.count = g.count
        /\ a.off = o /\ a.next = g.next + 1
    BY <1>4, <1>6, AdvanceFields
  <1>8. FrameOK(a)
    <2>1. a.base <= Len(data) /\ a.off <= Len(data) - a.base + WordLen
      BY <1>4, <1>6, <1>7 DEF FrameOK
    <2>2. g.next <= g.count
      BY <1>4 DEF CalledBy
    <2>3. g.next \in 1..(g.count + 1)
      BY <1>4 DEF FrameOK
    <2>4. a.next \in 1..(a.count + 1)
      BY <1>5, <1>7, <2>2, <2>3
    <2>5. IF a.kind \in {"Array", "FixedArray"} THEN Len(a.elems) = 1
                                                ELSE Len(a.elems) = a.count
      BY <1>4, <1>7 DEF FrameOK
    <2> QED
      BY <2>1, <2>4, <2>5 DEF FrameOK
  <1>9. a = Advance(stack[m], NewOffset(Top, stack[m]))
    BY <1>4 DEF o
  <1> HIDE DEF a
  <1>10. /\ DOMAIN stack' = 1..m /\ stack'[m] = a
         /\ \A k \in 1..m : k # m => k \in 1..n /\ stack'[k] = stack[k]
    BY <1>1, <1>2, <1>3, <1>9
  <1>11. stack' \in Seq(Frame)
    <2>1. \A k \in 1..m : stack'[k] \in Frame
      BY <1>2, <1>7, <1>10
    <2>2. stack' \in [1..m -> Frame]
      BY <1>1, <2>1, <1>10
    <2> QED
      BY <1>3, <2>2
  <1>12. acc' = [k \in DOMAIN stack' |-> acc'[k]]
    BY <1>1, <1>10
  <1>13. TypeOK'
    BY <1>1, <1>11, <1>12 DEF IInv, TypeOK
  <1>14. \A k \in DOMAIN stack' : FrameOK(stack[k])'
    <2>1. \A k \in 1..m : FrameOK(stack'[k])
      BY <1>2, <1>8, <1>10 DEF IInv, StackOK
    <2> QED
      BY <1>1, <1>10, <2>1 DEF FrameOK
  <1>15. \A k \in DOMAIN stack' : k > 1 => CalledBy(stack[k], stack[k - 1])'
    <2>1. ASSUME NEW k \in 1..m, k > 1
          PROVE  CalledBy(stack'[k], stack'[k - 1])
      <3>1. k - 1 \in 1..m /\ k - 1 # m /\ k \in 1..n
        BY <1>2, <1>3, <2>1
      <3>2. stack'[k - 1] = stack[k - 1] /\ CalledBy(stack[k], stack[k - 1])
        BY <1>2, <1>10, <2>1, <3>1 DEF IInv, StackOK
      <3>3. CASE k # m
        BY <1>10, <2>1, <3>2, <3>3
      <3>4. CASE k = m
        BY <1>4, <1>7, <1>10, <3>2, <3>4 DEF CalledBy
      <3> QED
        BY <3>3, <3>4
    <2> QED
      BY <1>1, <1>10, <2>1 DEF CalledBy
  <1>16. stack' # <<>> /\ stack'[1].kind = "Params"
    <2>1. 1 \in 1..m /\ stack[1].kind = "Params"
      BY <1>2, <1>3 DEF IInv, StackOK
    <2>2. stack'[1].kind = "Params"
      <3>1. CASE m = 1
        BY <1>4, <1>7, <1>10, <2>1, <3>1
      <3>2. CASE m # 1
        BY <1>10, <2>1, <3>2
      <3> QED
        BY <3>1, <3>2
    <2>3. stack' # <<>>
      BY <1>3, <1>10, <1>11
    <2> QED
      BY <2>2, <2>3
  <1>17. StackOK'
    BY <1>1, <1>14, <1>15, <1>16 DEF StackOK
  <1> QED
    BY <1>1, <1>13, <1>17 DEF IInv, NoPanic, DataFits

(* The end of decode_impl changes nothing but the status. *)
LEMMA CompleteSafe ==
  ASSUME IInv, Completing
  PROVE  IInv'
  BY DEF IInv, TypeOK, StackOK, NoPanic, DataFits, FrameOK, CalledBy, Outcomes,
         Completing

(* A step that changes nothing keeps the invariant. *)
LEMMA StutterSafe ==
  ASSUME IInv, UNCHANGED vars
  PROVE  IInv'
  BY DEF IInv, TypeOK, StackOK, NoPanic, DataFits, FrameOK, CalledBy, vars

-----------------------------------------------------------------------------
(* A call begins in the invariant. *)
LEMMA InitSafe == Init => IInv
  <1> SUFFICES ASSUME Init PROVE IInv
    OBVIOUS
  <1>1. PICK input \in Inputs : types = input.types /\ data = input.data
    BY DEF Init
  <1>2. types \in Seq(ParamTypes) /\ data \in Seq(Byte) /\ DataFits
    BY <1>1, InputsAssumption DEF DataFits
  <1>3. validate \in BOOLEAN /\ stack = <<>> /\ acc = <<>> /\ status = "start"
    BY DEF Init
  <1>4. stack \in Seq(Frame) /\ acc = [k \in DOMAIN stack |-> acc[k]]
    BY <1>3
  <1> QED
    BY <1>2, <1>3, <1>4 DEF IInv, TypeOK, StackOK, NoPanic

(* Every step of the decoder keeps its cursors inside the data. *)
LEMMA StepSafe == Wide /\ IInv /\ [Next]_vars => IInv'
  <1> SUFFICES ASSUME Wide, IInv, [Next]_vars PROVE IInv'
    OBVIOUS
  <1>1. CASE Beginning       BY <1>1, BeginSafe
  <1>2. CASE Failing         BY <1>2, ReturnErr DEF Failing
  <1>3. CASE Pushing         BY <1>3, PushSafe
  <1>4. CASE Opening         BY <1>4, OpenSafe DEF Opening
  <1>5. CASE Leave           BY <1>5, LeaveSafe
  <1>6. CASE Completing      BY <1>6, CompleteSafe
  <1>7. CASE UNCHANGED vars  BY <1>7, StutterSafe
  <1> QED
    BY <1>1, <1>2, <1>3, <1>4, <1>5, <1>6, <1>7, StepShape

(* The invariant holds of every call. *)
LEMMA Inductive == ASSUME Wide PROVE Spec => []IInv
  <1>1. Init => IInv
    BY InitSafe
  <1>2. IInv /\ [Next]_vars => IInv'
    BY StepSafe
  <1> QED
    BY <1>1, <1>2, PTL DEF Spec

(* The variables of the decoder keep their types, for every set of types,  *)
(* all data and both modes: the frames that are opened are frames of the   *)
(* types of the call.                                                      *)
THEOREM TypeCorrect == ASSUME Wide PROVE Spec => []TypeOK
  <1>1. IInv => TypeOK
    BY DEF IInv
  <1> QED
    BY <1>1, Inductive, PTL

(* All open calls read inside the data: base, offset and element number of *)
(* each stay in range, and a caller has room for the word it steps over.   *)
THEOREM CursorsInRange == ASSUME Wide PROVE Spec => []StackOK
  <1>1. IInv => StackOK
    BY DEF IInv
  <1> QED
    BY <1>1, Inductive, PTL

(* decode and decode_validate never panic on a slice index, whatever the   *)
(* types and the data, when usize is wider than u32.                       *)
THEOREM NeverPanics == ASSUME Wide PROVE Spec => []NoPanic
  <1>1. IInv => NoPanic
    BY DEF IInv
  <1> QED
    BY <1>1, Inductive, PTL

-----------------------------------------------------------------------------
(* decode follows its types.  FollowsTypes is not inductive: a call that   *)
(* returns must hand its caller a token of the kind it was opened on, with *)
(* as many elements as the type asks for.                                  *)

(* v is what f has pushed: a token of the right kind per element passed.   *)
FilledBy(f, v) ==
  /\ v = [i \in 1..(f.next - 1) |-> v[i]]
  /\ \A i \in 1..(f.next - 1) : v[i].kind = ElemAt(f, i).kind

TypedCalls ==
  /\ stack # <<>> => stack[1].elems = types
  /\ \A k \in DOMAIN stack : k > 1 => Opened(stack[k], stack[k - 1])
  /\ \A k \in DOMAIN stack : FilledBy(stack[k], acc[k])

TInv == IInv /\ TypedCalls

(* The element types of a frame do not depend on its cursor. *)
LEMMA ElemAtFixed ==
  ASSUME NEW f, NEW g, f.kind = g.kind, f.elems = g.elems
  PROVE  \A i : ElemAt(f, i) = ElemAt(g, i)
  BY DEF ElemAt

(* Pushing a token of the right kind onto what f has pushed. *)
LEMMA FilledByAppend ==
  ASSUME NEW f \in Frame, f.next >= 1, NEW g, g.kind = f.kind, g.elems = f.elems,
         g.next = f.next + 1, NEW v, FilledBy(f, v),
         NEW token, token.kind = Elem(f).kind
  PROVE  FilledBy(g, Append(v, token))
  <1> DEFINE n == f.next - 1
             w == Append(v, token)
  <1>1. n \in Nat /\ f.next = n + 1 /\ g.next - 1 = n + 1
    BY FrameFields
  <1>2. v = [i \in 1..n |-> v[i]] /\ \A i \in 1..n : v[i].kind = ElemAt(f, i).kind
    BY DEF FilledBy
  <1> HIDE DEF n
  <1>3. w = [i \in 1..(n + 1) |-> w[i]]
    BY <1>1, <1>2, AppendVectors
  <1>4. Len(v) = n
    BY <1>1, <1>2
  <1>5. \A i \in 1..n : w[i] = v[i]
    BY <1>1, <1>2, <1>4
  <1>6. w[n + 1] = token
    BY <1>1, <1>2, <1>4
  <1> HIDE DEF w
  <1>7. \A i \in 1..(n + 1) : w[i].kind = ElemAt(g, i).kind
    <2>1. \A i : ElemAt(g, i) = ElemAt(f, i)
      BY ElemAtFixed
    <2>2. ASSUME NEW i \in 1..(n + 1)
          PROVE  w[i].kind = ElemAt(f, i).kind
      <3>1. CASE i = n + 1
        BY <1>1, <1>6, <3>1 DEF Elem
      <3>2. CASE i # n + 1
        <4>1. i \in 1..n
          BY <1>1, <3>2
        <4> QED
          BY <1>2, <1>5, <4>1
      <3> QED
        BY <3>1, <3>2
    <2> QED
      BY <2>1, <2>2
  <1> QED
    BY <1>1, <1>3, <1>7 DEF FilledBy, w

(* The open calls after a token was pushed. *)
LEMMA AfterPush ==
  ASSUME IInv, Wide, status = "running",
         NEW token, NEW o \in Nat, Deliver(token, o)
  PROVE  LET n == Len(stack)
             f == stack'[n]
         IN  /\ n \in Nat /\ n > 0 /\ DOMAIN stack = 1..n /\ DOMAIN stack' = 1..n
             /\ Top = stack[n] /\ Top \in Frame
             /\ f.kind = Top.kind /\ f.elems = Top.elems /\ f.dyn = Top.dyn
             /\ f.base = Top.base /\ f.count = Top.count
             /\ f.off = o /\ f.next = Top.next + 1
             /\ acc'[n] = Append(acc[n], token)
             /\ \A k \in 1..n : k # n => stack'[k] = stack[k] /\ acc'[k] = acc[k]
             /\ UNCHANGED <<types, data, validate, status>>
  <1> DEFINE n == Len(stack)
             a == Advance(Top, o)
  <1>1. /\ n \in Nat /\ n > 0 /\ Top \in Frame /\ stack \in Seq(Frame)
        /\ DOMAIN stack = 1..n /\ Top = stack[n]
    BY TopFacts DEF IInv, TypeOK, Top
  <1>2. /\ stack' = [stack EXCEPT ![n] = a]
        /\ acc' = [acc EXCEPT ![n] = Append(acc[n], token)]
        /\ UNCHANGED <<types, data, validate, status>>
    BY DEF Deliver, Top
  <1>3. /\ a.kind = Top.kind /\ a.elems = Top.elems /\ a.dyn = Top.dyn
        /\ a.base = Top.base /\ a.count = Top.count
        /\ a.off = o /\ a.next = Top.next + 1
    BY <1>1, AdvanceFields
  <1> HIDE DEF a
  <1>4. DOMAIN acc = 1..n
    BY <1>1 DEF IInv, TypeOK
  <1> HIDE DEF n
  <1>5. /\ DOMAIN stack' = 1..n /\ stack'[n] = a
        /\ acc'[n] = Append(acc[n], token)
        /\ \A k \in 1..n : k # n => stack'[k] = stack[k] /\ acc'[k] = acc[k]
    BY <1>1, <1>2, <1>4
  <1> QED
    BY <1>1, <1>2, <1>3, <1>5 DEF n

(* The open calls after another one was opened. *)
LEMMA AfterOpen ==
  ASSUME IInv, Wide, status = "running", NEW f \in Frame, Open(f)
  PROVE  LET n == Len(stack)
         IN  /\ n \in Nat /\ n > 0 /\ Top = stack[n] /\ Top \in Frame
             /\ DOMAIN stack = 1..n /\ DOMAIN stack' = 1..(n + 1)
             /\ stack'[n + 1] = f /\ acc'[n + 1] = <<>>
             /\ \A k \in 1..n : stack'[k] = stack[k] /\ acc'[k] = acc[k]
             /\ UNCHANGED <<types, data, validate, status>>
  <1> DEFINE n == Len(stack)
  <1>1. /\ n \in Nat /\ n > 0 /\ Top \in Frame /\ stack \in Seq(Frame)
        /\ DOMAIN stack = 1..n /\ Top = stack[n]
    BY TopFacts DEF IInv, TypeOK, Top
  <1>2. /\ stack' = Append(stack, f) /\ acc' = Append(acc, <<>>)
        /\ UNCHANGED <<types, data, validate, status>>
    BY DEF Open
  <1>3. /\ DOMAIN stack' = 1..(n + 1) /\ stack'[n + 1] = f
        /\ \A k \in 1..n : stack'[k] = stack[k]
    BY <1>1, <1>2, AppendProperties
  <1>4. acc = [k \in 1..n |-> acc[k]]
    BY <1>1 DEF IInv, TypeOK
  <1> HIDE DEF n
  <1>5. Len(acc) = n
    BY <1>1, <1>4
  <1>6. acc'[n + 1] = <<>> /\ \A k \in 1..n : acc'[k] = acc[k]
    BY <1>1, <1>2, <1>4, <1>5
  <1> QED
    BY <1>1, <1>2, <1>3, <1>6 DEF n

(* The open calls after the innermost returned. *)
LEMMA AfterLeave ==
  ASSUME IInv, Wide, Leave
  PROVE  LET n == Len(stack)
             m == n - 1
             g == stack[m]
             f == stack'[m]
         IN  /\ n \in Nat /\ m \in Nat /\ m > 0 /\ n = m + 1
             /\ DOMAIN stack = 1..n /\ DOMAIN stack' = 1..m
             /\ Top = stack[n] /\ Top \in Frame /\ g \in Frame
             /\ CalledBy(Top, g) /\ FrameOK(Top) /\ Top.next > Top.count
             /\ f.kind = g.kind /\ f.elems = g.elems /\ f.dyn = g.dyn
             /\ f.base = g.base /\ f.count = g.count /\ f.next = g.next + 1
             /\ f.off = IF Top.dyn THEN g.off + WordLen ELSE Top.off
             /\ acc'[m] = Append(acc[m], Token(Top.kind, <<>>, acc[n]))
             /\ \A k \in 1..m : k # m => stack'[k] = stack[k] /\ acc'[k] = acc[k]
             /\ UNCHANGED <<types, data, validate, status>>
  <1> DEFINE n == Len(stack)
             m == n - 1
             g == stack[m]
             o == NewOffset(Top, g)
             a == Advance(g, o)
  <1>1. /\ status = "running" /\ n > 1 /\ Top.next > Top.count
        /\ stack' = [i \in 1..m |-> IF i < m THEN stack[i]
                                    ELSE Advance(stack[i], NewOffset(Top, stack[i]))]
        /\ acc' = [i \in 1..m |-> IF i < m THEN acc[i]
                     ELSE Append(acc[i], Token(Top.kind, <<>>, acc[n]))]
        /\ UNCHANGED <<types, data, validate, status>>
    BY DEF Leave
  <1>2. /\ n \in Nat /\ stack \in Seq(Frame) /\ DOMAIN stack = 1..n
        /\ Top \in Frame /\ FrameOK(Top) /\ Top = stack[n]
        /\ Len(data) \in Nat /\ WordLen \in Nat
    BY <1>1, TopFacts DEF IInv, TypeOK, Top
  <1>3. m \in Nat /\ m > 0 /\ m \in 1..n /\ n \in 1..n /\ n - 1 = m /\ n = m + 1
    BY <1>1, <1>2
  <1> HIDE DEF n, m
  <1>4. g \in Frame /\ CalledBy(Top, g)
    <2>1. CalledBy(stack[n], stack[n - 1])
      BY <1>1, <1>2, <1>3 DEF IInv, StackOK
    <2> QED
      BY <1>2, <1>3, <2>1
  <1> HIDE DEF g
  <1>5. g.off \in Nat /\ g.base \in Nat /\ Top.off \in Nat /\ Top.dyn \in BOOLEAN
    BY <1>2, <1>4, FrameFields
  <1>6. o \in Nat /\ o = IF Top.dyn THEN g.off + WordLen ELSE Top.off
    <2>1. CASE Top.dyn
      <3>1. g.off + WordLen < UsizeSize
        BY <1>2, <1>4, <1>5, <2>1, RadixFacts DEF IInv, DataFits, CalledBy
      <3>2. UAdd(g.off, WordLen) = g.off + WordLen
        BY <1>2, <1>5, <3>1, UAddExact
      <3> QED
        BY <1>2, <1>5, <2>1, <3>2 DEF NewOffset
    <2>2. CASE ~Top.dyn
      BY <1>5, <2>2 DEF NewOffset
    <2> QED
      BY <1>5, <2>1, <2>2
  <1> HIDE DEF o
  <1>7. /\ a.kind = g.kind /\ a.elems = g.elems /\ a.dyn = g.dyn
        /\ a.base = g.base /\ a.count = g.count
        /\ a.off = o /\ a.next = g.next + 1
    BY <1>4, <1>6, AdvanceFields
  <1>8. a = Advance(stack[m], NewOffset(Top, stack[m]))
    BY DEF o, g
  <1> HIDE DEF a
  <1>9. /\ DOMAIN stack' = 1..m /\ stack'[m] = a
        /\ acc'[m] = Append(acc[m], Token(Top.kind, <<>>, acc[n]))
        /\ \A k \in 1..m : k # m => stack'[k] = stack[k] /\ acc'[k] = acc[k]
    BY <1>1, <1>2, <1>3, <1>8
  <1> QED
    BY <1>1, <1>2, <1>3, <1>4, <1>6, <1>7, <1>9 DEF n, m, g

(* f keeps its place over a caller that keeps its own. *)
LEMMA OpenedFixed ==
  ASSUME NEW f, NEW g, NEW h, NEW i, Opened(f, g),
         h.kind = f.kind, h.elems = f.elems, h.dyn = f.dyn, h.count = f.count
  PROVE  Opened(h, g)
  BY DEF Opened

(* decode_impl's loop begins on the argument types, with an empty vector. *)
LEMMA BeginTyped ==
  ASSUME TInv, Beginning
  PROVE  TypedCalls'
  <1>1. /\ stack' = <<RootFrame>> /\ acc' = << <<>> >> /\ types' = types
    BY DEF Beginning
  <1>2. RootFrame.elems = types /\ RootFrame.next = 1
    BY DEF RootFrame
  <1> HIDE DEF RootFrame
  <1>3. DOMAIN stack' = {1} /\ stack'[1] = RootFrame /\ acc'[1] = <<>>
    BY <1>1
  <1>4. FilledBy(RootFrame, <<>>)
    BY <1>2 DEF FilledBy
  <1>5. FilledBy(stack[1], acc[1])'
    BY <1>3, <1>4 DEF FilledBy, ElemAt
  <1> QED
    BY <1>1, <1>2, <1>3, <1>5 DEF TypedCalls

(* The token that is pushed is of the kind that the call is at. *)
LEMMA PushTyped ==
  ASSUME TInv, Wide, Pushing
  PROVE  TypedCalls'
  <1> DEFINE n == Len(stack)
             o == Top.off + WordLen
             g == stack'[n]
  <1>1. PICK val : Deliver(Token(Elem(Top).kind, val, <<>>), o)
    BY DEF Pushing
  <1> DEFINE token == Token(Elem(Top).kind, val, <<>>)
  <1>2. status = "running" /\ IInv /\ TypedCalls
    BY DEF Pushing, TInv
  <1>3. o \in Nat
    BY <1>2, TopFacts, FrameFields, WordAssumption
  <1> HIDE DEF o
  <1>4. /\ n \in Nat /\ n > 0 /\ DOMAIN stack = 1..n /\ DOMAIN stack' = 1..n
        /\ Top = stack[n] /\ Top \in Frame
        /\ g.kind = Top.kind /\ g.elems = Top.elems /\ g.dyn = Top.dyn
        /\ g.base = Top.base /\ g.count = Top.count
        /\ g.off = o /\ g.next = Top.next + 1
        /\ acc'[n] = Append(acc[n], token)
        /\ \A k \in 1..n : k # n => stack'[k] = stack[k] /\ acc'[k] = acc[k]
        /\ UNCHANGED <<types, data, validate, status>>
    BY <1>1, <1>2, <1>3, AfterPush
  <1> HIDE DEF n, g
  <1>5. FilledBy(g, acc'[n])
    <2>1. Top.next >= 1
      BY <1>2, TopFacts DEF FrameOK
    <2>2. FilledBy(Top, acc[n])
      BY <1>2, <1>4 DEF TypedCalls
    <2>3. token.kind = Elem(Top).kind
      BY DEF Token
    <2> HIDE DEF token
    <2> QED
      BY <1>4, <2>1, <2>2, <2>3, FilledByAppend
  <1>6. ASSUME NEW k \in 1..n
        PROVE  FilledBy(stack'[k], acc'[k])
    <2>1. CASE k = n
      BY <1>5, <2>1 DEF g
    <2>2. CASE k # n
      BY <1>2, <1>4, <2>2 DEF TypedCalls
    <2> QED
      BY <2>1, <2>2
  <1>7. ASSUME NEW k \in 1..n, k > 1
        PROVE  Opened(stack'[k], stack'[k - 1])
    <2>1. k - 1 \in 1..n /\ k - 1 # n
      BY <1>4, <1>7
    <2>2. stack'[k - 1] = stack[k - 1] /\ Opened(stack[k], stack[k - 1])
      BY <1>2, <1>4, <1>7, <2>1 DEF TypedCalls
    <2>3. CASE k = n
      BY <1>4, <2>2, <2>3, OpenedFixed DEF g
    <2>4. CASE k # n
      BY <1>4, <2>2, <2>4
    <2> QED
      BY <2>3, <2>4
  <1>8. stack'[1].elems = types'
    <2>1. 1 \in 1..n /\ stack[1].elems = types
      BY <1>2, <1>4 DEF TypedCalls
    <2> QED
      BY <1>4, <2>1 DEF g
  <1>9. \A k \in DOMAIN stack' : FilledBy(stack[k], acc[k])'
    BY <1>4, <1>6 DEF FilledBy, ElemAt
  <1>10. \A k \in DOMAIN stack' : k > 1 => Opened(stack[k], stack[k - 1])'
    BY <1>4, <1>7 DEF Opened, Elem, ElemAt
  <1> QED
    BY <1>8, <1>9, <1>10 DEF TypedCalls

(* A call is opened on the type that its caller is at. *)
LEMMA OpenTyped ==
  ASSUME TInv, Wide, Opening
  PROVE  TypedCalls'
  <1> DEFINE n == Len(stack)
  <1>1. status = "running" /\ IInv /\ TypedCalls
    BY DEF Opening, TInv
  <1>2. PICK f \in Frame : f.next = 1 /\ Opened(f, Top) /\ Open(f)
    BY DEF Opening
  <1>3. /\ n \in Nat /\ n > 0 /\ Top = stack[n] /\ Top \in Frame
        /\ DOMAIN stack = 1..n /\ DOMAIN stack' = 1..(n + 1)
        /\ stack'[n + 1] = f /\ acc'[n + 1] = <<>>
        /\ \A k \in 1..n : stack'[k] = stack[k] /\ acc'[k] = acc[k]
        /\ UNCHANGED <<types, data, validate, status>>
    BY <1>1, <1>2, AfterOpen
  <1> HIDE DEF n
  <1>4. FilledBy(f, <<>>)
    BY <1>2 DEF FilledBy
  <1>5. ASSUME NEW k \in 1..(n + 1)
        PROVE  FilledBy(stack'[k], acc'[k])
    <2>1. CASE k = n + 1
      BY <1>3, <1>4, <2>1
    <2>2. CASE k # n + 1
      <3>1. k \in 1..n
        BY <1>3, <2>2
      <3> QED
        BY <1>1, <1>3, <3>1 DEF TypedCalls
    <2> QED
      BY <2>1, <2>2
  <1>6. ASSUME NEW k \in 1..(n + 1), k > 1
        PROVE  Opened(stack'[k], stack'[k - 1])
    <2>1. k - 1 \in 1..n /\ stack'[k - 1] = stack[k - 1]
      BY <1>3, <1>6
    <2>2. CASE k = n + 1
      <3>1. k - 1 = n
        BY <1>3, <2>2
      <3> QED
        BY <1>2, <1>3, <2>1, <2>2, <3>1
    <2>3. CASE k # n + 1
      <3>1. k \in 1..n
        BY <1>3, <2>3
      <3> QED
        BY <1>1, <1>3, <1>6, <2>1, <3>1 DEF TypedCalls
    <2> QED
      BY <2>2, <2>3
  <1>7. stack'[1].elems = types'
    <2>1. 1 \in 1..n /\ stack[1].elems = types
      BY <1>1, <1>3 DEF TypedCalls
    <2> QED
      BY <1>3, <2>1
  <1>8. \A k \in DOMAIN stack' : FilledBy(stack[k], acc[k])'
    BY <1>3, <1>5 DEF FilledBy, ElemAt
  <1>9. \A k \in DOMAIN stack' : k > 1 => Opened(stack[k], stack[k - 1])'
    BY <1>3, <1>6 DEF Opened, Elem, ElemAt
  <1> QED
    BY <1>7, <1>8, <1>9 DEF TypedCalls

(* A call hands its caller a token of the kind it was opened on. *)
LEMMA LeaveTyped ==
  ASSUME TInv, Wide, Leave
  PROVE  TypedCalls'
  <1> DEFINE n == Len(stack)
             m == n - 1
             g == stack[m]
             f == stack'[m]
             token == Token(Top.kind, <<>>, acc[n])
  <1>1. IInv /\ TypedCalls
    BY DEF TInv
  <1>2. /\ n \in Nat /\ m \in Nat /\ m > 0 /\ n = m + 1
        /\ DOMAIN stack = 1..n /\ DOMAIN stack' = 1..m
        /\ Top = stack[n] /\ g \in Frame
        /\ f.kind = g.kind /\ f.elems = g.elems /\ f.dyn = g.dyn
        /\ f.base = g.base /\ f.count = g.count /\ f.next = g.next + 1
        /\ acc'[m] = Append(acc[m], token)
        /\ \A k \in 1..m : k # m => stack'[k] = stack[k] /\ acc'[k] = acc[k]
        /\ UNCHANGED <<types, data, validate, status>>
    BY <1>1, AfterLeave
  <1>3. g = stack[m] /\ f = stack'[m]
    OBVIOUS
  <1> HIDE DEF n, m, g, f
  <1>4. FilledBy(f, acc'[m])
    <2>1. g.next >= 1
      BY <1>1, <1>2, <1>3 DEF IInv, StackOK, FrameOK
    <2>2. FilledBy(g, acc[m])
      BY <1>1, <1>2, <1>3 DEF TypedCalls
    <2>3. token.kind = Elem(g).kind
      <3>1. n \in DOMAIN stack /\ n > 1 /\ n - 1 = m
        BY <1>2
      <3>2. Opened(stack[n], stack[n - 1])
        BY <1>1, <3>1 DEF TypedCalls
      <3>3. Opened(Top, g)
        BY <1>2, <1>3, <3>1, <3>2
      <3> QED
        BY <3>3 DEF Opened, Token
    <2> HIDE DEF token
    <2> QED
      BY <1>2, <2>1, <2>2, <2>3, FilledByAppend
  <1>5. ASSUME NEW k \in 1..m
        PROVE  FilledBy(stack'[k], acc'[k])
    <2>1. CASE k = m
      BY <1>3, <1>4, <2>1
    <2>2. CASE k # m
      <3>1. k \in 1..n
        BY <1>2
      <3> QED
        BY <1>1, <1>2, <2>2, <3>1 DEF TypedCalls
    <2> QED
      BY <2>1, <2>2
  <1>6. ASSUME NEW k \in 1..m, k > 1
        PROVE  Opened(stack'[k], stack'[k - 1])
    <2>1. k - 1 \in 1..m /\ k - 1 # m /\ k \in 1..n
      BY <1>2, <1>6
    <2>2. stack'[k - 1] = stack[k - 1] /\ Opened(stack[k], stack[k - 1])
      BY <1>1, <1>2, <1>6, <2>1 DEF TypedCalls
    <2>3. CASE k = m
      BY <1>2, <1>3, <2>2, <2>3, OpenedFixed
    <2>4. CASE k # m
      BY <1>2, <2>2, <2>4
    <2> QED
      BY <2>3, <2>4
  <1>7. stack'[1].elems = types'
    <2>1. 1 \in 1..m /\ 1 \in 1..n /\ stack # <<>>
      BY <1>2
    <2>2. stack[1].elems = types
      BY <1>1, <2>1 DEF TypedCalls
    <2> QED
      BY <1>2, <1>3, <2>1, <2>2
  <1>8. \A k \in DOMAIN stack' : FilledBy(stack[k], acc[k])'
    BY <1>2, <1>5 DEF FilledBy, ElemAt
  <1>9. \A k \in DOMAIN stack' : k > 1 => Opened(stack[k], stack[k - 1])'
    BY <1>2, <1>6 DEF Opened, Elem, ElemAt
  <1> QED
    BY <1>7, <1>8, <1>9 DEF TypedCalls

(* Every step keeps the calls on their types. *)
LEMMA StepTyped == ASSUME Wide, TInv, [Next]_vars PROVE TInv'
  <1>0. IInv /\ IInv'
    BY StepSafe DEF TInv
  <1>1. ASSUME Beginning PROVE TypedCalls'
    BY <1>1, BeginTyped
  <1>2. ASSUME Failing PROVE TypedCalls'
    BY <1>2 DEF Failing, Return, TypedCalls
  <1>3. ASSUME Pushing PROVE TypedCalls'
    BY <1>3, PushTyped
  <1>4. ASSUME Opening PROVE TypedCalls'
    BY <1>4, OpenTyped
  <1>5. ASSUME Leave PROVE TypedCalls'
    BY <1>5, LeaveTyped
  <1>6. ASSUME UNCHANGED <<stack, acc, types>> PROVE TypedCalls'
    BY <1>6 DEF TInv, TypedCalls, FilledBy, Opened, Elem, ElemAt
  <1>7. ASSUME Completing PROVE TypedCalls'
    BY <1>6, <1>7 DEF Completing
  <1>8. ASSUME UNCHANGED vars PROVE TypedCalls'
    BY <1>6, <1>8 DEF vars
  <1>9. TypedCalls'
    BY <1>0, <1>1, <1>2, <1>3, <1>4, <1>5, <1>7, <1>8, StepShape
  <1> QED
    BY <1>0, <1>9 DEF TInv

(* The invariant of the types holds of every call. *)
LEMMA InductiveTyped == ASSUME Wide PROVE Spec => []TInv
  <1>1. Init => TInv
    <2>1. Init => stack = <<>>
      BY DEF Init
    <2> QED
      BY <2>1, InitSafe DEF TInv, TypedCalls
  <1>2. TInv /\ [Next]_vars => TInv'
    BY StepTyped
  <1> QED
    BY <1>1, <1>2, PTL DEF Spec

(* decode and decode_validate follow their types: at all times the open    *)
(* calls are on components of each other's current types, and the tokens   *)
(* read so far are of the kinds the types ask for, one for each element.   *)
THEOREM AlwaysFollowsTypes == ASSUME Wide PROVE Spec => []FollowsTypes
  <1>1. TInv => FollowsTypes
    <2> SUFFICES ASSUME TInv PROVE FollowsTypes
      OBVIOUS
    <2>1. IInv /\ TypedCalls
      BY DEF TInv
    <2>2. ASSUME NEW k \in DOMAIN stack
          PROVE  /\ Len(acc[k]) = stack[k].next - 1
                 /\ DOMAIN acc[k] = 1..(stack[k].next - 1)
      <3>1. acc[k] = [i \in 1..(stack[k].next - 1) |-> acc[k][i]]
        BY <2>1 DEF TypedCalls, FilledBy
      <3>2. stack[k].next - 1 \in Nat
        <4>1. stack[k] \in Frame /\ FrameOK(stack[k])
          BY <2>1 DEF IInv, TypeOK, StackOK
        <4> QED
          BY <4>1, FrameFields DEF FrameOK
      <3> QED
        BY <3>1, <3>2
    <2> QED
      BY <2>1, <2>2 DEF TypedCalls, FilledBy, Opened, FollowsTypes
  <1> QED
    BY <1>1, InductiveTyped, PTL


-----------------------------------------------------------------------------
(* decode reads every element at its head.  CursorAtHead is inductive once *)
(* the calls are on their types: a static call has stepped over the heads  *)
(* of all its elements when it returns, which add up to its own.           *)

(* The right side of head_size's definition. *)
HeadDef(f, t) ==
  IF t \in DynamicTypes \/ t.kind \notin {"FixedArray", "Tuple"} THEN WordLen
  ELSE IF t.kind = "FixedArray" THEN t.size * f[t.subs[1]]
  ELSE Total[[i \in DOMAIN t.subs |-> f[t.subs[i]]]]

Heads == INSTANCE Recursion WITH
  Dom <- ParamTypes, measure <- nodes, Def <- HeadDef

(* head_size obeys its definition. *)
LEMMA HeadSize == \A t \in ParamTypes : head_size[t] = HeadDef(head_size, t)
  <1>1. Heads!WellFounded
    <2>1. ASSUME NEW f, NEW g, NEW t \in ParamTypes,
                 \A u \in ParamTypes : nodes[u] < nodes[t] => f[u] = g[u]
          PROVE  HeadDef(f, t) = HeadDef(g, t)
      <3>1. \A i \in DOMAIN t.subs : f[t.subs[i]] = g[t.subs[i]]
        BY <2>1, Components
      <3>2. t.kind = "FixedArray" => 1 \in DOMAIN t.subs
        BY TypeFields
      <3>3. [i \in DOMAIN t.subs |-> f[t.subs[i]]]
              = [i \in DOMAIN t.subs |-> g[t.subs[i]]]
        BY <3>1
      <3> QED
        BY <3>1, <3>2, <3>3 DEF HeadDef
    <2> QED
      BY <2>1, FiniteTypesAssumption DEF Heads!WellFounded
  <1>2. head_size = CHOOSE f : f = [t \in ParamTypes |-> HeadDef(f, t)]
    BY DEF head_size, HeadDef
  <1>3. head_size = [t \in ParamTypes |-> HeadDef(head_size, t)]
    BY <1>1, <1>2, NaturalInduction, Heads!Defined DEF Heads!Inductive
  <1> QED
    BY <1>3

(* Heads have a length. *)
LEMMA HeadSizeNat == \A t \in ParamTypes : head_size[t] \in Nat
  <1> DEFINE S == {t \in ParamTypes : head_size[t] \in Nat}
  <1>1. ASSUME NEW t \in ParamTypes, \A i \in DOMAIN t.subs : t.subs[i] \in S
        PROVE  t \in S
    <2>1. t.subs \in Seq(ParamTypes) /\ t.size \in Nat
          /\ (t.kind = "FixedArray" => 1 \in DOMAIN t.subs)
      BY TypeFields
    <2> DEFINE ns == [i \in DOMAIN t.subs |-> head_size[t.subs[i]]]
    <2>2. ns \in Seq(Nat)
      <3>1. \A i \in DOMAIN t.subs : head_size[t.subs[i]] \in Nat
        BY <1>1
      <3>2. Len(t.subs) \in Nat /\ DOMAIN t.subs = 1..Len(t.subs)
        BY <2>1
      <3> QED
        BY <3>1, <3>2
    <2>3. Total[ns] \in Nat
      <3> HIDE DEF ns
      <3> QED BY <2>2, TotalNat
    <2>4. t.kind = "FixedArray" => t.size * head_size[t.subs[1]] \in Nat
      BY <1>1, <2>1
    <2>5. HeadDef(head_size, t) \in Nat
      BY <2>3, <2>4, WordAssumption DEF HeadDef
    <2> QED
      BY <2>5, HeadSize
  <1> HIDE DEF S
  <1>2. ParamTypes \subseteq S
    BY <1>1, TypeInduction
  <1> QED
    BY <1>2 DEF S

(* One more product. *)
LEMMA OneMore == ASSUME NEW n \in Nat, NEW h \in Nat
                 PROVE  n * h \in Nat /\ (n + 1) * h = n * h + h
  OBVIOUS

(* Stepping over an element adds its head to those before the next. *)
LEMMA HeadsStep ==
  ASSUME NEW f \in Frame, FrameOK(f), f.next <= f.count,
         NEW g, g.kind = f.kind, g.elems = f.elems, g.next = f.next + 1
  PROVE  /\ HeadsBefore(f) \in Nat /\ head_size[Elem(f)] \in Nat
         /\ HeadsBefore(g) = HeadsBefore(f) + head_size[Elem(f)]
  <1> DEFINE n == f.next - 1
  <1>1. /\ n \in Nat /\ f.next = n + 1 /\ g.next - 1 = n + 1
        /\ f.elems \in Seq(ParamTypes) /\ f.count \in Nat
    BY FrameFields DEF FrameOK
  <1>2. CASE f.kind \in {"Array", "FixedArray"}
    <2> DEFINE h == head_size[f.elems[1]]
    <2>1. h \in Nat
      BY <1>1, <1>2, HeadSizeNat DEF FrameOK
    <2>2. HeadsBefore(f) = n * h /\ HeadsBefore(g) = (n + 1) * h
      BY <1>1, <1>2 DEF HeadsBefore
    <2>3. head_size[Elem(f)] = h
      BY <1>2 DEF Elem, ElemAt
    <2> HIDE DEF h, n
    <2> QED
      BY <1>1, <2>1, <2>2, <2>3, OneMore
  <1>3. CASE f.kind \notin {"Array", "FixedArray"}
    <2> DEFINE h == [i \in 1..(n + 1) |-> head_size[f.elems[i]]]
    <2>1. Len(f.elems) = f.count
      BY <1>3 DEF FrameOK
    <2>2. \A i \in 1..(n + 1) : h[i] \in Nat /\ h[i] = head_size[f.elems[i]]
      <3>1. \A i \in 1..(n + 1) : f.elems[i] \in ParamTypes
        BY <1>1, <2>1
      <3> QED
        BY <3>1, HeadSizeNat
    <2>3. /\ HeadsBefore(f) = Total[[i \in 1..n |-> head_size[f.elems[i]]]]
          /\ HeadsBefore(g) = Total[[i \in 1..(n + 1) |-> head_size[f.elems[i]]]]
      BY <1>1, <1>3 DEF HeadsBefore
    <2>4. /\ [i \in 1..n |-> head_size[f.elems[i]]] = [i \in 1..n |-> h[i]]
          /\ [i \in 1..(n + 1) |-> head_size[f.elems[i]]]
               = [i \in 1..(n + 1) |-> h[i]]
      BY <1>1, <2>2
    <2>5. head_size[Elem(f)] = h[n + 1]
      BY <1>1, <1>3, <2>2 DEF Elem, ElemAt
    <2> HIDE DEF h, n
    <2>6. \A i \in 1..(n + 1) : h[i] \in Nat
      BY <2>2
    <2>7. /\ Total[[i \in 1..n |-> h[i]]] \in Nat
          /\ Total[[i \in 1..(n + 1) |-> h[i]]]
               = Total[[i \in 1..n |-> h[i]]] + h[n + 1]
      BY <1>1, <2>6, TotalStep
    <2>8. h[n + 1] \in Nat
      BY <1>1, <2>6
    <2> QED
      BY <2>3, <2>4, <2>5, <2>7, <2>8
  <1> QED
    BY <1>2, <1>3

(* A call that begins has no heads before its first element. *)
LEMMA HeadsStart ==
  ASSUME NEW f \in Frame, FrameOK(f), f.next = 1
  PROVE  HeadsBefore(f) = 0
  <1>1. f.elems \in Seq(ParamTypes)
    BY FrameFields
  <1>2. CASE f.kind \in {"Array", "FixedArray"}
    <2>1. head_size[f.elems[1]] \in Nat
      BY <1>1, <1>2, HeadSizeNat DEF FrameOK
    <2>2. HeadsBefore(f) = 0 * head_size[f.elems[1]]
      BY <1>2 DEF HeadsBefore
    <2> QED
      BY <2>1, <2>2
  <1>3. CASE f.kind \notin {"Array", "FixedArray"}
    <2> DEFINE h == [i \in 1..0 |-> head_size[f.elems[i]]]
    <2>1. HeadsBefore(f) = Total[[i \in 1..0 |-> head_size[f.elems[i]]]]
      BY <1>3 DEF HeadsBefore
    <2>2. [i \in 1..0 |-> head_size[f.elems[i]]] = [i \in 1..0 |-> h[i]]
      OBVIOUS
    <2> QED
      BY <2>1, <2>2, TotalEmpty
  <1> QED
    BY <1>2, <1>3

(* A static call that is done has stepped over the head of its own type. *)
LEMMA HeadsDone ==
  ASSUME NEW f \in Frame, FrameOK(f), f.next > f.count,
         NEW g, Elem(g) \in ParamTypes, Opened(f, g), f.kind # "Params", ~f.dyn
  PROVE  HeadsBefore(f) = head_size[Elem(g)]
  <1> DEFINE t == Elem(g)
  <1>1. /\ f.kind = t.kind /\ f.elems = t.subs /\ t \notin DynamicTypes
        /\ f.kind # "Array" =>
             f.count = IF t.kind = "Tuple" THEN Len(t.subs) ELSE t.size
        /\ t \in ParamTypes
    BY DEF Opened
  <1>2. f.next - 1 = f.count /\ f.elems \in Seq(ParamTypes)
    BY FrameFields DEF FrameOK
  <1> HIDE DEF t
  <1>3. t.kind # "Array"
    BY <1>1, IsDynamic DEF DynamicTypes
  <1>4. f.kind \in {"FixedArray", "Tuple"}
    BY <1>1, <1>3, FrameFields DEF FrameKinds
  <1>5. head_size[t] = HeadDef(head_size, t)
    BY <1>1, HeadSize
  <1>6. CASE t.kind = "FixedArray"
    BY <1>1, <1>2, <1>5, <1>6 DEF HeadsBefore, HeadDef, t
  <1>7. CASE t.kind = "Tuple"
    <2>1. DOMAIN t.subs = 1..(f.next - 1)
      BY <1>1, <1>2, <1>7
    <2> QED
      BY <1>1, <1>5, <1>7, <2>1 DEF HeadsBefore, HeadDef, t
  <1> QED
    BY <1>1, <1>4, <1>6, <1>7


(* The cursor of f, called by a frame at caller_off. *)
AtHead(f, caller_off) ==
  f.off = HeadsBefore(f) + (IF f.dyn THEN 0 ELSE caller_off)

CallerOff(s, k) == IF k = 1 THEN 0 ELSE s[k - 1].off

HInv == TInv /\ \A k \in DOMAIN stack : AtHead(stack[k], CallerOff(stack, k))

(* The element that an open call is at has a type. *)
LEMMA ElemOf ==
  ASSUME NEW f \in Frame, FrameOK(f), f.next <= f.count
  PROVE  Elem(f) \in ParamTypes
  <1>1. f.elems \in Seq(ParamTypes) /\ f.next \in Nat /\ f.count \in Nat
    BY FrameFields
  <1> QED
    BY <1>1 DEF Elem, ElemAt, FrameOK

(* decode_impl begins at the first head. *)
LEMMA BeginAtHead ==
  ASSUME HInv, IInv', Beginning
  PROVE  \A k \in DOMAIN stack' : AtHead(stack'[k], CallerOff(stack', k))
  <1>1. stack' = <<RootFrame>>
    BY DEF Beginning
  <1>2. RootFrame.next = 1 /\ RootFrame.off = 0
    BY DEF RootFrame
  <1> HIDE DEF RootFrame
  <1>3. DOMAIN stack' = {1} /\ stack'[1] = RootFrame
    BY <1>1
  <1>4. data' = data
    BY DEF Beginning
  <1>5. RootFrame \in Frame /\ FrameOK(RootFrame)
    <2>1. stack' \in Seq(Frame) /\ 1 \in DOMAIN stack'
      BY <1>3 DEF IInv, TypeOK
    <2>2. stack'[1] \in Frame
      BY <2>1
    <2>3. FrameOK(stack[1])'
      BY <2>1 DEF IInv, StackOK
    <2>4. FrameOK(stack'[1])
      BY <1>4, <2>3 DEF FrameOK
    <2> QED
      BY <1>3, <2>2, <2>4
  <1>6. HeadsBefore(RootFrame) = 0
    BY <1>2, <1>5, HeadsStart
  <1> QED
    BY <1>2, <1>3, <1>6 DEF AtHead, CallerOff

(* A token of one word moves the cursor over its head. *)
LEMMA PushAtHead ==
  ASSUME HInv, Wide, Pushing
  PROVE  \A k \in DOMAIN stack' : AtHead(stack'[k], CallerOff(stack', k))
  <1> DEFINE n == Len(stack)
             o == Top.off + WordLen
             f == stack'[n]
  <1>1. PICK val : Deliver(Token(Elem(Top).kind, val, <<>>), o)
    BY DEF Pushing
  <1>2. /\ status = "running" /\ IInv /\ Top.next <= Top.count
        /\ Elem(Top).kind \in LeafKinds
    BY DEF Pushing, HInv, TInv
  <1>3. Top \in Frame /\ FrameOK(Top) /\ o \in Nat /\ Top.off \in Nat
    BY <1>2, TopFacts, FrameFields, WordAssumption
  <1> HIDE DEF o
  <1>4. /\ n \in Nat /\ n > 0 /\ DOMAIN stack = 1..n /\ DOMAIN stack' = 1..n
        /\ Top = stack[n]
        /\ f.kind = Top.kind /\ f.elems = Top.elems /\ f.dyn = Top.dyn
        /\ f.off = o /\ f.next = Top.next + 1
        /\ \A k \in 1..n : k # n => stack'[k] = stack[k]
    BY <1>1, <1>2, <1>3, AfterPush
  <1> HIDE DEF n
  <1>5. head_size[Elem(Top)] = WordLen
    <2>1. Elem(Top) \in ParamTypes
      BY <1>2, ElemType
    <2>2. Elem(Top).kind \notin {"FixedArray", "Tuple"}
      BY <1>2 DEF LeafKinds
    <2> QED
      BY <2>1, <2>2, HeadSize DEF HeadDef
  <1>6. /\ HeadsBefore(Top) \in Nat /\ WordLen \in Nat
        /\ HeadsBefore(f) = HeadsBefore(Top) + WordLen
    BY <1>2, <1>3, <1>4, <1>5, HeadsStep
  <1> HIDE DEF f
  <1>7. ASSUME NEW k \in 1..n
        PROVE  AtHead(stack'[k], CallerOff(stack', k))
    <2>1. CallerOff(stack', k) = CallerOff(stack, k)
      <3>1. k # 1 => k - 1 \in 1..n /\ k - 1 # n
        BY <1>4
      <3> QED
        BY <1>4, <3>1 DEF CallerOff
    <2>2. AtHead(stack[k], CallerOff(stack, k))
      BY <1>4 DEF HInv
    <2>3. CASE k # n
      BY <1>4, <2>1, <2>2, <2>3
    <2>4. CASE k = n
      <3> DEFINE c == IF Top.dyn THEN 0 ELSE CallerOff(stack, n)
      <3>1. Top.off = HeadsBefore(Top) + c
        BY <1>4, <2>2, <2>4 DEF AtHead
      <3>2. c \in Nat
        <4>1. stack \in Seq(Frame)
          BY <1>2 DEF IInv, TypeOK
        <4>2. n # 1 => stack[n - 1] \in Frame
          BY <1>4, <4>1
        <4> QED
          BY <4>2, FrameFields DEF CallerOff
      <3> HIDE DEF c
      <3>3. f.off = HeadsBefore(f) + c
        BY <1>3, <1>4, <1>6, <3>1, <3>2 DEF o
      <3> QED
        BY <1>4, <2>1, <2>4, <3>3 DEF AtHead, c, f
    <2> QED
      BY <2>3, <2>4
  <1> QED
    BY <1>4, <1>7

(* A call begins at its first head: its caller's, or that of its own tail. *)
LEMMA OpenAtHead ==
  ASSUME HInv, Wide, Opening
  PROVE  \A k \in DOMAIN stack' : AtHead(stack'[k], CallerOff(stack', k))
  <1> DEFINE n == Len(stack)
  <1>1. status = "running" /\ IInv
    BY DEF Opening, HInv, TInv
  <1>2. PICK f \in Frame : /\ f.next = 1 /\ FrameOK(f) /\ Open(f)
                           /\ f.off = IF f.dyn THEN 0 ELSE Top.off
    BY DEF Opening
  <1>3. /\ n \in Nat /\ n > 0 /\ Top = stack[n] /\ Top \in Frame
        /\ DOMAIN stack = 1..n /\ DOMAIN stack' = 1..(n + 1)
        /\ stack'[n + 1] = f
        /\ \A k \in 1..n : stack'[k] = stack[k]
    BY <1>1, <1>2, AfterOpen
  <1> HIDE DEF n
  <1>4. AtHead(f, Top.off)
    <2>1. HeadsBefore(f) = 0
      BY <1>2, HeadsStart
    <2>2. f.off \in Nat
      BY FrameFields
    <2> QED
      BY <1>2, <2>1, <2>2 DEF AtHead
  <1>5. ASSUME NEW k \in 1..(n + 1)
        PROVE  AtHead(stack'[k], CallerOff(stack', k))
    <2>1. k # 1 => k - 1 \in 1..n
      BY <1>3
    <2>2. CASE k = n + 1
      <3>1. k # 1 /\ k - 1 = n
        BY <1>3, <2>2
      <3>2. CallerOff(stack', k) = Top.off
        BY <1>3, <2>1, <3>1 DEF CallerOff
      <3> QED
        BY <1>3, <1>4, <2>2, <3>2
    <2>3. CASE k # n + 1
      <3>1. k \in 1..n
        BY <1>3, <2>3
      <3>2. CallerOff(stack', k) = CallerOff(stack, k)
        BY <1>3, <2>1 DEF CallerOff
      <3> QED
        BY <1>3, <3>1, <3>2 DEF HInv
    <2> QED
      BY <2>2, <2>3
  <1> QED
    BY <1>3, <1>5

(* A call that returns moves its caller's cursor over the head it was on. *)
LEMMA LeaveAtHead ==
  ASSUME HInv, Wide, Leave
  PROVE  \A k \in DOMAIN stack' : AtHead(stack'[k], CallerOff(stack', k))
  <1> DEFINE n == Len(stack)
             m == n - 1
             g == stack[m]
             f == stack'[m]
  <1>1. IInv /\ TypedCalls
    BY DEF HInv, TInv
  <1>2. /\ n \in Nat /\ m \in Nat /\ m > 0 /\ n = m + 1
        /\ DOMAIN stack = 1..n /\ DOMAIN stack' = 1..m
        /\ Top = stack[n] /\ Top \in Frame /\ g \in Frame
        /\ CalledBy(Top, g) /\ FrameOK(Top) /\ Top.next > Top.count
        /\ f.kind = g.kind /\ f.elems = g.elems /\ f.dyn = g.dyn
        /\ f.next = g.next + 1
        /\ f.off = IF Top.dyn THEN g.off + WordLen ELSE Top.off
        /\ \A k \in 1..m : k # m => stack'[k] = stack[k]
    BY <1>1, AfterLeave
  <1>3. g = stack[m] /\ f = stack'[m]
    OBVIOUS
  <1> HIDE DEF n, m, g, f
  <1>4. /\ FrameOK(g) /\ g.next <= g.count /\ Top.kind # "Params"
        /\ Opened(Top, g) /\ AtHead(Top, g.off) /\ AtHead(g, CallerOff(stack, m))
    <2>1. m \in DOMAIN stack /\ n \in DOMAIN stack /\ n > 1 /\ n - 1 = m
      BY <1>2
    <2>2. AtHead(stack[n], CallerOff(stack, n)) /\ AtHead(stack[m], CallerOff(stack, m))
      BY <2>1 DEF HInv
    <2>3. Opened(stack[n], stack[n - 1])
      BY <1>1, <2>1 DEF TypedCalls
    <2>4. CallerOff(stack, n) = g.off
      BY <1>3, <2>1 DEF CallerOff
    <2> QED
      BY <1>1, <1>2, <1>3, <2>1, <2>2, <2>3, <2>4
      DEF IInv, StackOK, CalledBy
  <1>5. g.off \in Nat /\ Top.off \in Nat /\ Top.dyn \in BOOLEAN /\ WordLen \in Nat
    BY <1>2, FrameFields, WordAssumption
  <1> DEFINE t == Elem(g)
             c == IF g.dyn THEN 0 ELSE CallerOff(stack, m)
  <1>6. t \in ParamTypes
    BY <1>2, <1>4, ElemOf
  <1>7. /\ HeadsBefore(g) \in Nat /\ head_size[t] \in Nat
        /\ HeadsBefore(f) = HeadsBefore(g) + head_size[t]
    BY <1>2, <1>4, HeadsStep
  <1>8. c \in Nat /\ g.off = HeadsBefore(g) + c
    <2>1. stack \in Seq(Frame)
      BY <1>1 DEF IInv, TypeOK
    <2>2. m # 1 => stack[m - 1] \in Frame
      BY <1>2, <2>1
    <2> QED
      BY <1>4, <2>2, FrameFields DEF CallerOff, AtHead
  <1> HIDE DEF c, t
  <1>9. f.off = g.off + head_size[t]
    <2>1. CASE Top.dyn
      <3>1. t \in DynamicTypes
        BY <1>4, <2>1 DEF Opened, t
      <3>2. head_size[t] = WordLen
        BY <1>6, <3>1, HeadSize DEF HeadDef
      <3> QED
        BY <1>2, <2>1, <3>2
    <2>2. CASE ~Top.dyn
      <3>1. HeadsBefore(Top) = head_size[t]
        BY <1>2, <1>4, <1>6, <2>2, HeadsDone DEF t
      <3>2. Top.off = head_size[t] + g.off
        BY <1>4, <2>2, <3>1 DEF AtHead
      <3> QED
        BY <1>2, <1>5, <1>7, <2>2, <3>2
    <2> QED
      BY <1>5, <2>1, <2>2
  <1>10. f.off = HeadsBefore(f) + c
    BY <1>5, <1>7, <1>8, <1>9
  <1>11. ASSUME NEW k \in 1..m
         PROVE  AtHead(stack'[k], CallerOff(stack', k))
    <2>1. k \in 1..n /\ (k # 1 => k - 1 \in 1..m /\ k - 1 # m)
      BY <1>2
    <2>2. CallerOff(stack', k) = CallerOff(stack, k)
      BY <1>2, <2>1 DEF CallerOff
    <2>3. AtHead(stack[k], CallerOff(stack, k))
      BY <1>2, <2>1 DEF HInv
    <2>4. CASE k # m
      BY <1>2, <2>2, <2>3, <2>4
    <2>5. CASE k = m
      BY <1>2, <1>3, <1>10, <2>2, <2>5 DEF AtHead, c
    <2> QED
      BY <2>4, <2>5
  <1> QED
    BY <1>2, <1>11

(* Every step keeps the cursors at the heads. *)
LEMMA StepAtHead == ASSUME Wide, HInv, [Next]_vars PROVE HInv'
  <1> DEFINE P == \A k \in DOMAIN stack' : AtHead(stack'[k], CallerOff(stack', k))
  <1>0. TInv /\ TInv' /\ IInv /\ IInv'
    BY StepTyped, StepSafe DEF HInv, TInv
  <1>1. ASSUME Beginning PROVE P
    BY <1>0, <1>1, BeginAtHead
  <1>2. ASSUME Failing PROVE P
    BY <1>2 DEF Failing, Return
  <1>3. ASSUME Pushing PROVE P
    BY <1>3, PushAtHead
  <1>4. ASSUME Opening PROVE P
    BY <1>4, OpenAtHead
  <1>5. ASSUME Leave PROVE P
    BY <1>5, LeaveAtHead
  <1>6. ASSUME stack' = stack PROVE P
    BY <1>6 DEF HInv
  <1>7. ASSUME Completing PROVE P
    BY <1>6, <1>7 DEF Completing
  <1>8. ASSUME UNCHANGED vars PROVE P
    BY <1>6, <1>8 DEF vars
  <1> HIDE DEF P
  <1>9. P
    BY <1>0, <1>1, <1>2, <1>3, <1>4, <1>5, <1>7, <1>8, StepShape
  <1>10. (\A k \in DOMAIN stack : AtHead(stack[k], CallerOff(stack, k)))'
    BY <1>9 DEF P, AtHead, CallerOff, HeadsBefore
  <1> QED
    BY <1>0, <1>10 DEF HInv

(* The invariant of the heads holds of every call. *)
LEMMA InductiveAtHead == ASSUME Wide PROVE Spec => []HInv
  <1>1. Init => HInv
    <2>1. Init => stack = <<>>
      BY DEF Init
    <2> QED
      BY <2>1, InitSafe DEF HInv, TInv, TypedCalls
  <1>2. HInv /\ [Next]_vars => HInv'
    BY StepAtHead
  <1> QED
    BY <1>1, <1>2, PTL DEF Spec

(* decode and decode_validate read every element at its head: the offset   *)
(* of each open call is the sum of the head sizes of the elements before,  *)
(* counted from its tail, or from the head of its own type in its caller.  *)
THEOREM AlwaysAtHead == ASSUME Wide PROVE Spec => []CursorAtHead
  <1>1. HInv => CursorAtHead
    <2> SUFFICES ASSUME HInv, NEW k \in DOMAIN stack
                 PROVE  stack[k].off = HeadsBefore(stack[k])
                          + (IF k = 1 \/ stack[k].dyn THEN 0 ELSE stack[k - 1].off)
      BY DEF CursorAtHead
    <2>1. AtHead(stack[k], CallerOff(stack, k))
      BY DEF HInv
    <2> QED
      BY <2>1 DEF AtHead, CallerOff
  <1> QED
    BY <1>1, InductiveAtHead, PTL

-----------------------------------------------------------------------------
(* The functions of DecodeSpec obey their definitions. *)

BehindDef(f, t) ==
  \/ t.kind \in {"Bytes", "String", "Array"}
  \/ \E i \in DOMAIN t.subs : f[t.subs[i]]

Behinds == INSTANCE Recursion WITH
  Dom <- ParamTypes, measure <- nodes, Def <- BehindDef

(* behind obeys its definition. *)
LEMMA BehindEquation ==
  \A t \in ParamTypes : Abstract!behind[t] = BehindDef(Abstract!behind, t)
  <1>1. Behinds!WellFounded
    <2>1. ASSUME NEW f, NEW g, NEW t \in ParamTypes,
                 \A u \in ParamTypes : nodes[u] < nodes[t] => f[u] = g[u]
          PROVE  BehindDef(f, t) = BehindDef(g, t)
      <3>1. \A i \in DOMAIN t.subs : f[t.subs[i]] = g[t.subs[i]]
        BY <2>1, Components
      <3> QED
        BY <3>1 DEF BehindDef
    <2> QED
      BY <2>1, FiniteTypesAssumption DEF Behinds!WellFounded
  <1>2. Abstract!behind = CHOOSE f : f = [t \in ParamTypes |-> BehindDef(f, t)]
    BY DEF Abstract!behind, BehindDef
  <1>3. Abstract!behind = [t \in ParamTypes |-> BehindDef(Abstract!behind, t)]
    BY <1>1, <1>2, NaturalInduction, Behinds!Defined DEF Behinds!Inductive
  <1> QED
    BY <1>3

(* The types behind an offset are those that is_dynamic says are dynamic.  *)
LEMMA Behind == \A t \in ParamTypes : Abstract!behind[t] = is_dynamic[t]
  <1> DEFINE S == {t \in ParamTypes : Abstract!behind[t] = is_dynamic[t]}
  <1>1. ASSUME NEW t \in ParamTypes, \A i \in DOMAIN t.subs : t.subs[i] \in S
        PROVE  t \in S
    <2>1. (DOMAIN t.subs # {}) => t.kind \in {"Array", "FixedArray", "Tuple"}
      BY TypeFields
    <2>2. BehindDef(Abstract!behind, t) <=> is_dynamic[t]
      BY <1>1, <2>1, IsDynamic DEF BehindDef
    <2>3. is_dynamic[t] \in BOOLEAN /\ BehindDef(Abstract!behind, t) \in BOOLEAN
      BY IsDynamic DEF BehindDef
    <2> QED
      BY <2>2, <2>3, BehindEquation
  <1> HIDE DEF S
  <1>2. ParamTypes \subseteq S
    BY <1>1, TypeInduction
  <1> QED
    BY <1>2 DEF S

(* DecodeSpec is instantiated, so that it has a Total of its own. *)
LEMMA SameTotal == Abstract!Total = Total
  BY DEF Abstract!Total, Total

(* The heads of the components of a tuple. *)
LEMMA LenOfTuple ==
  ASSUME NEW len, NEW t, NEW n, t.kind = "Tuple"
  PROVE  Abstract!HeadsLen(len, t, n) = Total[[i \in 1..n |-> len[t.subs[i]]]]
  BY SameTotal DEF Abstract!HeadsLen

LenDef(f, t) ==
  IF Abstract!behind[t] \/ t.kind \notin {"FixedArray", "Tuple"} THEN WordLen
  ELSE Abstract!HeadsLen(f, t, Abstract!Width(t))

Lens == INSTANCE Recursion WITH
  Dom <- ParamTypes, measure <- nodes, Def <- LenDef

(* head_len obeys its definition. *)
LEMMA LenEquation ==
  \A t \in ParamTypes : Abstract!head_len[t] = LenDef(Abstract!head_len, t)
  <1>1. Lens!WellFounded
    <2>1. ASSUME NEW f, NEW g, NEW t \in ParamTypes,
                 \A u \in ParamTypes : nodes[u] < nodes[t] => f[u] = g[u]
          PROVE  LenDef(f, t) = LenDef(g, t)
      <3>1. \A i \in DOMAIN t.subs : f[t.subs[i]] = g[t.subs[i]]
        BY <2>1, Components
      <3>2. t.kind = "FixedArray" => 1 \in DOMAIN t.subs
        BY TypeFields
      <3>3. t.subs \in Seq(ParamTypes)
        BY TypeFields
      <3>4. DOMAIN t.subs = 1..Len(t.subs)
        BY <3>3
      <3>5. [i \in 1..Len(t.subs) |-> f[t.subs[i]]]
              = [i \in 1..Len(t.subs) |-> g[t.subs[i]]]
        BY <3>1, <3>4
      <3> QED
        BY <3>1, <3>2, <3>5 DEF LenDef, Abstract!HeadsLen, Abstract!Width
    <2> QED
      BY <2>1, FiniteTypesAssumption DEF Lens!WellFounded
  <1>2. Abstract!head_len = CHOOSE f : f = [t \in ParamTypes |-> LenDef(f, t)]
    BY DEF Abstract!head_len, LenDef
  <1>3. Abstract!head_len = [t \in ParamTypes |-> LenDef(Abstract!head_len, t)]
    BY <1>1, <1>2, NaturalInduction, Lens!Defined DEF Lens!Inductive
  <1> QED
    BY <1>3

(* Both modules give the heads the same lengths. *)
LEMMA SameHeads == \A t \in ParamTypes : Abstract!head_len[t] = head_size[t]
  <1> DEFINE S == {t \in ParamTypes : Abstract!head_len[t] = head_size[t]}
  <1>1. ASSUME NEW t \in ParamTypes, \A i \in DOMAIN t.subs : t.subs[i] \in S
        PROVE  t \in S
    <2>1. t.subs \in Seq(ParamTypes) /\ (t.kind = "FixedArray" => 1 \in DOMAIN t.subs)
      BY TypeFields
    <2>2. DOMAIN t.subs = 1..Len(t.subs)
      BY <2>1
    <2>3. [i \in 1..Len(t.subs) |-> Abstract!head_len[t.subs[i]]]
            = [i \in DOMAIN t.subs |-> head_size[t.subs[i]]]
      BY <1>1, <2>2
    <2>4. Abstract!behind[t] <=> t \in DynamicTypes
      BY Behind DEF DynamicTypes
    <2>5. LenDef(Abstract!head_len, t) = HeadDef(head_size, t)
      <3>1. CASE t \in DynamicTypes \/ t.kind \notin {"FixedArray", "Tuple"}
        BY <2>4, <3>1 DEF LenDef, HeadDef
      <3>2. CASE t \notin DynamicTypes /\ t.kind = "FixedArray"
        <4>1. Abstract!head_len[t.subs[1]] = head_size[t.subs[1]]
          BY <1>1, <2>1, <3>2
        <4> QED
          BY <2>4, <3>2, <4>1
          DEF LenDef, HeadDef, Abstract!HeadsLen, Abstract!Width
      <3>3. CASE t \notin DynamicTypes /\ t.kind = "Tuple"
        <4>1. LenDef(Abstract!head_len, t)
                = Abstract!HeadsLen(Abstract!head_len, t, Len(t.subs))
          BY <2>4, <3>3 DEF LenDef, Abstract!Width
        <4>2. Abstract!HeadsLen(Abstract!head_len, t, Len(t.subs))
                = Total[[i \in 1..Len(t.subs) |-> Abstract!head_len[t.subs[i]]]]
          BY <3>3, LenOfTuple
        <4>3. HeadDef(head_size, t)
                = Total[[i \in DOMAIN t.subs |-> head_size[t.subs[i]]]]
          BY <3>3 DEF HeadDef
        <4> QED
          BY <2>3, <4>1, <4>2, <4>3
      <3> QED
        BY <3>1, <3>2, <3>3
    <2> QED
      BY <2>5, LenEquation, HeadSize
  <1> HIDE DEF S
  <1>2. ParamTypes \subseteq S
    BY <1>1, TypeInduction
  <1> QED
    BY <1>2 DEF S

ValueDef(f, t) == [r \in Abstract!Reader |-> Abstract!ValueAt(f, t, r)]

Values == INSTANCE Recursion WITH
  Dom <- ParamTypes, measure <- nodes, Def <- ValueDef

(* A row depends on the values of its components only. *)
LEMMA RowOf ==
  ASSUME NEW f, NEW g, NEW t, NEW n, NEW r,
         \A i \in 1..n : f[Abstract!SubType(t, i)] = g[Abstract!SubType(t, i)]
  PROVE  Abstract!Row(f, t, n, r) = Abstract!Row(g, t, n, r)
  <1> DEFINE at(i) == Abstract!Skip(r, Abstract!HeadsLen(Abstract!head_len, t, i - 1))
             ef(i) == f[Abstract!SubType(t, i)][at(i)]
             eg(i) == g[Abstract!SubType(t, i)][at(i)]
  <1>1. \A i \in 1..n : ef(i) = eg(i)
    OBVIOUS
  <1>2. Abstract!Row(f, t, n, r)
          = IF \E i \in 1..n : ~ef(i).defined THEN Abstract!Undefined
            ELSE Abstract!Some([i \in 1..n |-> ef(i).val])
    BY DEF Abstract!Row
  <1>3. Abstract!Row(g, t, n, r)
          = IF \E i \in 1..n : ~eg(i).defined THEN Abstract!Undefined
            ELSE Abstract!Some([i \in 1..n |-> eg(i).val])
    BY DEF Abstract!Row
  <1> HIDE DEF ef, eg
  <1>4. [i \in 1..n |-> ef(i).val] = [i \in 1..n |-> eg(i).val]
    BY <1>1
  <1>5. (\E i \in 1..n : ~ef(i).defined) <=> (\E i \in 1..n : ~eg(i).defined)
    BY <1>1
  <1>6. CASE \E i \in 1..n : ~ef(i).defined
    BY <1>2, <1>3, <1>5, <1>6
  <1>7. CASE ~(\E i \in 1..n : ~ef(i).defined)
    <2>1. /\ Abstract!Row(f, t, n, r) = Abstract!Some([i \in 1..n |-> ef(i).val])
          /\ Abstract!Row(g, t, n, r) = Abstract!Some([i \in 1..n |-> eg(i).val])
      BY <1>2, <1>3, <1>5, <1>7
    <2> QED
      BY <1>4, <2>1
  <1> QED
    BY <1>6, <1>7

(* value obeys its definition. *)
LEMMA ValueEquation ==
  \A t \in ParamTypes : \A r \in Abstract!Reader :
    Abstract!value[t][r] = Abstract!ValueAt(Abstract!value, t, r)
  <1>1. Values!WellFounded
    <2>1. ASSUME NEW f, NEW g, NEW t \in ParamTypes,
                 \A u \in ParamTypes : nodes[u] < nodes[t] => f[u] = g[u]
          PROVE  ValueDef(f, t) = ValueDef(g, t)
      <3>1. \A i \in DOMAIN t.subs : f[t.subs[i]] = g[t.subs[i]]
        BY <2>1, Components
      <3>2. t.subs \in Seq(ParamTypes)
            /\ (t.kind \in {"Array", "FixedArray"} => 1 \in DOMAIN t.subs)
        BY TypeFields
      <3>3. ASSUME NEW n, \/ t.kind \in {"Array", "FixedArray"}
                          \/ t.kind = "Tuple" /\ n = Len(t.subs)
            PROVE  \A r : Abstract!Row(f, t, n, r) = Abstract!Row(g, t, n, r)
        <4>1. ASSUME NEW i \in 1..n
              PROVE  f[Abstract!SubType(t, i)] = g[Abstract!SubType(t, i)]
          <5>1. IF t.kind = "Tuple" THEN i \in DOMAIN t.subs ELSE 1 \in DOMAIN t.subs
            BY <3>2, <3>3
          <5> QED
            BY <3>1, <5>1 DEF Abstract!SubType
        <4> QED
          BY <4>1, RowOf
      <3>4. ASSUME NEW r
            PROVE  Abstract!InHeads(f, t, r) = Abstract!InHeads(g, t, r)
        BY <3>3 DEF Abstract!InHeads, Abstract!Width
      <3>5. ASSUME NEW r
            PROVE  Abstract!InTails(f, t, r) = Abstract!InTails(g, t, r)
        BY <3>3 DEF Abstract!InTails, Abstract!Width, Abstract!Elements
      <3>6. \A r : Abstract!ValueAt(f, t, r) = Abstract!ValueAt(g, t, r)
        BY <3>4, <3>5 DEF Abstract!ValueAt
      <3> QED
        BY <3>6 DEF ValueDef
    <2> QED
      BY <2>1, FiniteTypesAssumption DEF Values!WellFounded
  <1>2. Abstract!value = CHOOSE f : f = [t \in ParamTypes |-> ValueDef(f, t)]
    BY DEF Abstract!value, ValueDef
  <1>3. Abstract!value = [t \in ParamTypes |-> ValueDef(Abstract!value, t)]
    BY <1>1, <1>2, NaturalInduction, Values!Defined DEF Values!Inductive
  <1> QED
    BY <1>3 DEF ValueDef


-----------------------------------------------------------------------------
(* What decode reads through its slices is what stands in the data. *)

(* The reader of mode s that stands at p and counts its offsets from base. *)
At(d, s, base, p) == [data |-> d, strict |-> s, base |-> base, at |-> p]

(* A slice of a slice is a slice. *)
LEMMA SliceOfSlice ==
  ASSUME NEW d \in Seq(Byte), NEW a \in Nat, NEW e \in Nat, NEW from \in Nat,
         NEW to \in Nat, a <= e, e <= Len(d), from <= to, a + to <= e
  PROVE  Slice(Slice(d, a, e), from, to) = Slice(d, a + from, a + to)
  <1>0. \A i \in (a + 1)..e : d[i] \in Byte
    OBVIOUS
  <1> DEFINE v == SubSeq(d, a + 1, e)
             x == SubSeq(v, from + 1, to)
             y == SubSeq(d, a + from + 1, a + to)
  <1>1. /\ v \in Seq(Byte) /\ Len(v) = e - a
        /\ \A i \in 1..(e - a) : v[i] = d[a + i]
    <2>1. /\ SubSeq(d, a + 1, e) \in Seq(Byte)
          /\ Len(SubSeq(d, a + 1, e)) = IF a + 1 <= e THEN e - (a + 1) + 1 ELSE 0
          /\ \A i \in 1..(e - (a + 1) + 1) : SubSeq(d, a + 1, e)[i] = d[(a + 1) + i - 1]
      BY <1>0, SubSeqProperties
    <2> QED
      BY <2>1
  <1> HIDE DEF v
  <1>2. /\ x \in Seq(Byte) /\ Len(x) = to - from
        /\ \A i \in 1..(to - from) : x[i] = d[a + from + i]
    <2>0. \A i \in (from + 1)..to : v[i] \in Byte
      BY <1>1
    <2>1. /\ SubSeq(v, from + 1, to) \in Seq(Byte)
          /\ Len(SubSeq(v, from + 1, to)) = IF from + 1 <= to THEN to - (from + 1) + 1 ELSE 0
          /\ \A i \in 1..(to - (from + 1) + 1) :
               SubSeq(v, from + 1, to)[i] = v[(from + 1) + i - 1]
      BY <1>1, <2>0, SubSeqProperties
    <2>2. \A i \in 1..(to - from) : from + i \in 1..(e - a) /\ v[from + i] = d[a + (from + i)]
      BY <1>1
    <2> QED
      BY <2>1, <2>2
  <1>3. /\ y \in Seq(Byte) /\ Len(y) = to - from
        /\ \A i \in 1..(to - from) : y[i] = d[a + from + i]
    <2>0. \A i \in (a + from + 1)..(a + to) : d[i] \in Byte
      OBVIOUS
    <2>1. /\ SubSeq(d, a + from + 1, a + to) \in Seq(Byte)
          /\ Len(SubSeq(d, a + from + 1, a + to))
               = IF a + from + 1 <= a + to THEN a + to - (a + from + 1) + 1 ELSE 0
          /\ \A i \in 1..(a + to - (a + from + 1) + 1) :
               SubSeq(d, a + from + 1, a + to)[i] = d[(a + from + 1) + i - 1]
      BY <2>0, SubSeqProperties
    <2> QED
      BY <2>1
  <1> HIDE DEF x, y
  <1>4. x = y
    BY <1>2, <1>3, SeqEqual
  <1> QED
    BY <1>4 DEF x, y, v, Slice

(* What is left of the data from base on. *)
LEMMA ViewLen ==
  ASSUME NEW d \in Seq(Byte), NEW base \in Nat, base <= Len(d)
  PROVE  /\ Len(d) \in Nat /\ Slice(d, base, Len(d)) \in Seq(Byte)
         /\ Len(Slice(d, base, Len(d))) = Len(d) - base
  <1> DEFINE e == Len(d)
  <1>1. e \in Nat /\ base <= e /\ e <= Len(d)
    OBVIOUS
  <1> HIDE DEF e
  <1>2. Slice(d, base, e) \in Seq(Byte) /\ Len(Slice(d, base, e)) = e - base
    BY <1>1, SliceIsBytes
  <1> QED
    BY <1>1, <1>2 DEF e

(* The bytes at a reader, as a slice of the data. *)
LEMMA BytesAreSlice ==
  ASSUME NEW d, NEW s, NEW base, NEW p \in Nat, NEW n \in Nat
  PROVE  /\ Abstract!BytesAt(At(d, s, base, p), n) = Slice(d, p, p + n)
         /\ Abstract!Within(At(d, s, base, p), n) <=> p + n <= Len(d)
  BY DEF Abstract!BytesAt, Abstract!Within, At, Slice

(* peek reads the bytes at the reader, if they are there. *)
LEMMA PeekReads ==
  ASSUME NEW d \in Seq(Byte), NEW s, NEW base \in Nat, base <= Len(d),
         NEW off \in Nat, NEW n \in Nat, off + n < UsizeSize
  PROVE  LET r == At(d, s, base, base + off)
         IN  peek(Slice(d, base, Len(d)), off, n)
               = IF Abstract!Within(r, n) THEN Ok(Abstract!BytesAt(r, n)) ELSE Err
  <1> DEFINE v == Slice(d, base, Len(d))
             r == At(d, s, base, base + off)
  <1>1. Len(v) = Len(d) - base /\ Len(d) \in Nat
    BY ViewLen
  <1>2. UAdd(off, n) = off + n
    BY UAddExact
  <1>3. /\ Abstract!BytesAt(r, n) = Slice(d, base + off, base + off + n)
        /\ Abstract!Within(r, n) <=> base + off + n <= Len(d)
    BY BytesAreSlice
  <1>4. CASE base + off + n <= Len(d)
    <2>1. off + n <= Len(v)
      BY <1>1, <1>4
    <2>2. Slice(v, off, off + n) = Slice(d, base + off, base + (off + n))
      BY <1>1, <1>4, SliceOfSlice
    <2> HIDE DEF v, r
    <2>3. peek(v, off, n) = Ok(Slice(v, off, off + n))
      BY <1>1, <1>2, <2>1 DEF peek, Index
    <2> QED
      BY <1>3, <1>4, <2>2, <2>3 DEF v, r
  <1>5. CASE ~(base + off + n <= Len(d))
    <2>1. off + n > Len(v)
      BY <1>1, <1>5
    <2> HIDE DEF v, r
    <2>2. peek(v, off, n) = Err
      BY <1>2, <2>1 DEF peek
    <2> QED
      BY <1>3, <1>5, <2>2 DEF v, r
  <1> QED
    BY <1>4, <1>5

(* peek_usize reads the number at the reader, if there is one. *)
LEMMA PeekUsizeReads ==
  ASSUME NEW d \in Seq(Byte), NEW s, NEW base \in Nat, base <= Len(d),
         NEW off \in Nat, off + WordLen < UsizeSize
  PROVE  LET r == At(d, s, base, base + off)
         IN  /\ peek_usize(Slice(d, base, Len(d)), off)
                  = IF Abstract!IsNumber(r) THEN Ok(Abstract!NumberAt(r)) ELSE Err
             /\ Abstract!IsNumber(r) =>
                  /\ Abstract!NumberAt(r) \in Nat /\ Abstract!NumberAt(r) < U32
                  /\ base + off + WordLen <= Len(d)
  <1> DEFINE v == Slice(d, base, Len(d))
             r == At(d, s, base, base + off)
             p == base + off
             w == Slice(d, p, p + WordLen)
  <1>0. WordLen \in Nat /\ WordLen - 4 \in Nat /\ WordLen > 4 /\ p \in Nat
    BY WordAssumption
  <1>1. peek_32_bytes(v, off) = IF Abstract!Within(r, WordLen)
                                THEN Ok(Abstract!BytesAt(r, WordLen)) ELSE Err
    BY <1>0, PeekReads DEF peek_32_bytes
  <1>2. /\ Abstract!BytesAt(r, WordLen) = w
        /\ Abstract!Within(r, WordLen) <=> p + WordLen <= Len(d)
        /\ Abstract!BytesAt(r, WordLen - 4) = Slice(d, p, p + (WordLen - 4))
    BY <1>0, BytesAreSlice
  <1> HIDE DEF r, v, p
  <1>3. CASE ~(p + WordLen <= Len(d))
    BY <1>1, <1>2, <1>3 DEF Abstract!IsNumber, peek_usize, Err, r, v
  <1>4. CASE p + WordLen <= Len(d)
    <2>1. Slice(w, 0, WordLen - 4) = Slice(d, p + 0, p + (WordLen - 4))
      BY <1>0, <1>4, SliceOfSlice
    <2>2. w \in Seq(Byte) /\ Len(w) = WordLen
      <3>1. p + WordLen \in Nat /\ p <= p + WordLen /\ (p + WordLen) - p = WordLen
        BY <1>0
      <3> QED
        BY <1>0, <1>4, <3>1, SliceIsBytes
    <2> HIDE DEF w
    <2>3. WordValue(w) \in 0..(U32 - 1)
      BY <2>2, WordValueRange
    <2>4. peek_usize(v, off) = as_usize(w)
      BY <1>1, <1>2, <1>4 DEF peek_usize, Ok
    <2>5. Abstract!IsNumber(r) <=> IsZero(Slice(w, 0, WordLen - 4))
      BY <1>0, <1>2, <1>4, <2>1 DEF Abstract!IsNumber, Abstract!IsZero, IsZero
    <2>6. Abstract!NumberAt(r) = WordValue(w)
      BY <1>2 DEF Abstract!NumberAt, Abstract!WordValue, WordValue
    <2> QED
      BY <1>4, <2>3, <2>4, <2>5, <2>6, RadixFacts DEF as_usize, p, r, v
  <1> QED
    BY <1>3, <1>4

(* take_bytes reads the payload at the reader, if it is there and, for a   *)
(* strict reader, padded with zeros.                                       *)
LEMMA TakeReads ==
  ASSUME NEW d \in Seq(Byte), NEW s \in BOOLEAN, NEW base \in Nat, base <= Len(d),
         NEW off \in Nat, NEW n \in Nat, off + n + WordLen <= UsizeSize
  PROVE  LET r == At(d, s, base, base + off)
         IN  take_bytes(Slice(d, base, Len(d)), off, n, s)
               = IF Abstract!Payload(r, n) THEN Ok(Abstract!BytesAt(r, n)) ELSE Err
  <1>0. WordLen \in Nat /\ WordLen > 4 /\ off + n < UsizeSize
    BY WordAssumption, RadixFacts
  <1> DEFINE v == Slice(d, base, Len(d))
             p == base + off
             r == At(d, s, base, p)
             whole == round_up_nearest_multiple(n)
  <1>1. Len(v) = Len(d) - base /\ Len(d) \in Nat /\ p \in Nat
    BY ViewLen
  <1>2. whole \in Nat /\ n <= whole /\ whole < n + WordLen
    BY <1>0, RoundUpBounds, RadixFacts
  <1>3. Abstract!WordsFor(n) * WordLen = whole
    <2>1. UAdd(n, WordLen - 1) = n + WordLen - 1
      <3>1. WordLen - 1 \in Nat /\ n + (WordLen - 1) < UsizeSize
        BY <1>0, RadixFacts
      <3> QED
        BY <3>1, UAddExact, WordAssumption
    <2> QED
      BY <2>1 DEF round_up_nearest_multiple, Abstract!WordsFor
  <1>4. CASE ~s
    <2>1. take_bytes(v, off, n, s) = peek(v, off, n)
      BY <1>4 DEF take_bytes
    <2>2. Abstract!Payload(r, n) <=> Abstract!Within(r, n)
      BY <1>4 DEF Abstract!Payload, At
    <2>3. peek(v, off, n)
            = IF Abstract!Within(r, n) THEN Ok(Abstract!BytesAt(r, n)) ELSE Err
      BY <1>0, PeekReads
    <2> QED
      BY <2>1, <2>2, <2>3
  <1>5. CASE s
    <2> DEFINE skipped == Abstract!Skip(r, n)
    <2>1. skipped = At(d, s, base, p + n)
      BY DEF Abstract!Skip, At
    <2>2. /\ Abstract!BytesAt(r, n) = Slice(d, p, p + n)
          /\ Abstract!Within(r, whole) <=> p + whole <= Len(d)
          /\ Abstract!BytesAt(skipped, whole - n) = Slice(d, p + n, (p + n) + (whole - n))
      <3>1. whole - n \in Nat /\ p + n \in Nat
        BY <1>1, <1>2
      <3> HIDE DEF p, whole
      <3> QED
        BY <1>1, <1>2, <2>1, <3>1, BytesAreSlice
    <2>3. Abstract!Payload(r, n) <=>
            p + whole <= Len(d) /\ IsZero(Slice(d, p + n, (p + n) + (whole - n)))
      <3>1. r.strict
        BY <1>5 DEF At
      <3> HIDE DEF r
      <3> QED
        BY <1>3, <2>2, <3>1 DEF Abstract!Payload, Abstract!IsZero, IsZero
    <2>4. UAdd(off, n) = off + n /\ UAdd(off, whole) = off + whole
      BY <1>0, <1>2, UAddExact, RadixFacts
    <2> HIDE DEF whole, skipped, r
    <2>5. CASE ~(p + whole <= Len(d))
      <3>1. off + whole > Len(v)
        BY <1>1, <1>2, <2>5
      <3>2. take_bytes(v, off, n, s) = Err
        BY <1>5, <2>4, <3>1 DEF take_bytes, whole
      <3> QED
        BY <2>3, <2>5, <3>2 DEF r
    <2>6. CASE p + whole <= Len(d)
      <3>1. off + whole <= Len(v) /\ off + n <= off + whole /\ off <= off + n
            /\ off + n <= Len(v) /\ off + whole \in Nat /\ off + n \in Nat
        BY <1>1, <1>2, <2>6
      <3>2. Slice(v, off + n, off + whole) = Slice(d, p + n, (p + n) + (whole - n))
        <4>1. Slice(v, off + n, off + whole) = Slice(d, base + (off + n), base + (off + whole))
          BY <1>1, <1>2, <2>6, <3>1, SliceOfSlice
        <4>2. base + (off + n) = p + n /\ base + (off + whole) = (p + n) + (whole - n)
          BY <1>1, <1>2
        <4> QED
          BY <4>1, <4>2
      <3>3. Slice(v, off, off + n) = Slice(d, p, p + n)
        <4>1. Slice(v, off, off + n) = Slice(d, base + off, base + (off + n))
          BY <1>1, <1>2, <2>6, <3>1, SliceOfSlice
        <4>2. base + (off + n) = p + n
          BY <1>1
        <4> QED
          BY <4>1, <4>2
      <3> HIDE DEF v, p
      <3>4. take_bytes(v, off, n, s)
              = IF ~IsZero(Slice(v, off + n, off + whole)) THEN Err
                ELSE Ok(Slice(v, off, off + n))
        BY <1>1, <1>2, <1>5, <2>4, <3>1 DEF take_bytes, whole, Index, Ok
      <3> QED
        BY <2>2, <2>3, <2>6, <3>2, <3>3, <3>4 DEF r, v, p
    <2> QED
      BY <2>5, <2>6
  <1> QED
    BY <1>4, <1>5


-----------------------------------------------------------------------------
(* What each arm of decode_param reads is the value that DecodeSpec finds  *)
(* where the innermost call stands.                                        *)

(* The reader at the next head of f, and the value there. *)
Here(f)      == At(data, validate, f.base, f.base + f.off)
ValueHere(f) == Abstract!value[Elem(f)][Here(f)]

(* res is a read of the value v of this kind. *)
Answers(res, kind, v) ==
  \/ res.status = "Ok"  /\ v = Abstract!Some(Token(kind, res.val, <<>>))
  \/ res.status = "Err" /\ v = Abstract!Undefined

(* Where the innermost call reads. *)
LEMMA HereFacts ==
  ASSUME IInv, Wide, status = "running", Top.next <= Top.count
  PROVE  /\ Elem(Top) \in ParamTypes
         /\ data \in Seq(Byte) /\ validate \in BOOLEAN
         /\ Top.base \in Nat /\ Top.base <= Len(data) /\ Top.off \in Nat
         /\ Top.off + WordLen < UsizeSize
         /\ View(Top) = Slice(data, Top.base, Len(data))
         /\ Here(Top) = At(data, validate, Top.base, Top.base + Top.off)
         /\ Here(Top) \in Abstract!Reader
  <1>1. Top \in Frame /\ FrameOK(Top) /\ Top.off + WordLen < UsizeSize
    BY TopFacts
  <1>2. Top.base \in Nat /\ Top.off \in Nat /\ Top.base <= Len(data)
    BY <1>1, FrameFields DEF FrameOK
  <1>3. data \in Seq(Byte) /\ validate \in BOOLEAN
    BY DEF IInv, TypeOK
  <1>4. At(data, validate, Top.base, Top.base + Top.off) \in Abstract!Reader
    BY <1>2, <1>3 DEF At, Abstract!Reader, Abstract!Byte, Byte
  <1> QED
    BY <1>1, <1>2, <1>3, <1>4, ElemType DEF Here, View

(* A static value is read in place, a dynamic one through its offset. *)
LEMMA ValueHereIs ==
  ASSUME IInv, Wide, status = "running", Top.next <= Top.count
  PROVE  /\ Elem(Top) \notin DynamicTypes =>
              ValueHere(Top) = Abstract!InHeads(Abstract!value, Elem(Top), Here(Top))
         /\ Elem(Top) \in DynamicTypes =>
              ValueHere(Top) = IF Abstract!IsNumber(Here(Top))
                               THEN Abstract!InTails(Abstract!value, Elem(Top),
                                                     Abstract!Target(Here(Top)))
                               ELSE Abstract!Undefined
  <1>1. Elem(Top) \in ParamTypes /\ Here(Top) \in Abstract!Reader
    BY HereFacts
  <1>2. ValueHere(Top) = Abstract!ValueAt(Abstract!value, Elem(Top), Here(Top))
    BY <1>1, ValueEquation DEF ValueHere
  <1>3. Abstract!behind[Elem(Top)] <=> Elem(Top) \in DynamicTypes
    BY <1>1, Behind DEF DynamicTypes
  <1> QED
    BY <1>2, <1>3 DEF Abstract!ValueAt

(* The kinds that are static, and those that are dynamic, in any case. *)
LEMMA KindsOfTypes ==
  ASSUME NEW t \in ParamTypes
  PROVE  /\ t.kind \in {"Address", "Int", "Uint", "Bool", "FixedBytes"} =>
              t \notin DynamicTypes
         /\ t.kind \in {"Bytes", "String", "Array"} => t \in DynamicTypes
  BY IsDynamic DEF DynamicTypes

(* The word of an address, an integer or a boolean. *)
LEMMA WordReads ==
  ASSUME IInv, Wide, status = "running", Top.next <= Top.count,
         Elem(Top).kind \in {"Address", "Int", "Uint", "Bool"}
  PROVE  LET r == Here(Top)
             w == Abstract!BytesAt(r, WordLen)
         IN  /\ peek_32_bytes(View(Top), Top.off)
                  = IF Abstract!Within(r, WordLen) THEN Ok(w) ELSE Err
             /\ ValueHere(Top) = IF Abstract!Within(r, WordLen)
                                 THEN Abstract!Leaf(Elem(Top), Abstract!WordAt(Elem(Top), r))
                                 ELSE Abstract!Undefined
  <1>1. WordLen \in Nat
    BY WordAssumption
  <1>2. peek(Slice(data, Top.base, Len(data)), Top.off, WordLen)
          = IF Abstract!Within(Here(Top), WordLen)
            THEN Ok(Abstract!BytesAt(Here(Top), WordLen)) ELSE Err
    BY <1>1, HereFacts, PeekReads
  <1>3. Elem(Top) \notin DynamicTypes
    BY HereFacts, KindsOfTypes
  <1>4. ValueHere(Top) = Abstract!InHeads(Abstract!value, Elem(Top), Here(Top))
    BY <1>3, ValueHereIs
  <1>5. peek_32_bytes(View(Top), Top.off)
          = peek(Slice(data, Top.base, Len(data)), Top.off, WordLen)
    BY HereFacts DEF peek_32_bytes
  <1> QED
    BY <1>2, <1>4, <1>5 DEF Abstract!InHeads

(* An address is the end of its word. *)
LEMMA AddressValue ==
  ASSUME IInv, Wide, status = "running", Top.next <= Top.count,
         Elem(Top).kind = "Address"
  PROVE  Answers(decode_address(View(Top), Top.off), "Address", ValueHere(Top))
  <1> DEFINE r == Here(Top)
             w == Abstract!BytesAt(r, WordLen)
             v == View(Top)
  <1>1. /\ peek_32_bytes(v, Top.off) = IF Abstract!Within(r, WordLen) THEN Ok(w) ELSE Err
        /\ ValueHere(Top) = IF Abstract!Within(r, WordLen)
                            THEN Abstract!Leaf(Elem(Top), Abstract!WordAt(Elem(Top), r))
                            ELSE Abstract!Undefined
    BY WordReads
  <1>2. r.strict = validate
    BY DEF Here, At
  <1>3. Abstract!WordAt(Elem(Top), r)
          = IF validate /\ ~IsZero(SubSeq(w, 1, AddrPad)) THEN Abstract!Undefined
            ELSE Abstract!Some(SubSeq(w, AddrPad + 1, WordLen))
    BY <1>2 DEF Abstract!WordAt, Abstract!IsZero, IsZero
  <1> HIDE DEF r, w, v
  <1>4. SubSeq(w, 1, AddrPad) = Slice(w, 0, AddrPad)
    BY DEF Slice
  <1>5. CASE ~Abstract!Within(r, WordLen)
    BY <1>1, <1>5 DEF decode_address, Err, Answers, v
  <1>6. CASE Abstract!Within(r, WordLen)
    <2>1. decode_address(v, Top.off)
            = IF validate /\ ~IsZero(Slice(w, 0, AddrPad)) THEN Err
              ELSE Ok(Slice(w, AddrPad, WordLen))
      BY <1>1, <1>6 DEF decode_address, Ok
    <2>2. ValueHere(Top) = Abstract!Leaf(Elem(Top), Abstract!WordAt(Elem(Top), r))
      BY <1>1, <1>6
    <2>3. CASE validate /\ ~IsZero(Slice(w, 0, AddrPad))
      <3>1. decode_address(v, Top.off) = Err
        BY <2>1, <2>3
      <3>2. Abstract!WordAt(Elem(Top), r) = Abstract!Undefined
        BY <1>3, <1>4, <2>3
      <3> QED
        BY <2>2, <3>1, <3>2
        DEF Answers, Err, Abstract!Leaf, Abstract!Undefined, v
    <2>4. CASE ~(validate /\ ~IsZero(Slice(w, 0, AddrPad)))
      <3>1. decode_address(v, Top.off) = Ok(Slice(w, AddrPad, WordLen))
        BY <2>1, <2>4
      <3>2. Abstract!WordAt(Elem(Top), r) = Abstract!Some(Slice(w, AddrPad, WordLen))
        BY <1>3, <1>4, <2>4 DEF Slice
      <3> QED
        BY <2>2, <3>1, <3>2
        DEF Answers, Ok, Abstract!Leaf, Abstract!Some, Abstract!Token, Token, v
    <2> QED
      BY <2>3, <2>4
  <1> QED
    BY <1>5, <1>6

(* An integer is its word. *)
LEMMA IntValue ==
  ASSUME IInv, Wide, status = "running", Top.next <= Top.count,
         Elem(Top).kind \in {"Int", "Uint"}
  PROVE  Answers(peek_32_bytes(View(Top), Top.off), Elem(Top).kind, ValueHere(Top))
  <1> DEFINE r == Here(Top)
             w == Abstract!BytesAt(r, WordLen)
  <1>1. /\ peek_32_bytes(View(Top), Top.off)
             = IF Abstract!Within(r, WordLen) THEN Ok(w) ELSE Err
        /\ ValueHere(Top) = IF Abstract!Within(r, WordLen)
                            THEN Abstract!Leaf(Elem(Top), Abstract!WordAt(Elem(Top), r))
                            ELSE Abstract!Undefined
    BY WordReads
  <1>2. Abstract!WordAt(Elem(Top), r) = Abstract!Some(w)
    BY DEF Abstract!WordAt
  <1> HIDE DEF r, w
  <1>3. Abstract!Leaf(Elem(Top), Abstract!Some(w))
          = Abstract!Some(Token(Elem(Top).kind, w, <<>>))
    BY DEF Abstract!Leaf, Abstract!Some, Abstract!Token, Token
  <1> QED
    BY <1>1, <1>2, <1>3 DEF Answers, Ok, Err

(* A boolean is the last byte of its word. *)
LEMMA BoolValue ==
  ASSUME IInv, Wide, status = "running", Top.next <= Top.count,
         Elem(Top).kind = "Bool"
  PROVE  Answers(decode_bool(View(Top), Top.off), "Bool", ValueHere(Top))
  <1> DEFINE r == Here(Top)
             w == Abstract!BytesAt(r, WordLen)
             v == View(Top)
             bit == <<IF w[WordLen] = 1 THEN 1 ELSE 0>>
  <1>1. /\ peek_32_bytes(v, Top.off) = IF Abstract!Within(r, WordLen) THEN Ok(w) ELSE Err
        /\ ValueHere(Top) = IF Abstract!Within(r, WordLen)
                            THEN Abstract!Leaf(Elem(Top), Abstract!WordAt(Elem(Top), r))
                            ELSE Abstract!Undefined
    BY WordReads
  <1>2. Abstract!WordAt(Elem(Top), r)
          = IF ~IsZero(SubSeq(w, 1, WordLen - 1)) THEN Abstract!Undefined
            ELSE Abstract!Some(bit)
    BY DEF Abstract!WordAt, Abstract!IsZero, IsZero
  <1>3. as_bool(w) = IF IsZero(SubSeq(w, 1, WordLen - 1)) THEN Ok(bit) ELSE Err
    <2>1. Slice(w, 0, WordLen - 1) = SubSeq(w, 1, WordLen - 1)
      BY DEF Slice
    <2> QED
      BY <2>1 DEF as_bool
  <1> HIDE DEF r, w, v, bit
  <1>4. CASE ~Abstract!Within(r, WordLen)
    BY <1>1, <1>4 DEF decode_bool, Err, Answers, v
  <1>5. CASE Abstract!Within(r, WordLen)
    <2>1. decode_bool(v, Top.off) = as_bool(w)
      BY <1>1, <1>5 DEF decode_bool, Ok
    <2>2. ValueHere(Top) = Abstract!Leaf(Elem(Top), Abstract!WordAt(Elem(Top), r))
      BY <1>1, <1>5
    <2>3. CASE IsZero(SubSeq(w, 1, WordLen - 1))
      BY <1>2, <1>3, <2>1, <2>2, <2>3
      DEF Answers, Ok, Abstract!Leaf, Abstract!Some, Abstract!Token, Token, v
    <2>4. CASE ~IsZero(SubSeq(w, 1, WordLen - 1))
      BY <1>2, <1>3, <2>1, <2>2, <2>4
      DEF Answers, Err, Abstract!Leaf, Abstract!Undefined, v
    <2> QED
      BY <2>3, <2>4
  <1> QED
    BY <1>4, <1>5

(* The bytes of a bytesN are the payload at its head. *)
LEMMA FixedBytesValue ==
  ASSUME IInv, Wide, status = "running", Top.next <= Top.count,
         Elem(Top).kind = "FixedBytes"
  PROVE  Answers(take_bytes(View(Top), Top.off, Elem(Top).size, validate),
                 "FixedBytes", ValueHere(Top))
  <1> DEFINE n == Elem(Top).size
             r == Here(Top)
             res == take_bytes(View(Top), Top.off, n, validate)
  <1>1. /\ Top \in Frame /\ FrameOK(Top) /\ Len(data) \in Nat /\ WordLen \in Nat
        /\ Top.off \in Nat /\ Top.base \in Nat
    BY TopFacts, HereFacts
  <1>2. n \in Nat /\ 2 * (n + 2 * WordLen) <= UsizeSize
    BY HereFacts, TypeFields DEF Wide
  <1>3. Top.off <= Len(data) + WordLen
    BY <1>1 DEF FrameOK
  <1> HIDE DEF n
  <1>4. Top.off + n + WordLen <= UsizeSize
    BY <1>1, <1>2, <1>3, RadixFacts DEF IInv, DataFits
  <1>5. res = IF Abstract!Payload(r, n) THEN Ok(Abstract!BytesAt(r, n)) ELSE Err
    BY <1>2, <1>4, HereFacts, TakeReads
  <1>6. Elem(Top) \notin DynamicTypes
    BY HereFacts, KindsOfTypes
  <1>7. ValueHere(Top) = IF Abstract!Payload(r, n)
                         THEN Abstract!Leaf(Elem(Top), Abstract!Some(Abstract!BytesAt(r, n)))
                         ELSE Abstract!Undefined
    BY <1>6, ValueHereIs DEF Abstract!InHeads, n
  <1> HIDE DEF r, res
  <1>8. CASE Abstract!Payload(r, n)
    BY <1>5, <1>7, <1>8
    DEF Answers, Ok, Abstract!Leaf, Abstract!Some, Abstract!Token, Token, n, res
  <1>9. CASE ~Abstract!Payload(r, n)
    BY <1>5, <1>7, <1>9 DEF Answers, Err, n, res
  <1> QED
    BY <1>8, <1>9


(* The offset at the cursor, and where it leads. *)
LEMMA OffsetReads ==
  ASSUME IInv, Wide, status = "running", Top.next <= Top.count
  PROVE  LET r == Here(Top)
             n == Abstract!NumberAt(r)
         IN  /\ peek_usize(View(Top), Top.off)
                  = IF Abstract!IsNumber(r) THEN Ok(n) ELSE Err
             /\ Abstract!IsNumber(r) =>
                  /\ n \in Nat /\ n < U32 /\ n + WordLen < UsizeSize
                  /\ Abstract!Target(r) = At(data, validate, Top.base, Top.base + n)
  <1> DEFINE r == Here(Top)
             n == Abstract!NumberAt(r)
  <1>1. r = At(data, validate, Top.base, Top.base + Top.off)
    BY HereFacts
  <1>2. Abstract!Target(r) = At(data, validate, Top.base, Top.base + n)
    BY <1>1 DEF Abstract!Target, At
  <1>3. /\ peek_usize(Slice(data, Top.base, Len(data)), Top.off)
             = IF Abstract!IsNumber(r) THEN Ok(n) ELSE Err
        /\ Abstract!IsNumber(r) => n \in Nat /\ n < U32
    BY <1>1, HereFacts, PeekUsizeReads
  <1> HIDE DEF r, n
  <1>4. Abstract!IsNumber(r) => n + WordLen < UsizeSize
    BY <1>3, WordAssumption, RadixFacts DEF Wide
  <1> QED
    BY <1>2, <1>3, <1>4, HereFacts DEF r, n

(* The length that stands where the offset leads. *)
LEMMA LengthReads ==
  ASSUME IInv, Wide, status = "running", Top.next <= Top.count,
         Abstract!IsNumber(Here(Top))
  PROVE  LET n == Abstract!NumberAt(Here(Top))
             r == Abstract!Target(Here(Top))
         IN  /\ peek_usize(View(Top), n)
                  = IF Abstract!IsNumber(r) THEN Ok(Abstract!NumberAt(r)) ELSE Err
             /\ Abstract!IsNumber(r) =>
                  /\ Abstract!NumberAt(r) \in Nat /\ Abstract!NumberAt(r) < U32
                  /\ Top.base + n + WordLen <= Len(data)
                  /\ Abstract!Skip(r, WordLen)
                       = At(data, validate, Top.base, Top.base + (n + WordLen))
  <1> DEFINE n == Abstract!NumberAt(Here(Top))
             r == Abstract!Target(Here(Top))
  <1>1. /\ n \in Nat /\ n + WordLen < UsizeSize
        /\ r = At(data, validate, Top.base, Top.base + n)
    BY OffsetReads
  <1>2. data \in Seq(Byte) /\ Top.base \in Nat /\ Top.base <= Len(data)
        /\ View(Top) = Slice(data, Top.base, Len(data)) /\ WordLen \in Nat
    BY HereFacts, WordAssumption
  <1> HIDE DEF n, r
  <1>3. /\ peek_usize(View(Top), n)
             = IF Abstract!IsNumber(r) THEN Ok(Abstract!NumberAt(r)) ELSE Err
        /\ Abstract!IsNumber(r) =>
             /\ Abstract!NumberAt(r) \in Nat /\ Abstract!NumberAt(r) < U32
             /\ Top.base + n + WordLen <= Len(data)
    BY <1>1, <1>2, PeekUsizeReads
  <1>4. Abstract!Skip(r, WordLen)
          = At(data, validate, Top.base, (Top.base + n) + WordLen)
    BY <1>1 DEF Abstract!Skip, At
  <1>5. (Top.base + n) + WordLen = Top.base + (n + WordLen)
    BY <1>1, <1>2
  <1> QED
    BY <1>3, <1>4, <1>5 DEF n, r

(* decode_bytes reads the bytes behind the length that its offset leads to. *)
LEMMA BytesRead ==
  ASSUME IInv, Wide, status = "running", Top.next <= Top.count
  PROVE  LET r == Here(Top)
             bytes == Abstract!Counted(Abstract!Target(r))
         IN  decode_bytes(View(Top), Top.off)
               = IF Abstract!IsNumber(r) /\ bytes.defined THEN Ok(bytes.val) ELSE Err
  <1> DEFINE r == Here(Top)
             s == Abstract!Target(r)
             d == View(Top)
             n == Abstract!NumberAt(r)
             len == Abstract!NumberAt(s)
             from == Abstract!Skip(s, WordLen)
             bytes == Abstract!Counted(s)
             off == peek_usize(d, Top.off)
             res == decode_bytes(d, Top.off)
  <1>1. off = IF Abstract!IsNumber(r) THEN Ok(n) ELSE Err
    BY OffsetReads
  <1>2. res = IF off.status # "Ok" THEN off
              ELSE IF peek_usize(d, off.val).status # "Ok" THEN peek_usize(d, off.val)
              ELSE take_bytes(d, UAdd(off.val, WordLen), peek_usize(d, off.val).val, validate)
    BY DEF decode_bytes
  <1>3. ASSUME Abstract!IsNumber(r)
        PROVE  /\ n \in Nat /\ n < U32 /\ n + WordLen < UsizeSize
               /\ peek_usize(d, n) = IF Abstract!IsNumber(s) THEN Ok(len) ELSE Err
               /\ Abstract!IsNumber(s) =>
                    /\ len \in Nat /\ len < U32
                    /\ from = At(data, validate, Top.base, Top.base + (n + WordLen))
    BY <1>3, OffsetReads, LengthReads
  <1>4. bytes = IF Abstract!IsNumber(s) /\ Abstract!Payload(from, len)
                THEN Abstract!Some(Abstract!BytesAt(from, len)) ELSE Abstract!Undefined
    BY DEF Abstract!Counted
  <1> HIDE DEF off, res, r, s, n, len, bytes, from, d
  <1>5. CASE ~Abstract!IsNumber(r)
    BY <1>1, <1>2, <1>5 DEF Err, res, r, s, bytes, d
  <1>6. CASE Abstract!IsNumber(r) /\ ~Abstract!IsNumber(s)
    <2>1. res = Err
      BY <1>1, <1>2, <1>3, <1>6 DEF Ok, Err
    <2>2. ~bytes.defined
      BY <1>4, <1>6 DEF Abstract!Undefined
    <2> QED
      BY <2>1, <2>2 DEF res, bytes, s, r, d
  <1>7. CASE Abstract!IsNumber(r) /\ Abstract!IsNumber(s)
    <2>1. /\ n \in Nat /\ n < U32 /\ n + WordLen < UsizeSize /\ len \in Nat /\ len < U32
          /\ WordLen \in Nat /\ 2 * (U32 + 2 * WordLen) <= UsizeSize /\ U32 \in Nat
      BY <1>3, <1>7, WordAssumption, RadixFacts DEF Wide
    <2>2. UAdd(n, WordLen) = n + WordLen
      BY <2>1, UAddExact
    <2>3. res = take_bytes(d, n + WordLen, len, validate)
      BY <1>1, <1>2, <1>3, <1>7, <2>2 DEF Ok
    <2>4. n + WordLen \in Nat /\ (n + WordLen) + len + WordLen <= UsizeSize
      BY <2>1, RadixFacts
    <2>5. /\ data \in Seq(Byte) /\ Top.base \in Nat /\ Top.base <= Len(data)
          /\ d = Slice(data, Top.base, Len(data)) /\ validate \in BOOLEAN
      BY HereFacts DEF d
    <2>6. take_bytes(d, n + WordLen, len, validate)
            = IF Abstract!Payload(from, len) THEN Ok(Abstract!BytesAt(from, len)) ELSE Err
      BY <1>3, <1>7, <2>1, <2>4, <2>5, TakeReads
    <2>7. res = IF bytes.defined THEN Ok(bytes.val) ELSE Err
      BY <1>4, <1>7, <2>3, <2>6 DEF Abstract!Some, Abstract!Undefined
    <2> QED
      BY <1>7, <2>7 DEF res, bytes, s, r, d
  <1> QED
    BY <1>5, <1>6, <1>7

(* bytes are what stands behind their length. *)
LEMMA BytesValue ==
  ASSUME IInv, Wide, status = "running", Top.next <= Top.count,
         Elem(Top).kind = "Bytes"
  PROVE  Answers(decode_bytes(View(Top), Top.off), "Bytes", ValueHere(Top))
  <1> DEFINE r == Here(Top)
             bytes == Abstract!Counted(Abstract!Target(r))
             res == decode_bytes(View(Top), Top.off)
  <1>1. res = IF Abstract!IsNumber(r) /\ bytes.defined THEN Ok(bytes.val) ELSE Err
    BY BytesRead
  <1>2. Elem(Top) \in DynamicTypes
    BY HereFacts, KindsOfTypes
  <1>3. ValueHere(Top) = IF Abstract!IsNumber(r) THEN Abstract!Leaf(Elem(Top), bytes)
                         ELSE Abstract!Undefined
    BY <1>2, ValueHereIs DEF Abstract!InTails
  <1>4. bytes = Abstract!Undefined \/ bytes.defined
    BY DEF Abstract!Counted, Abstract!Some
  <1> HIDE DEF r, bytes, res
  <1>5. CASE Abstract!IsNumber(r) /\ bytes.defined
    BY <1>1, <1>3, <1>5
    DEF Answers, Ok, Abstract!Leaf, Abstract!Some, Abstract!Token, Token, res
  <1>6. CASE ~(Abstract!IsNumber(r) /\ bytes.defined)
    <2>1. res = Err
      BY <1>1, <1>6
    <2>2. ValueHere(Top) = Abstract!Undefined
      <3>1. ~Abstract!Undefined.defined
        BY DEF Abstract!Undefined
      <3>2. CASE ~Abstract!IsNumber(r)
        BY <1>3, <3>2
      <3>3. CASE Abstract!IsNumber(r)
        <4>1. ~bytes.defined /\ bytes = Abstract!Undefined
          BY <1>4, <1>6, <3>3
        <4> QED
          BY <1>3, <3>3, <4>1 DEF Abstract!Leaf
      <3> QED
        BY <3>2, <3>3
    <2> QED
      BY <2>1, <2>2 DEF Answers, Err, res
  <1> QED
    BY <1>5, <1>6

(* Strings lose the same bytes in both modules. *)
LEMMA SameLossy == \A s : from_utf8_lossy(s) = Abstract!Lossy(s)
  BY DEF from_utf8_lossy, Abstract!Lossy, FlattenSeq, Abstract!FlattenSeq

(* A string is its bytes, without those that are not UTF-8. *)
LEMMA StringValue ==
  ASSUME IInv, Wide, status = "running", Top.next <= Top.count,
         Elem(Top).kind = "String"
  PROVE  Answers(lossy_string(decode_bytes(View(Top), Top.off)), "String",
                 ValueHere(Top))
  <1> DEFINE r == Here(Top)
             bytes == Abstract!Counted(Abstract!Target(r))
             read == decode_bytes(View(Top), Top.off)
             res == lossy_string(read)
  <1>1. read = IF Abstract!IsNumber(r) /\ bytes.defined THEN Ok(bytes.val) ELSE Err
    BY BytesRead
  <1>2. Elem(Top) \in DynamicTypes
    BY HereFacts, KindsOfTypes
  <1>3. ValueHere(Top) = IF Abstract!IsNumber(r)
                         THEN Abstract!Leaf(Elem(Top), Abstract!LossyOf(bytes))
                         ELSE Abstract!Undefined
    BY <1>2, ValueHereIs DEF Abstract!InTails
  <1>4. bytes = Abstract!Undefined \/ bytes.defined
    BY DEF Abstract!Counted, Abstract!Some
  <1>5. res = IF read.status = "Ok" THEN Ok(from_utf8_lossy(read.val)) ELSE read
    BY DEF lossy_string
  <1> HIDE DEF r, bytes, read, res
  <1>6. CASE Abstract!IsNumber(r) /\ bytes.defined
    <2>1. res = Ok(Abstract!Lossy(bytes.val))
      BY <1>1, <1>5, <1>6, SameLossy DEF Ok
    <2>2. Abstract!LossyOf(bytes) = Abstract!Some(Abstract!Lossy(bytes.val))
      BY <1>6 DEF Abstract!LossyOf
    <2> QED
      BY <1>3, <1>6, <2>1, <2>2
      DEF Answers, Ok, Abstract!Leaf, Abstract!Some, Abstract!Token, Token, res, read
  <1>7. CASE ~(Abstract!IsNumber(r) /\ bytes.defined)
    <2>1. res = Err
      BY <1>1, <1>5, <1>7 DEF Err
    <2>2. ValueHere(Top) = Abstract!Undefined
      <3>1. ~Abstract!Undefined.defined
        BY DEF Abstract!Undefined
      <3>2. CASE ~Abstract!IsNumber(r)
        BY <1>3, <3>2
      <3>3. CASE Abstract!IsNumber(r)
        <4>1. bytes = Abstract!Undefined /\ ~bytes.defined
          BY <1>4, <1>7, <3>3
        <4>2. Abstract!LossyOf(bytes) = Abstract!Undefined
          BY <4>1 DEF Abstract!LossyOf
        <4> QED
          BY <1>3, <3>1, <3>3, <4>2 DEF Abstract!Leaf
      <3> QED
        BY <3>2, <3>3
    <2> QED
      BY <2>1, <2>2 DEF Answers, Err, res, read
  <1> QED
    BY <1>6, <1>7


-----------------------------------------------------------------------------
(* What an open call is to return: the row of values that starts at its    *)
(* first head.  c is the offset of its caller.                             *)

(* The elements of f, as the components of a type. *)
Shape(f) == ParamType(IF f.kind = "Params" THEN "Tuple" ELSE f.kind, 0, f.elems)

FirstHead(f, c) ==
  At(data, validate, f.base, f.base + (IF f.dyn THEN 0 ELSE c))

ElementOf(f, c, i) ==
  Abstract!value[ElemAt(f, i)][Abstract!Skip(FirstHead(f, c),
                   Abstract!HeadsLen(Abstract!head_len, Shape(f), i - 1))]

RowOfFrame(f, c) ==
  Abstract!Row(Abstract!value, Shape(f), f.count, FirstHead(f, c))

(* The caller g waits for the row of f. *)
Meaning(f, g) == ValueHere(g) = Abstract!Node(Elem(g), RowOfFrame(f, g.off))

(* The row of an open call is the row of its elements. *)
LEMMA RowIs ==
  ASSUME NEW f \in Frame, NEW c
  PROVE  RowOfFrame(f, c)
           = IF \E i \in 1..f.count : ~ElementOf(f, c, i).defined
             THEN Abstract!Undefined
             ELSE Abstract!Some([i \in 1..f.count |-> ElementOf(f, c, i).val])
  <1> DEFINE t == Shape(f)
             r == FirstHead(f, c)
             at(i) == Abstract!Skip(r, Abstract!HeadsLen(Abstract!head_len, t, i - 1))
             e(i) == Abstract!value[Abstract!SubType(t, i)][at(i)]
  <1>1. RowOfFrame(f, c) = IF \E i \in 1..f.count : ~e(i).defined
                           THEN Abstract!Undefined
                           ELSE Abstract!Some([i \in 1..f.count |-> e(i).val])
    BY DEF RowOfFrame, Abstract!Row
  <1>2. \A i : Abstract!SubType(t, i) = ElemAt(f, i)
    BY DEF Shape, ParamType, Abstract!SubType, ElemAt, Frame, FrameKinds
  <1>3. \A i : e(i) = ElementOf(f, c, i)
    BY <1>2 DEF ElementOf
  <1> HIDE DEF e
  <1> QED
    BY <1>1, <1>3

(* Only the elements matter to a row. *)
LEMMA SameRow ==
  ASSUME NEW v, NEW t, NEW u, NEW n, NEW r, t.kind = u.kind, t.subs = u.subs
  PROVE  Abstract!Row(v, t, n, r) = Abstract!Row(v, u, n, r)
  <1>1. \A i : Abstract!SubType(t, i) = Abstract!SubType(u, i)
    BY DEF Abstract!SubType
  <1>2. \A i : Abstract!HeadsLen(Abstract!head_len, t, i)
                 = Abstract!HeadsLen(Abstract!head_len, u, i)
    BY DEF Abstract!HeadsLen
  <1> DEFINE at(x, i) == Abstract!Skip(r, Abstract!HeadsLen(Abstract!head_len, x, i - 1))
             e(x, i) == v[Abstract!SubType(x, i)][at(x, i)]
  <1>3. \A i : e(t, i) = e(u, i)
    BY <1>1, <1>2
  <1>4. \A x : Abstract!Row(v, x, n, r)
                 = IF \E i \in 1..n : ~e(x, i).defined THEN Abstract!Undefined
                   ELSE Abstract!Some([i \in 1..n |-> e(x, i).val])
    BY DEF Abstract!Row
  <1> HIDE DEF e
  <1> QED
    BY <1>3, <1>4

(* A call that has the same elements in the same place returns the same. *)
LEMMA SameElements ==
  ASSUME NEW f, NEW g, g.kind = f.kind, g.elems = f.elems, g.dyn = f.dyn,
         g.base = f.base, NEW c
  PROVE  /\ \A i : ElementOf(g, c, i) = ElementOf(f, c, i)
         /\ g.count = f.count => RowOfFrame(g, c) = RowOfFrame(f, c)
  BY DEF ElementOf, RowOfFrame, Shape, FirstHead, ElemAt

(* The heads before the cursor, in the words of DecodeSpec. *)
LEMMA HeadsOfShape ==
  ASSUME NEW f \in Frame, FrameOK(f)
  PROVE  Abstract!HeadsLen(Abstract!head_len, Shape(f), f.next - 1) = HeadsBefore(f)
  <1>1. /\ f.elems \in Seq(ParamTypes) /\ f.next - 1 \in Nat /\ f.next - 1 <= f.count
        /\ f.count \in Nat /\ f.kind \in FrameKinds
    BY FrameFields DEF FrameOK
  <1>2. CASE f.kind \in {"Array", "FixedArray"}
    <2>1. f.elems[1] \in ParamTypes
      BY <1>1, <1>2 DEF FrameOK
    <2>2. Abstract!HeadsLen(Abstract!head_len, Shape(f), f.next - 1)
            = (f.next - 1) * Abstract!head_len[f.elems[1]]
      BY <1>2 DEF Abstract!HeadsLen, Shape, ParamType
    <2> QED
      BY <1>2, <2>1, <2>2, SameHeads DEF HeadsBefore
  <1>3. CASE f.kind \notin {"Array", "FixedArray"}
    <2>1. \A i \in 1..(f.next - 1) : f.elems[i] \in ParamTypes
      BY <1>1, <1>3 DEF FrameOK
    <2>2. [i \in 1..(f.next - 1) |-> Abstract!head_len[f.elems[i]]]
            = [i \in 1..(f.next - 1) |-> head_size[f.elems[i]]]
      BY <2>1, SameHeads
    <2>3. Shape(f).kind = "Tuple" /\ Shape(f).subs = f.elems
      BY <1>1, <1>3 DEF Shape, ParamType, FrameKinds
    <2>4. Abstract!HeadsLen(Abstract!head_len, Shape(f), f.next - 1)
            = Total[[i \in 1..(f.next - 1) |-> Abstract!head_len[f.elems[i]]]]
      BY <2>3, LenOfTuple
    <2> QED
      BY <1>3, <2>2, <2>4 DEF HeadsBefore
  <1> QED
    BY <1>2, <1>3

(* A call at a head stands at its next element. *)
LEMMA HereIsElement ==
  ASSUME NEW f \in Frame, FrameOK(f), f.next <= f.count, NEW c \in Nat, AtHead(f, c)
  PROVE  ValueHere(f) = ElementOf(f, c, f.next)
  <1> DEFINE b == IF f.dyn THEN 0 ELSE c
             h == HeadsBefore(f)
  <1>1. f.off = h + b /\ f.base \in Nat /\ b \in Nat /\ h \in Nat
    <2> DEFINE g == Advance(f, 0)
    <2>1. g.kind = f.kind /\ g.elems = f.elems /\ g.next = f.next + 1
      BY AdvanceFields
    <2> HIDE DEF g
    <2>2. h \in Nat
      BY <2>1, HeadsStep
    <2> QED
      BY <2>2, FrameFields DEF AtHead
  <1>2. Abstract!Skip(FirstHead(f, c), h) = At(data, validate, f.base, (f.base + b) + h)
    BY DEF Abstract!Skip, FirstHead, At
  <1> HIDE DEF b, h
  <1>3. (f.base + b) + h = f.base + f.off
    BY <1>1
  <1>4. Here(f) = Abstract!Skip(FirstHead(f, c), h)
    BY <1>2, <1>3 DEF Here
  <1> QED
    BY <1>4, HeadsOfShape DEF ValueHere, ElementOf, Elem, h


-----------------------------------------------------------------------------
(* The calls that are opened return what their callers wait for. *)

(* The row of a call on t is a row of t. *)
LEMMA RowOfCall ==
  ASSUME NEW t, NEW f, f.kind = t.kind, f.elems = t.subs, f.kind # "Params", NEW c
  PROVE  RowOfFrame(f, c) = Abstract!Row(Abstract!value, t, f.count, FirstHead(f, c))
  <1>1. Shape(f).kind = t.kind /\ Shape(f).subs = t.subs
    BY DEF Shape, ParamType
  <1> QED
    BY <1>1, SameRow DEF RowOfFrame

(* A static component is the row at its head. *)
LEMMA StaticRow ==
  ASSUME IInv, Wide, status = "running", Top.next <= Top.count,
         Elem(Top).kind \in {"FixedArray", "Tuple"}, Elem(Top) \notin DynamicTypes
  PROVE  LET f == ComponentFrame(Elem(Top), FALSE, Top.base, Top.off)
         IN  f \in Frame /\ f.next = 1 /\ Meaning(f, Top)
  <1> DEFINE t == Elem(Top)
             f == ComponentFrame(t, FALSE, Top.base, Top.off)
  <1>1. /\ Top.base \in Nat /\ Top.off \in Nat /\ t \in ParamTypes
        /\ Here(Top) = At(data, validate, Top.base, Top.base + Top.off)
        /\ FrameOK(Top)
    BY HereFacts, TopFacts
  <1>2. f \in Frame /\ f.kind # "Params"
    BY <1>1, ComponentFrameTypes DEF FrameOK
  <1>3. /\ f.kind = t.kind /\ f.elems = t.subs /\ ~f.dyn /\ f.base = Top.base
        /\ f.next = 1 /\ f.count = Abstract!Width(t)
    BY DEF ComponentFrame, Abstract!Width
  <1>4. ValueHere(Top) = Abstract!Node(t, Abstract!Row(Abstract!value, t,
                                            Abstract!Width(t), Here(Top)))
    BY ValueHereIs DEF Abstract!InHeads
  <1> HIDE DEF f
  <1>5. FirstHead(f, Top.off) = Here(Top)
    BY <1>1, <1>3 DEF FirstHead
  <1>6. RowOfFrame(f, Top.off)
          = Abstract!Row(Abstract!value, t, f.count, FirstHead(f, Top.off))
    BY <1>2, <1>3, RowOfCall
  <1> QED
    BY <1>2, <1>3, <1>4, <1>5, <1>6 DEF Meaning, f

(* A dynamic component is the row where its offset leads, if that is in    *)
(* the data.                                                               *)
LEMMA TailRow ==
  ASSUME IInv, Wide, status = "running", Top.next <= Top.count,
         Elem(Top).kind \in {"FixedArray", "Tuple"}, Elem(Top) \in DynamicTypes
  PROVE  LET res == open_tail(View(Top), Top.off)
             f == ComponentFrame(Elem(Top), TRUE, Top.base + res.val, 0)
         IN  \/ /\ res.status = "Ok"
                /\ f \in Frame /\ f.next = 1 /\ Meaning(f, Top)
             \/ res.status = "Err" /\ ValueHere(Top) = Abstract!Undefined
  <1> DEFINE t == Elem(Top)
             d == View(Top)
             r == Here(Top)
             s == Abstract!Target(r)
             n == Abstract!NumberAt(r)
             res == open_tail(d, Top.off)
             f == ComponentFrame(t, TRUE, Top.base + res.val, 0)
             tail == peek_usize(d, Top.off)
  <1>1. /\ tail = IF Abstract!IsNumber(r) THEN Ok(n) ELSE Err
        /\ Abstract!IsNumber(r) =>
             n \in Nat /\ s = At(data, validate, Top.base, Top.base + n)
    BY OffsetReads
  <1>2. /\ Top.base \in Nat /\ t \in ParamTypes /\ Top.base <= Len(data)
        /\ Len(data) \in Nat /\ Len(d) = Len(data) - Top.base /\ WordLen \in Nat
    BY HereFacts, TopFacts
  <1>3. res = IF tail.status = "Ok" /\ tail.val > Len(d) THEN Err ELSE tail
    BY DEF open_tail
  <1>4. ValueHere(Top)
          = IF Abstract!IsNumber(r)
            THEN IF Abstract!Within(s, 0)
                 THEN Abstract!Node(t, Abstract!Row(Abstract!value, t,
                                          Abstract!Width(t), Abstract!Rebased(s)))
                 ELSE Abstract!Undefined
            ELSE Abstract!Undefined
    BY ValueHereIs DEF Abstract!InTails
  <1> HIDE DEF d, r, s, n, tail, res, t
  <1>5. CASE ~Abstract!IsNumber(r)
    BY <1>1, <1>3, <1>4, <1>5 DEF Err, res, d
  <1>6. CASE Abstract!IsNumber(r)
    <2>1. n \in Nat /\ s = At(data, validate, Top.base, Top.base + n)
          /\ tail.status = "Ok" /\ tail.val = n
      BY <1>1, <1>6 DEF Ok
    <2>2. Abstract!Within(s, 0) <=> n <= Len(d)
      BY <1>2, <2>1 DEF Abstract!Within, At
    <2>3. CASE n > Len(d)
      <3>1. res.status = "Err"
        BY <1>3, <2>1, <2>3 DEF Err
      <3>2. ~Abstract!Within(s, 0)
        BY <1>2, <2>1, <2>2, <2>3
      <3>3. ValueHere(Top) = Abstract!Undefined
        BY <1>4, <1>6, <3>2
      <3> QED
        BY <3>1, <3>3 DEF res, d
    <2>4. CASE ~(n > Len(d))
      <3>1. res = Ok(n) /\ res.status = "Ok" /\ res.val = n
        BY <1>1, <1>3, <1>6, <2>1, <2>4 DEF Ok
      <3>2. /\ Top.base + n \in Nat /\ Top.base + n <= Len(data)
            /\ 0 <= Len(data) - (Top.base + n) + WordLen
        BY <1>2, <2>1, <2>4
      <3>3. /\ f.kind = t.kind /\ f.elems = t.subs /\ f.dyn /\ f.base = Top.base + n
            /\ f.next = 1 /\ f.count = Abstract!Width(t)
        BY <3>1 DEF ComponentFrame, Abstract!Width
      <3>4. f \in Frame /\ f.kind # "Params"
        <4>1. t.kind \in {"FixedArray", "Tuple"}
          BY DEF t
        <4> QED
          BY <1>2, <3>1, <3>2, <4>1, ComponentFrameTypes
      <3> HIDE DEF f
      <3>5. FirstHead(f, Top.off) = Abstract!Rebased(s)
        BY <2>1, <3>2, <3>3 DEF FirstHead, Abstract!Rebased, At
      <3>6. RowOfFrame(f, Top.off)
              = Abstract!Row(Abstract!value, t, f.count, FirstHead(f, Top.off))
        BY <3>3, <3>4, RowOfCall
      <3>7. Meaning(f, Top)
        BY <1>2, <1>4, <1>6, <2>1, <2>2, <2>4, <3>3, <3>5, <3>6 DEF Meaning, t
      <3> QED
        BY <3>1, <3>3, <3>4, <3>7 DEF f, res, d, t
    <2> QED
      BY <2>3, <2>4
  <1> QED
    BY <1>5, <1>6

(* An array is the row behind the length that its offset leads to. *)
LEMMA ArrayRow ==
  ASSUME IInv, Wide, status = "running", Top.next <= Top.count,
         Elem(Top).kind = "Array"
  PROVE  LET res == open_array(View(Top), Top.off)
             f == [kind |-> "Array", elems |-> Elem(Top).subs, dyn |-> TRUE,
                   base |-> Top.base + res.val.base, off |-> 0,
                   next |-> 1, count |-> res.val.count]
         IN  \/ /\ res.status = "Ok"
                /\ f \in Frame /\ f.next = 1 /\ Meaning(f, Top) /\ f.count < U32
             \/ res.status = "Err" /\ ValueHere(Top) = Abstract!Undefined
  <1> DEFINE t == Elem(Top)
             d == View(Top)
             r == Here(Top)
             s == Abstract!Target(r)
             n == Abstract!NumberAt(r)
             len == Abstract!NumberAt(s)
             first == Abstract!Skip(s, WordLen)
             off == peek_usize(d, Top.off)
             res == open_array(d, Top.off)
             f == [kind |-> "Array", elems |-> t.subs, dyn |-> TRUE,
                   base |-> Top.base + res.val.base, off |-> 0,
                   next |-> 1, count |-> res.val.count]
  <1>1. off = IF Abstract!IsNumber(r) THEN Ok(n) ELSE Err
    BY OffsetReads
  <1>2. /\ Top.base \in Nat /\ t \in ParamTypes /\ Top.base <= Len(data)
        /\ Len(data) \in Nat /\ Len(d) = Len(data) - Top.base /\ WordLen \in Nat
    BY HereFacts, TopFacts
  <1>3. res = IF off.status # "Ok" THEN off
              ELSE IF peek_usize(d, off.val).status # "Ok" THEN peek_usize(d, off.val)
              ELSE IF UAdd(off.val, WordLen) > Len(d) THEN Panic
              ELSE Ok([base |-> UAdd(off.val, WordLen),
                       count |-> peek_usize(d, off.val).val])
    BY DEF open_array
  <1>4. ASSUME Abstract!IsNumber(r)
        PROVE  /\ n \in Nat /\ n < U32 /\ n + WordLen < UsizeSize
               /\ peek_usize(d, n) = IF Abstract!IsNumber(s) THEN Ok(len) ELSE Err
               /\ Abstract!IsNumber(s) =>
                    /\ len \in Nat /\ len < U32 /\ Top.base + n + WordLen <= Len(data)
                    /\ first = At(data, validate, Top.base, Top.base + (n + WordLen))
    BY <1>4, OffsetReads, LengthReads
  <1>5. ValueHere(Top)
          = IF Abstract!IsNumber(r)
            THEN Abstract!Node(t, IF Abstract!IsNumber(s)
                                  THEN Abstract!Row(Abstract!value, t, len,
                                                    Abstract!Rebased(first))
                                  ELSE Abstract!Undefined)
            ELSE Abstract!Undefined
    <2>1. t \in DynamicTypes
      BY HereFacts, KindsOfTypes
    <2> QED
      BY <2>1, ValueHereIs DEF Abstract!InTails, Abstract!Elements
  <1>6. t.kind = "Array" /\ t.subs \in Seq(ParamTypes)
    BY <1>2, TypeFields
  <1> HIDE DEF d, r, s, n, len, first, off, res, t
  <1>7. CASE ~Abstract!IsNumber(r)
    BY <1>1, <1>3, <1>5, <1>7 DEF Err, res, d
  <1>8. CASE Abstract!IsNumber(r) /\ ~Abstract!IsNumber(s)
    <2>1. res = Err
      BY <1>1, <1>3, <1>4, <1>8 DEF Ok, Err
    <2>2. ValueHere(Top) = Abstract!Undefined
      BY <1>5, <1>8 DEF Abstract!Node, Abstract!Undefined
    <2> QED
      BY <2>1, <2>2 DEF Err, res, d
  <1>9. CASE Abstract!IsNumber(r) /\ Abstract!IsNumber(s)
    <2>1. /\ n \in Nat /\ n + WordLen < UsizeSize /\ len \in Nat /\ len < U32
          /\ Top.base + n + WordLen <= Len(data)
          /\ first = At(data, validate, Top.base, Top.base + (n + WordLen))
      BY <1>4, <1>9
    <2>2. UAdd(n, WordLen) = n + WordLen
      BY <1>2, <2>1, UAddExact
    <2>3. ~(n + WordLen > Len(d))
      BY <1>2, <2>1
    <2>4. res = Ok([base |-> n + WordLen, count |-> len])
      <3>1. off.status = "Ok" /\ off.val = n
        BY <1>1, <1>9 DEF Ok
      <3>2. peek_usize(d, n).status = "Ok" /\ peek_usize(d, n).val = len
        BY <1>4, <1>9 DEF Ok
      <3> QED
        BY <1>3, <2>2, <2>3, <3>1, <3>2
    <2>5. res.status = "Ok" /\ res.val.base = n + WordLen /\ res.val.count = len
      BY <2>4 DEF Ok
    <2>6. Top.base + (n + WordLen) \in Nat
      BY <1>2, <2>1
    <2>7. f \in Frame
      BY <1>6, <2>1, <2>5, <2>6 DEF Frame, FrameKinds
    <2>8. /\ f.kind = t.kind /\ f.elems = t.subs /\ f.kind # "Params" /\ f.dyn
          /\ f.base = Top.base + (n + WordLen) /\ f.next = 1 /\ f.count = len
      BY <1>6, <2>5
    <2> HIDE DEF f
    <2>9. FirstHead(f, Top.off) = Abstract!Rebased(first)
      BY <2>1, <2>6, <2>8 DEF FirstHead, Abstract!Rebased, At
    <2>10. RowOfFrame(f, Top.off)
             = Abstract!Row(Abstract!value, t, f.count, FirstHead(f, Top.off))
      BY <2>8, RowOfCall
    <2>11. Meaning(f, Top)
      BY <1>5, <1>9, <2>8, <2>9, <2>10 DEF Meaning, t
    <2> QED
      BY <2>1, <2>5, <2>7, <2>8, <2>11 DEF f, res, d, t
  <1> QED
    BY <1>7, <1>8, <1>9


-----------------------------------------------------------------------------
(* What a step of the decoder may be, and what it means: a token that is   *)
(* pushed is the value at the cursor, a call that is opened returns it,    *)
(* and a call fails where there is none, or for want of memory.            *)

PushingValue ==
  /\ status = "running" /\ Top.next <= Top.count
  /\ \E token : /\ ValueHere(Top) = Abstract!Some(token)
                /\ Deliver(token, Top.off + WordLen)

OpeningRow ==
  /\ status = "running" /\ Top.next <= Top.count
  /\ \E f \in Frame : f.next = 1 /\ Meaning(f, Top) /\ Open(f)

NoValue ==
  /\ status = "running" /\ Top.next <= Top.count
  /\ ValueHere(Top) = Abstract!Undefined

Leftover ==
  /\ status = "running" /\ Len(stack) = 1 /\ Top.next > Top.count
  /\ validate /\ Top.off # Len(data)

Refusing ==
  /\ status \in {"start", "running"}
  /\ Return("Err")
  /\ \/ MayRunOut
     \/ status = "start" /\ NothingToDecode
     \/ NoValue
     \/ Leftover

(* There is room for a vector of the arguments, or memory may run out.     *)
Asked == Len(types) <= AllocLimit \/ MayRunOut

(* An arm that opens no call. *)
LEMMA TakeMeans ==
  ASSUME IInv, Wide, status = "running", Top.next <= Top.count, NEW kind, NEW res,
         Answers(res, kind, ValueHere(Top)), Take(kind, res)
  PROVE  PushingValue \/ Refusing
  <1>1. UAdd(Top.off, WordLen) = Top.off + WordLen
    BY TopFacts, FrameFields, UAddExact
  <1>2. CASE /\ res.status = "Ok"
             /\ Deliver(Token(kind, res.val, <<>>), UAdd(Top.off, WordLen))
    BY <1>1, <1>2 DEF Answers, PushingValue
  <1>3. CASE res.status # "Ok" /\ Return(res.status)
    BY <1>3 DEF Answers, Refusing, NoValue
  <1> QED
    BY <1>2, <1>3 DEF Take

(* The arms that open no call. *)
LEMMA LeafMeans ==
  ASSUME IInv, Wide,
         \/ DecodeAddress \/ DecodeInt \/ DecodeBool
         \/ DecodeFixedBytes \/ DecodeBytes \/ DecodeString
  PROVE  PushingValue \/ Refusing
  <1>1. CASE DecodeAddress
    <2>1. /\ status = "running" /\ Top.next <= Top.count /\ Elem(Top).kind = "Address"
          /\ Take("Address", decode_address(View(Top), Top.off))
      BY <1>1 DEF DecodeAddress, Decoding
    <2> QED
      BY <2>1, AddressValue, TakeMeans
  <1>2. CASE DecodeInt
    <2>1. /\ status = "running" /\ Top.next <= Top.count
          /\ Elem(Top).kind \in {"Int", "Uint"}
          /\ Take(Elem(Top).kind, peek_32_bytes(View(Top), Top.off))
      BY <1>2 DEF DecodeInt, Decoding
    <2> QED
      BY <2>1, IntValue, TakeMeans
  <1>3. CASE DecodeBool
    <2>1. /\ status = "running" /\ Top.next <= Top.count /\ Elem(Top).kind = "Bool"
          /\ Take("Bool", decode_bool(View(Top), Top.off))
      BY <1>3 DEF DecodeBool, Decoding
    <2> QED
      BY <2>1, BoolValue, TakeMeans
  <1>4. CASE DecodeFixedBytes
    <2>1. /\ status = "running" /\ Top.next <= Top.count
          /\ Elem(Top).kind = "FixedBytes"
          /\ Take("FixedBytes", take_bytes(View(Top), Top.off, Elem(Top).size, validate))
      BY <1>4 DEF DecodeFixedBytes, Decoding
    <2> QED
      BY <2>1, FixedBytesValue, TakeMeans
  <1>5. CASE DecodeBytes
    <2>1. /\ status = "running" /\ Top.next <= Top.count /\ Elem(Top).kind = "Bytes"
          /\ Take("Bytes", decode_bytes(View(Top), Top.off))
      BY <1>5 DEF DecodeBytes, Decoding
    <2> QED
      BY <2>1, BytesValue, TakeMeans
  <1>6. CASE DecodeString
    <2>1. /\ status = "running" /\ Top.next <= Top.count /\ Elem(Top).kind = "String"
          /\ Take("String", lossy_string(decode_bytes(View(Top), Top.off)))
      BY <1>6 DEF DecodeString, Decoding
    <2> QED
      BY <2>1, StringValue, TakeMeans
  <1> QED
    BY <1>1, <1>2, <1>3, <1>4, <1>5, <1>6

(* A fixed array or a tuple is opened, unless memory runs out. *)
LEMMA ComponentsMean ==
  ASSUME IInv, Wide, status = "running", Top.next <= Top.count,
         Elem(Top).kind \in {"FixedArray", "Tuple"},
         NEW dyn, NEW base, NEW off,
         ComponentFrame(Elem(Top), dyn, base, off) \in Frame,
         Meaning(ComponentFrame(Elem(Top), dyn, base, off), Top),
         OpenComponents(ComponentFrame(Elem(Top), dyn, base, off))
  PROVE  OpeningRow \/ Refusing
  <1> DEFINE f == ComponentFrame(Elem(Top), dyn, base, off)
  <1>1. /\ f.next = 1 /\ f.kind = Elem(Top).kind
        /\ f.kind = "FixedArray" => f.count = Elem(Top).size
    BY DEF ComponentFrame
  <1> HIDE DEF f
  <1>2. CASE Open(f)
    BY <1>1, <1>2 DEF OpeningRow, f
  <1>3. CASE f.kind = "FixedArray" /\ f.count > AllocLimit /\ Return("Err")
    <2>1. Elem(Top) \in ParamTypes
      BY ElemType
    <2>2. MayRunOut
      BY <1>1, <1>3, <2>1 DEF MayRunOut
    <2> QED
      BY <1>3, <2>2 DEF Refusing
  <1> QED
    BY <1>2, <1>3 DEF OpenComponents, TryOpen, f

(* The arms that open a call. *)
LEMMA RowMeans ==
  ASSUME IInv, Wide,
         DecodeArray \/ DecodeStaticComponents \/ DecodeDynamicComponents
  PROVE  OpeningRow \/ Refusing
  <1>1. CASE DecodeArray
    <2> DEFINE res == open_array(View(Top), Top.off)
               f == [kind |-> "Array", elems |-> Elem(Top).subs, dyn |-> TRUE,
                     base |-> Top.base + res.val.base, off |-> 0,
                     next |-> 1, count |-> res.val.count]
    <2>1. /\ status = "running" /\ Top.next <= Top.count /\ Elem(Top).kind = "Array"
          /\ \/ res.status = "Ok" /\ TryOpen(f)
             \/ res.status # "Ok" /\ Return(res.status)
      BY <1>1 DEF DecodeArray, Decoding
    <2>2. \/ /\ res.status = "Ok"
             /\ f \in Frame /\ f.next = 1 /\ Meaning(f, Top) /\ f.count < U32
          \/ res.status = "Err" /\ ValueHere(Top) = Abstract!Undefined
      BY <2>1, ArrayRow
    <2> HIDE DEF res, f
    <2>3. CASE res.status = "Err" /\ ValueHere(Top) = Abstract!Undefined
      BY <2>1, <2>3 DEF Refusing, NoValue
    <2>4. CASE res.status = "Ok" /\ Open(f)
      BY <2>1, <2>2, <2>4 DEF OpeningRow
    <2>5. CASE res.status = "Ok" /\ f.count > AllocLimit /\ Return("Err")
      <3>1. f.count \in Nat /\ f.count < U32
        BY <2>2, <2>5, FrameFields
      <3>2. AllocLimit < U32
        BY <2>5, <3>1, AllocAssumption, RadixFacts
      <3> QED
        BY <2>1, <2>5, <3>2 DEF Refusing, MayRunOut
    <2> QED
      BY <2>1, <2>2, <2>3, <2>4, <2>5 DEF TryOpen
  <1>2. CASE DecodeStaticComponents
    <2>1. /\ status = "running" /\ Top.next <= Top.count
          /\ Elem(Top).kind \in {"FixedArray", "Tuple"} /\ Elem(Top) \notin DynamicTypes
          /\ OpenComponents(ComponentFrame(Elem(Top), FALSE, Top.base, Top.off))
      BY <1>2 DEF DecodeStaticComponents, Decoding
    <2> QED
      BY <2>1, StaticRow, ComponentsMean
  <1>3. CASE DecodeDynamicComponents
    <2> DEFINE res == open_tail(View(Top), Top.off)
               f == ComponentFrame(Elem(Top), TRUE, Top.base + res.val, 0)
    <2>1. /\ status = "running" /\ Top.next <= Top.count
          /\ Elem(Top).kind \in {"FixedArray", "Tuple"} /\ Elem(Top) \in DynamicTypes
          /\ \/ res.status = "Ok" /\ OpenComponents(f)
             \/ res.status # "Ok" /\ Return(res.status)
      BY <1>3 DEF DecodeDynamicComponents, Decoding
    <2>2. \/ /\ res.status = "Ok"
             /\ f \in Frame /\ f.next = 1 /\ Meaning(f, Top)
          \/ res.status = "Err" /\ ValueHere(Top) = Abstract!Undefined
      BY <2>1, TailRow
    <2>3. CASE res.status = "Err" /\ ValueHere(Top) = Abstract!Undefined
      <3> HIDE DEF res
      <3> QED
        BY <2>1, <2>3 DEF Refusing, NoValue
    <2>4. CASE res.status = "Ok"
      <3>1. f \in Frame /\ Meaning(f, Top) /\ OpenComponents(f)
        BY <2>1, <2>2, <2>4
      <3> QED
        BY <2>1, <3>1, ComponentsMean
    <2> QED
      BY <2>2, <2>3, <2>4
  <1> QED
    BY <1>1, <1>2, <1>3

(* Every step has one of these shapes. *)
LEMMA StepMeans ==
  ASSUME Wide, IInv, Asked, [Next]_vars
  PROVE  \/ Beginning /\ ~NothingToDecode
         \/ Refusing \/ PushingValue \/ OpeningRow
         \/ Leave \/ Completing \/ UNCHANGED vars
  <1>1. CASE Start
    <2>1. CASE Len(types) > AllocLimit /\ Return("Err")
      <3>1. MayRunOut
        <4>1. Len(types) \in Nat /\ AllocLimit \in Nat
          BY AllocAssumption DEF IInv, TypeOK
        <4> QED
          BY <2>1, <4>1 DEF Asked
      <3> QED
        BY <1>1, <2>1, <3>1 DEF Refusing, Start
    <2>2. CASE NothingToDecode /\ Return("Err")
      BY <1>1, <2>2 DEF Refusing, Start
    <2> QED
      BY <1>1, <2>1, <2>2 DEF Start, Beginning
  <1>2. CASE Finish
    <2>1. Completing \/ (Leftover /\ Return("Err"))
      BY <1>2 DEF Finish, Completing, Leftover
    <2>2. Leftover => status = "running"
      BY DEF Leftover
    <2> QED
      BY <2>1, <2>2 DEF Refusing
  <1> QED
    BY <1>1, <1>2, LeafMeans, RowMeans DEF Next


-----------------------------------------------------------------------------
(* The invariant: the tokens that an open call has pushed are the values   *)
(* of the elements it has passed, and the call returns what its caller     *)
(* waits for.                                                              *)

Filled(f, c, v) == \A i \in 1..(f.next - 1) : ElementOf(f, c, i) = Abstract!Some(v[i])

RightValues ==
  /\ stack # <<>> => stack[1].base = 0 /\ ~stack[1].dyn
  /\ \A k \in DOMAIN stack : Filled(stack[k], CallerOff(stack, k), acc[k])
  /\ \A k \in DOMAIN stack : k > 1 => Meaning(stack[k], stack[k - 1])

VInv ==
  /\ HInv
  /\ Asked
  /\ status \in {"running", "Ok"} => ~NothingToDecode /\ stack # <<>>
  /\ RightValues

(* Where a call was made is an offset. *)
LEMMA CallerOffNat ==
  ASSUME IInv, NEW k \in DOMAIN stack
  PROVE  CallerOff(stack, k) \in Nat
  <1>1. stack \in Seq(Frame)
    BY DEF IInv, TypeOK
  <1>2. k # 1 => k - 1 \in DOMAIN stack
    BY <1>1
  <1>3. k # 1 => stack[k - 1] \in Frame
    BY <1>1, <1>2
  <1> QED
    BY <1>3, FrameFields DEF CallerOff

(* An open call that has an element left stands at it. *)
LEMMA StandsAt ==
  ASSUME VInv, NEW k \in DOMAIN stack, stack[k].next <= stack[k].count
  PROVE  ValueHere(stack[k]) = ElementOf(stack[k], CallerOff(stack, k), stack[k].next)
  <1>1. stack[k] \in Frame /\ FrameOK(stack[k]) /\ AtHead(stack[k], CallerOff(stack, k))
    BY DEF VInv, HInv, TInv, IInv, TypeOK, StackOK
  <1>2. CallerOff(stack, k) \in Nat
    BY CallerOffNat DEF VInv, HInv, TInv
  <1> QED
    BY <1>1, <1>2, HereIsElement

(* Pushing the value of the next element. *)
LEMMA FilledAppend ==
  ASSUME NEW f \in Frame, f.next >= 1, NEW g, g.kind = f.kind, g.elems = f.elems,
         g.dyn = f.dyn, g.base = f.base, g.next = f.next + 1, NEW c, NEW v,
         FilledBy(f, v), Filled(f, c, v),
         NEW token, ElementOf(f, c, f.next) = Abstract!Some(token)
  PROVE  Filled(g, c, Append(v, token))
  <1> DEFINE n == f.next - 1
             w == Append(v, token)
  <1>1. n \in Nat /\ f.next = n + 1 /\ g.next - 1 = n + 1
    BY FrameFields
  <1>2. v = [i \in 1..n |-> v[i]]
    BY DEF FilledBy
  <1> HIDE DEF n
  <1>3. Len(v) = n
    BY <1>1, <1>2
  <1>4. /\ \A i \in 1..n : w[i] = v[i]
        /\ w[n + 1] = token
    BY <1>1, <1>2, <1>3
  <1> HIDE DEF w
  <1>5. \A i : ElementOf(g, c, i) = ElementOf(f, c, i)
    BY SameElements
  <1>6. ASSUME NEW i \in 1..(n + 1)
        PROVE  ElementOf(g, c, i) = Abstract!Some(w[i])
    <2>1. CASE i = n + 1
      BY <1>1, <1>4, <1>5, <2>1
    <2>2. CASE i # n + 1
      <3>1. i \in 1..n
        BY <1>1, <2>2
      <3>2. ElementOf(f, c, i) = Abstract!Some(v[i])
        BY <3>1 DEF Filled, n
      <3> QED
        BY <1>4, <1>5, <3>1, <3>2
    <2> QED
      BY <2>1, <2>2
  <1> QED
    BY <1>1, <1>6 DEF Filled, w

(* A call that is done has the whole row. *)
LEMMA RowComplete ==
  ASSUME NEW f \in Frame, FrameOK(f), f.next > f.count, NEW c, NEW v,
         FilledBy(f, v), Filled(f, c, v)
  PROVE  RowOfFrame(f, c) = Abstract!Some(v)
  <1>1. f.next - 1 = f.count
    BY FrameFields DEF FrameOK
  <1>2. v = [i \in 1..f.count |-> v[i]]
    BY <1>1 DEF FilledBy
  <1>3. \A i \in 1..f.count : ElementOf(f, c, i) = Abstract!Some(v[i])
    BY <1>1 DEF Filled
  <1>4. \A i \in 1..f.count : ElementOf(f, c, i).defined /\ ElementOf(f, c, i).val = v[i]
    BY <1>3 DEF Abstract!Some
  <1>5. RowOfFrame(f, c) = Abstract!Some([i \in 1..f.count |-> ElementOf(f, c, i).val])
    BY <1>4, RowIs
  <1>6. [i \in 1..f.count |-> ElementOf(f, c, i).val] = [i \in 1..f.count |-> v[i]]
    BY <1>4
  <1> QED
    BY <1>2, <1>5, <1>6

(* decode_impl's loop begins with nothing pushed. *)
LEMMA BeginValues ==
  ASSUME VInv, Beginning
  PROVE  RightValues'
  <1>1. stack' = <<RootFrame>> /\ acc' = << <<>> >>
    BY DEF Beginning
  <1>2. RootFrame.next = 1 /\ RootFrame.base = 0 /\ ~RootFrame.dyn
    BY DEF RootFrame
  <1> HIDE DEF RootFrame
  <1>3. DOMAIN stack' = {1} /\ stack'[1] = RootFrame
    BY <1>1
  <1>4. \A k \in DOMAIN stack' : Filled(stack[k], CallerOff(stack, k), acc[k])'
    BY <1>2, <1>3 DEF Filled
  <1> QED
    BY <1>2, <1>3, <1>4 DEF RightValues

(* What a call has filled is a matter of the data and the mode alone. *)
LEMMA FilledStays ==
  ASSUME data' = data, validate' = validate,
         NEW k, Filled(stack'[k], CallerOff(stack', k), acc'[k])
  PROVE  Filled(stack[k], CallerOff(stack, k), acc[k])'
  BY DEF Filled, CallerOff, ElementOf, ElemAt, FirstHead, At, Shape

(* So is what an open call means to its caller. *)
LEMMA MeaningStays ==
  ASSUME data' = data, validate' = validate,
         NEW k, Meaning(stack'[k], stack'[k - 1])
  PROVE  Meaning(stack[k], stack[k - 1])'
  BY DEF Meaning, ValueHere, Elem, ElemAt, Here, At, RowOfFrame, FirstHead, Shape

(* A token that is pushed is the value of its element. *)
LEMMA PushValues ==
  ASSUME VInv, Wide, PushingValue
  PROVE  RightValues'
  <1> DEFINE n == Len(stack)
             o == Top.off + WordLen
             f == stack'[n]
             c == CallerOff(stack, n)
  <1>1. PICK token : ValueHere(Top) = Abstract!Some(token) /\ Deliver(token, o)
    BY DEF PushingValue
  <1>2. /\ status = "running" /\ Top.next <= Top.count
        /\ IInv /\ HInv /\ TypedCalls /\ RightValues
    BY DEF PushingValue, VInv, HInv, TInv
  <1>3. Top \in Frame /\ FrameOK(Top) /\ o \in Nat
    BY <1>2, TopFacts, FrameFields, WordAssumption
  <1> HIDE DEF o
  <1>4. /\ n \in Nat /\ n > 0 /\ DOMAIN stack = 1..n /\ DOMAIN stack' = 1..n
        /\ Top = stack[n]
        /\ f.kind = Top.kind /\ f.elems = Top.elems /\ f.dyn = Top.dyn
        /\ f.base = Top.base /\ f.count = Top.count /\ f.next = Top.next + 1
        /\ acc'[n] = Append(acc[n], token)
        /\ \A k \in 1..n : k # n => stack'[k] = stack[k] /\ acc'[k] = acc[k]
        /\ UNCHANGED <<types, data, validate, status>>
    BY <1>1, <1>2, <1>3, AfterPush
  <1>5. f = stack'[n]
    OBVIOUS
  <1> HIDE DEF n, f
  <1>6. Filled(f, c, acc'[n])
    <2>1. n \in DOMAIN stack
      BY <1>4
    <2>2. ElementOf(Top, c, Top.next) = Abstract!Some(token)
      BY <1>1, <1>2, <1>4, <2>1, StandsAt
    <2>3. FilledBy(Top, acc[n]) /\ Filled(Top, c, acc[n])
      BY <1>2, <1>4, <2>1 DEF TypedCalls, RightValues
    <2>4. Top.next >= 1
      BY <1>3 DEF FrameOK
    <2> HIDE DEF c
    <2> QED
      BY <1>3, <1>4, <2>2, <2>3, <2>4, FilledAppend
  <1>7. ASSUME NEW k \in 1..n
        PROVE  Filled(stack'[k], CallerOff(stack', k), acc'[k])
    <2>1. CallerOff(stack', k) = CallerOff(stack, k)
      <3>1. k # 1 => k - 1 \in 1..n /\ k - 1 # n
        BY <1>4
      <3> QED
        BY <1>4, <3>1 DEF CallerOff
    <2>2. CASE k = n
      BY <1>5, <1>6, <2>1, <2>2
    <2>3. CASE k # n
      BY <1>2, <1>4, <2>1, <2>3 DEF RightValues
    <2> QED
      BY <2>2, <2>3
  <1>8. ASSUME NEW k \in 1..n, k > 1
        PROVE  Meaning(stack'[k], stack'[k - 1])
    <2>1. k - 1 \in 1..n /\ k - 1 # n
      BY <1>4, <1>8
    <2>2. stack'[k - 1] = stack[k - 1] /\ Meaning(stack[k], stack[k - 1])
      BY <1>2, <1>4, <1>8, <2>1 DEF RightValues
    <2>3. CASE k # n
      BY <1>4, <2>2, <2>3
    <2>4. CASE k = n
      <3>1. \A x : RowOfFrame(f, x) = RowOfFrame(Top, x)
        BY <1>4, SameElements
      <3> QED
        BY <1>4, <1>5, <2>2, <2>4, <3>1 DEF Meaning
    <2> QED
      BY <2>3, <2>4
  <1>9. stack' # <<>> => stack'[1].base = 0 /\ ~stack'[1].dyn
    <2>1. 1 \in 1..n /\ stack # <<>>
      BY <1>4
    <2>2. stack[1].base = 0 /\ ~stack[1].dyn
      BY <1>2, <2>1 DEF RightValues
    <2> QED
      BY <1>4, <1>5, <2>1, <2>2
  <1>10. data' = data /\ validate' = validate
    BY <1>4
  <1>11. \A k \in DOMAIN stack' : Filled(stack[k], CallerOff(stack, k), acc[k])'
    <2> SUFFICES ASSUME NEW k \in DOMAIN stack'
                 PROVE  Filled(stack[k], CallerOff(stack, k), acc[k])'
      OBVIOUS
    <2>1. Filled(stack'[k], CallerOff(stack', k), acc'[k])
      BY <1>4, <1>7
    <2> QED
      BY <1>10, <2>1, FilledStays
  <1>12. \A k \in DOMAIN stack' : k > 1 => Meaning(stack[k], stack[k - 1])'
    <2> SUFFICES ASSUME NEW k \in 1..n, k > 1 PROVE Meaning(stack[k], stack[k - 1])'
      BY <1>4
    <2>1. Meaning(stack'[k], stack'[k - 1])
      BY <1>8
    <2> QED
      BY <1>10, <2>1, MeaningStays
  <1> QED
    BY <1>9, <1>11, <1>12 DEF RightValues


(* A call that is opened has pushed nothing yet. *)
LEMMA OpenValues ==
  ASSUME VInv, Wide, OpeningRow
  PROVE  RightValues'
  <1> DEFINE n == Len(stack)
  <1>1. status = "running" /\ IInv /\ RightValues
    BY DEF OpeningRow, VInv, HInv, TInv
  <1>2. PICK f \in Frame : f.next = 1 /\ Meaning(f, Top) /\ Open(f)
    BY DEF OpeningRow
  <1>3. /\ n \in Nat /\ n > 0 /\ Top = stack[n]
        /\ DOMAIN stack = 1..n /\ DOMAIN stack' = 1..(n + 1)
        /\ stack'[n + 1] = f
        /\ \A k \in 1..n : stack'[k] = stack[k] /\ acc'[k] = acc[k]
        /\ UNCHANGED <<types, data, validate, status>>
    BY <1>1, <1>2, AfterOpen
  <1> HIDE DEF n
  <1>4. ASSUME NEW k \in 1..(n + 1)
        PROVE  Filled(stack'[k], CallerOff(stack', k), acc'[k])
    <2>1. CASE k = n + 1
      BY <1>2, <1>3, <2>1 DEF Filled
    <2>2. CASE k # n + 1
      <3>1. k \in 1..n /\ (k # 1 => k - 1 \in 1..n)
        BY <1>3, <2>2
      <3>2. CallerOff(stack', k) = CallerOff(stack, k)
        BY <1>3, <3>1 DEF CallerOff
      <3> QED
        BY <1>1, <1>3, <3>1, <3>2 DEF RightValues
    <2> QED
      BY <2>1, <2>2
  <1>5. ASSUME NEW k \in 1..(n + 1), k > 1
        PROVE  Meaning(stack'[k], stack'[k - 1])
    <2>1. k - 1 \in 1..n
      BY <1>3, <1>5
    <2>2. CASE k = n + 1
      <3>1. k - 1 = n /\ stack'[k] = f
        BY <1>3, <2>2
      <3> QED
        BY <1>2, <1>3, <2>1, <3>1
    <2>3. CASE k # n + 1
      <3>1. k \in 1..n
        BY <1>3, <2>3
      <3> QED
        BY <1>1, <1>3, <1>5, <2>1, <3>1 DEF RightValues
    <2> QED
      BY <2>2, <2>3
  <1>6. stack' # <<>> => stack'[1].base = 0 /\ ~stack'[1].dyn
    <2>1. 1 \in 1..n /\ stack # <<>>
      BY <1>3
    <2> QED
      BY <1>1, <1>3, <2>1 DEF RightValues
  <1>7. data' = data /\ validate' = validate
    BY <1>3
  <1>8. \A k \in DOMAIN stack' : Filled(stack[k], CallerOff(stack, k), acc[k])'
    <2> SUFFICES ASSUME NEW k \in DOMAIN stack'
                 PROVE  Filled(stack[k], CallerOff(stack, k), acc[k])'
      OBVIOUS
    <2>1. Filled(stack'[k], CallerOff(stack', k), acc'[k])
      BY <1>3, <1>4
    <2> QED
      BY <1>7, <2>1, FilledStays
  <1>9. \A k \in DOMAIN stack' : k > 1 => Meaning(stack[k], stack[k - 1])'
    <2> SUFFICES ASSUME NEW k \in 1..(n + 1), k > 1
                 PROVE  Meaning(stack[k], stack[k - 1])'
      BY <1>3
    <2>1. Meaning(stack'[k], stack'[k - 1])
      BY <1>5
    <2> QED
      BY <1>7, <2>1, MeaningStays
  <1> QED
    BY <1>6, <1>8, <1>9 DEF RightValues

(* A call that is done returns the value that its caller stands at. *)
LEMMA LeaveValues ==
  ASSUME VInv, Wide, Leave
  PROVE  RightValues'
  <1> DEFINE n == Len(stack)
             m == n - 1
             g == stack[m]
             f == stack'[m]
             c == CallerOff(stack, m)
             token == Token(Top.kind, <<>>, acc[n])
  <1>1. IInv /\ HInv /\ TypedCalls /\ RightValues
    BY DEF VInv, HInv, TInv
  <1>2. /\ n \in Nat /\ m \in Nat /\ m > 0 /\ n = m + 1
        /\ DOMAIN stack = 1..n /\ DOMAIN stack' = 1..m
        /\ Top = stack[n] /\ Top \in Frame /\ g \in Frame
        /\ CalledBy(Top, g) /\ FrameOK(Top) /\ Top.next > Top.count
        /\ f.kind = g.kind /\ f.elems = g.elems /\ f.dyn = g.dyn
        /\ f.base = g.base /\ f.count = g.count /\ f.next = g.next + 1
        /\ acc'[m] = Append(acc[m], token)
        /\ \A k \in 1..m : k # m => stack'[k] = stack[k] /\ acc'[k] = acc[k]
        /\ UNCHANGED <<types, data, validate, status>>
    BY <1>1, AfterLeave
  <1>3. g = stack[m] /\ f = stack'[m]
    OBVIOUS
  <1> HIDE DEF n, m, g, f
  <1>4. /\ m \in DOMAIN stack /\ n \in DOMAIN stack /\ n > 1 /\ n - 1 = m /\ m \in 1..n
        /\ CallerOff(stack, n) = g.off
    <2>1. m \in DOMAIN stack /\ n \in DOMAIN stack /\ n > 1 /\ n - 1 = m /\ n # 1
      BY <1>2
    <2> QED
      BY <1>2, <1>3, <2>1 DEF CallerOff
  <1>5. ValueHere(g) = Abstract!Some(token)
    <2>1. FilledBy(Top, acc[n]) /\ Filled(Top, g.off, acc[n])
      BY <1>1, <1>2, <1>4 DEF TypedCalls, RightValues
    <2>2. RowOfFrame(Top, g.off) = Abstract!Some(acc[n])
      BY <1>2, <2>1, RowComplete
    <2>3. Meaning(stack[n], stack[n - 1]) /\ Opened(stack[n], stack[n - 1])
      BY <1>1, <1>4 DEF RightValues, TypedCalls
    <2>4. Meaning(Top, g) /\ Opened(Top, g)
      BY <1>2, <1>3, <1>4, <2>3
    <2>5. ValueHere(g) = Abstract!Node(Elem(g), Abstract!Some(acc[n]))
      BY <2>2, <2>4 DEF Meaning
    <2>6. Top.kind = Elem(g).kind
      BY <2>4 DEF Opened
    <2> QED
      BY <2>5, <2>6 DEF Abstract!Node, Abstract!Some, Abstract!Token, Token
  <1> HIDE DEF token
  <1>6. Filled(f, c, acc'[m])
    <2>1. g.next >= 1 /\ g.next <= g.count
      BY <1>1, <1>2, <1>3, <1>4 DEF IInv, StackOK, FrameOK, CalledBy
    <2>2. FilledBy(g, acc[m]) /\ Filled(g, c, acc[m])
      BY <1>1, <1>3, <1>4 DEF TypedCalls, RightValues
    <2>3. ElementOf(g, c, g.next) = Abstract!Some(token)
      BY <1>3, <1>4, <1>5, <2>1, StandsAt
    <2> HIDE DEF c
    <2> QED
      BY <1>2, <2>1, <2>2, <2>3, FilledAppend
  <1>7. ASSUME NEW k \in 1..m
        PROVE  Filled(stack'[k], CallerOff(stack', k), acc'[k])
    <2>1. k \in 1..n /\ (k # 1 => k - 1 \in 1..m /\ k - 1 # m)
      BY <1>2
    <2>2. CallerOff(stack', k) = CallerOff(stack, k)
      BY <1>2, <2>1 DEF CallerOff
    <2>3. CASE k = m
      BY <1>3, <1>6, <2>2, <2>3
    <2>4. CASE k # m
      BY <1>1, <1>2, <2>1, <2>2, <2>4 DEF RightValues
    <2> QED
      BY <2>3, <2>4
  <1>8. ASSUME NEW k \in 1..m, k > 1
        PROVE  Meaning(stack'[k], stack'[k - 1])
    <2>1. k - 1 \in 1..m /\ k - 1 # m /\ k \in 1..n
      BY <1>2, <1>8
    <2>2. stack'[k - 1] = stack[k - 1] /\ Meaning(stack[k], stack[k - 1])
      BY <1>1, <1>2, <1>8, <2>1 DEF RightValues
    <2>3. CASE k # m
      BY <1>2, <2>2, <2>3
    <2>4. CASE k = m
      <3>1. \A x : RowOfFrame(f, x) = RowOfFrame(g, x)
        BY <1>2, SameElements
      <3> QED
        BY <1>3, <2>2, <2>4, <3>1 DEF Meaning
    <2> QED
      BY <2>3, <2>4
  <1>9. stack' # <<>> => stack'[1].base = 0 /\ ~stack'[1].dyn
    <2>1. 1 \in 1..m /\ 1 \in 1..n /\ stack # <<>>
      BY <1>2
    <2>2. stack[1].base = 0 /\ ~stack[1].dyn
      BY <1>1, <2>1 DEF RightValues
    <2> QED
      BY <1>2, <1>3, <2>1, <2>2
  <1>10. data' = data /\ validate' = validate
    BY <1>2
  <1>11. \A k \in DOMAIN stack' : Filled(stack[k], CallerOff(stack, k), acc[k])'
    <2> SUFFICES ASSUME NEW k \in DOMAIN stack'
                 PROVE  Filled(stack[k], CallerOff(stack, k), acc[k])'
      OBVIOUS
    <2>1. Filled(stack'[k], CallerOff(stack', k), acc'[k])
      BY <1>2, <1>7
    <2> QED
      BY <1>10, <2>1, FilledStays
  <1>12. \A k \in DOMAIN stack' : k > 1 => Meaning(stack[k], stack[k - 1])'
    <2> SUFFICES ASSUME NEW k \in 1..m, k > 1 PROVE Meaning(stack[k], stack[k - 1])'
      BY <1>2
    <2>1. Meaning(stack'[k], stack'[k - 1])
      BY <1>8
    <2> QED
      BY <1>10, <2>1, MeaningStays
  <1> QED
    BY <1>9, <1>11, <1>12 DEF RightValues

(* A step that leaves the calls alone leaves their values alone. *)
LEMMA SameValues ==
  ASSUME RightValues, UNCHANGED <<stack, acc, data, validate>>
  PROVE  RightValues'
  <1>1. ASSUME NEW k \in DOMAIN stack'
        PROVE  Filled(stack[k], CallerOff(stack, k), acc[k])'
    <2>1. Filled(stack[k], CallerOff(stack, k), acc[k])
      BY DEF RightValues
    <2>2. CallerOff(stack', k) = CallerOff(stack, k)
      OBVIOUS
    <2>3. Filled(stack'[k], CallerOff(stack', k), acc'[k])
      BY <2>1, <2>2
    <2> QED
      BY <2>3, FilledStays
  <1>2. ASSUME NEW k \in DOMAIN stack', k > 1
        PROVE  Meaning(stack[k], stack[k - 1])'
    <2>1. Meaning(stack'[k], stack'[k - 1])
      BY <1>2 DEF RightValues
    <2> QED
      BY <2>1, MeaningStays
  <1>3. stack' # <<>> => stack'[1].base = 0 /\ ~stack'[1].dyn
    BY DEF RightValues
  <1> QED
    BY <1>1, <1>2, <1>3 DEF RightValues

(* Every step keeps the tokens the values of their elements. *)
LEMMA StepValues == ASSUME Wide, VInv, [Next]_vars PROVE VInv'
  <1>0. HInv /\ HInv' /\ IInv /\ Asked /\ RightValues
    BY StepAtHead DEF VInv, HInv, TInv
  <1> DEFINE Going == status \in {"running", "Ok"} => ~NothingToDecode /\ stack # <<>>
             P == types' = types /\ RightValues' /\ Going'
  <1>1. ASSUME Beginning, ~NothingToDecode PROVE P
    <2>1. UNCHANGED <<types, data>> /\ stack' # <<>>
      BY <1>1 DEF Beginning
    <2> QED
      BY <1>1, <2>1, BeginValues DEF NothingToDecode
  <1>2. ASSUME Refusing PROVE P
    <2>1. stack' = <<>> /\ status' = "Err" /\ types' = types
      BY <1>2 DEF Refusing, Return
    <2> QED
      BY <2>1 DEF RightValues
  <1>3. ASSUME status = "running", UNCHANGED <<types, data, validate, status>>,
               stack' # <<>>
        PROVE  types' = types /\ Going'
    BY <1>3 DEF VInv, NothingToDecode
  <1>4. ASSUME PushingValue PROVE P
    <2>1. status = "running" /\ UNCHANGED <<types, data, validate, status>>
      BY <1>4 DEF PushingValue, Deliver
    <2>2. stack' # <<>>
      <3>1. HInv' => IInv'
        BY DEF HInv, TInv
      <3> QED
        BY <1>0, <2>1, <3>1 DEF IInv, StackOK
    <2> QED
      BY <1>3, <1>4, <2>1, <2>2, PushValues
  <1>5. ASSUME OpeningRow PROVE P
    <2>1. status = "running" /\ UNCHANGED <<types, data, validate, status>>
      BY <1>5 DEF OpeningRow, Open
    <2>2. stack' # <<>>
      <3>1. HInv' => IInv'
        BY DEF HInv, TInv
      <3> QED
        BY <1>0, <2>1, <3>1 DEF IInv, StackOK
    <2> QED
      BY <1>3, <1>5, <2>1, <2>2, OpenValues
  <1>6. ASSUME Leave PROVE P
    <2>1. status = "running" /\ UNCHANGED <<types, data, validate, status>>
      BY <1>6 DEF Leave
    <2>2. stack' # <<>>
      <3>1. HInv' => IInv'
        BY DEF HInv, TInv
      <3> QED
        BY <1>0, <2>1, <3>1 DEF IInv, StackOK
    <2> QED
      BY <1>3, <1>6, <2>1, <2>2, LeaveValues
  <1>7. ASSUME Completing PROVE P
    <2>1. status = "running" /\ UNCHANGED <<types, data, validate, stack, acc>>
      BY <1>7 DEF Completing
    <2> QED
      BY <1>0, <2>1, SameValues DEF VInv, NothingToDecode
  <1>8. ASSUME UNCHANGED vars PROVE P
    <2>1. UNCHANGED <<types, data, validate, stack, acc, status>>
      BY <1>8 DEF vars
    <2> QED
      BY <1>0, <2>1, SameValues DEF VInv, NothingToDecode
  <1> HIDE DEF P
  <1>9. P
    BY <1>0, <1>1, <1>2, <1>4, <1>5, <1>6, <1>7, <1>8, StepMeans
  <1> QED
    BY <1>0, <1>9 DEF P, VInv, Asked


(* They are right before a call has begun. *)
LEMMA InitValues == Init => VInv
  <1> SUFFICES ASSUME Init PROVE VInv
    OBVIOUS
  <1>1. stack = <<>> /\ status = "start"
    BY DEF Init
  <1>2. HInv
    BY <1>1, InitSafe DEF HInv, TInv, TypedCalls
  <1>3. Asked
    <2>1. PICK input \in Inputs : types = input.types
      BY DEF Init
    <2>2. Len(types) \in Nat /\ AllocLimit \in Nat
      BY <2>1, InputsAssumption, AllocAssumption
    <2>3. Len(types) > AllocLimit => MayRunOut
      BY <2>1 DEF MayRunOut
    <2> QED
      BY <2>2, <2>3 DEF Asked
  <1> QED
    BY <1>1, <1>2, <1>3 DEF VInv, RightValues

(* The values are right in every state. *)
LEMMA InductiveValues == ASSUME Wide PROVE Spec => []VInv
  <1>1. Init => VInv
    BY InitValues
  <1>2. VInv /\ [Next]_vars => VInv'
    BY StepValues
  <1> QED
    BY <1>1, <1>2, PTL DEF Spec

-----------------------------------------------------------------------------
(* The answer. *)

(* A call whose element has no value has no row. *)
LEMMA LostRow ==
  ASSUME VInv, NEW k \in DOMAIN stack, stack[k].next <= stack[k].count,
         ~ValueHere(stack[k]).defined
  PROVE  ~RowOfFrame(stack[k], CallerOff(stack, k)).defined
  <1> DEFINE c == CallerOff(stack, k)
  <1>1. stack[k] \in Frame /\ FrameOK(stack[k])
    BY DEF VInv, HInv, TInv, IInv, TypeOK, StackOK
  <1>2. stack[k].next \in 1..stack[k].count
    BY <1>1, FrameFields DEF FrameOK
  <1>3. ~ElementOf(stack[k], c, stack[k].next).defined
    BY StandsAt
  <1> HIDE DEF c
  <1>4. RowOfFrame(stack[k], c) = Abstract!Undefined
    BY <1>1, <1>2, <1>3, RowIs
  <1> QED
    BY <1>4 DEF Abstract!Undefined, c

(* So there are no tokens, if the innermost call finds no value. *)
LEMMA LostAnswer ==
  ASSUME VInv, Wide, NoValue
  PROVE  ~RowOfFrame(stack[1], 0).defined
  <1> DEFINE n == Len(stack)
             Lost(k) == ~RowOfFrame(stack[k], CallerOff(stack, k)).defined
             S == {j \in Nat : j < n => Lost(n - j)}
  <1>1. /\ status = "running" /\ Top.next <= Top.count
        /\ ~ValueHere(Top).defined /\ IInv /\ RightValues
    BY DEF NoValue, Abstract!Undefined, VInv, HInv, TInv
  <1>2. n \in Nat /\ n > 0 /\ stack \in Seq(Frame) /\ Top = stack[n]
    BY <1>1, TopFacts DEF IInv, TypeOK, Top
  <1>3. DOMAIN stack = 1..n
    BY <1>2
  <1> HIDE DEF n
  <1>4. Lost(n)
    <2>1. n \in DOMAIN stack
      BY <1>2, <1>3
    <2> QED
      BY <1>1, <1>2, <2>1, LostRow
  <1>5. ASSUME NEW k \in 1..n, k > 1, Lost(k)
        PROVE  Lost(k - 1)
    <2>1. k - 1 \in 1..n /\ k # 1
      BY <1>2, <1>5
    <2>2. Meaning(stack[k], stack[k - 1]) /\ CalledBy(stack[k], stack[k - 1])
      BY <1>1, <1>3, <1>5 DEF RightValues, IInv, StackOK
    <2>3. CallerOff(stack, k) = stack[k - 1].off
      BY <2>1 DEF CallerOff
    <2>4. ~ValueHere(stack[k - 1]).defined
      BY <1>5, <2>2, <2>3 DEF Meaning, Abstract!Node
    <2> QED
      BY <1>3, <2>1, <2>2, <2>4, LostRow DEF CalledBy
  <1>6. 0 \in S
    BY <1>2, <1>4
  <1>7. ASSUME NEW j \in Nat, j \in S
        PROVE  j + 1 \in S
    <2> SUFFICES ASSUME j + 1 < n PROVE Lost(n - (j + 1))
      OBVIOUS
    <2>1. n - j \in 1..n /\ n - j > 1 /\ (n - j) - 1 = n - (j + 1) /\ j < n
      BY <1>2
    <2>2. Lost(n - j)
      BY <1>7, <2>1
    <2> HIDE DEF Lost
    <2>3. Lost((n - j) - 1)
      BY <1>5, <2>1, <2>2
    <2> QED
      BY <2>1, <2>3
  <1>8. Nat \subseteq S
    <2> HIDE DEF S
    <2> QED
      BY <1>6, <1>7, NaturalInduction
  <1>9. n - 1 \in S /\ n - 1 < n /\ n - (n - 1) = 1
    BY <1>2, <1>8
  <1>10. Lost(1)
    <2> HIDE DEF Lost
    <2> QED
      BY <1>9
  <1> QED
    BY <1>10 DEF CallerOff

(* What DecodeSpec decodes, in terms of the outermost call. *)
LEMMA DecodedIs ==
  ASSUME VInv, stack # <<>>, ~NothingToDecode
  PROVE  /\ stack[1] \in Frame /\ FrameOK(stack[1]) /\ stack[1].count = Len(types)
         /\ Abstract!Decoded(types, data, validate)
              = IF validate /\ Abstract!HeadsLen(Abstract!head_len, Shape(stack[1]),
                                                 Len(types)) # Len(data)
                THEN Abstract!Undefined ELSE RowOfFrame(stack[1], 0)
  <1> DEFINE f == stack[1]
             args == Abstract!TupleT(types)
             start == [data |-> data, strict |-> validate, base |-> 0, at |-> 0]
  <1>1. IInv /\ RightValues /\ TypedCalls /\ stack \in Seq(Frame)
    BY DEF VInv, HInv, TInv, IInv, TypeOK
  <1>2. 1 \in DOMAIN stack
    BY <1>1
  <1>3. /\ f \in Frame /\ FrameOK(f) /\ f.kind = "Params" /\ f.elems = types
        /\ f.base = 0 /\ ~f.dyn
    BY <1>1, <1>2 DEF IInv, StackOK, TypedCalls, RightValues
  <1> HIDE DEF f
  <1>4. f.count = Len(types)
    BY <1>3 DEF FrameOK
  <1>5. Shape(f) = args
    BY <1>3 DEF Shape, ParamType, Abstract!TupleT, Abstract!ParamType
  <1>6. FirstHead(f, 0) = start
    BY <1>3 DEF FirstHead, At
  <1>7. ~(data = <<>> /\ \E i \in DOMAIN types :
                           ~Abstract!is_empty_bytes_valid_encoding(types[i]))
    BY DEF NothingToDecode, is_empty_bytes_valid_encoding,
           Abstract!is_empty_bytes_valid_encoding
  <1>8. RowOfFrame(f, 0) = Abstract!Row(Abstract!value, args, Len(types), start)
    BY <1>4, <1>5, <1>6 DEF RowOfFrame
  <1>9. Abstract!Decoded(types, data, validate)
          = IF \/ data = <<>> /\ \E i \in DOMAIN types :
                                   ~Abstract!is_empty_bytes_valid_encoding(types[i])
               \/ validate /\ Abstract!HeadsLen(Abstract!head_len, args, Len(types))
                                # Len(data)
            THEN Abstract!Undefined
            ELSE Abstract!Row(Abstract!value, args, Len(types), start)
    BY DEF Abstract!Decoded
  <1> HIDE DEF args, start
  <1> QED
    BY <1>3, <1>4, <1>5, <1>7, <1>8, <1>9 DEF f

(* The heads of all arguments, when the outermost loop is done. *)
LEMMA HeadsOfAll ==
  ASSUME VInv, stack # <<>>, ~NothingToDecode, Len(stack) = 1, Top.next > Top.count
  PROVE  /\ Top = stack[1]
         /\ Abstract!HeadsLen(Abstract!head_len, Shape(stack[1]), Len(types)) = Top.off
  <1> DEFINE f == stack[1]
  <1>1. Top = f
    BY DEF Top
  <1>2. f \in Frame /\ FrameOK(f) /\ f.count = Len(types)
    BY DecodedIs
  <1>3. f.next - 1 = Len(types)
    BY <1>1, <1>2, FrameFields DEF FrameOK
  <1>4. HInv /\ 1 \in DOMAIN stack
    BY DEF VInv, HInv, TInv, IInv, TypeOK
  <1>5. AtHead(f, 0) /\ ~f.dyn
    BY <1>4 DEF HInv, CallerOff, VInv, RightValues
  <1> HIDE DEF f
  <1>6. HeadsBefore(f) \in Nat
    <2> DEFINE h == [i \in 1..Len(types) |-> head_size[f.elems[i]]]
    <2>1. f.off \in Nat
      BY <1>2, FrameFields
    <2>2. f.kind = "Params"
      BY <1>4 DEF f, HInv, TInv, IInv, StackOK
    <2>3. Len(f.elems) = Len(types) /\ f.elems \in Seq(ParamTypes)
      BY <1>2, <2>2, FrameFields DEF FrameOK
    <2>4. h \in Seq(Nat)
      <3>1. \A i \in 1..Len(types) : head_size[f.elems[i]] \in Nat
        BY <2>3, HeadSizeNat
      <3> QED
        BY <2>3, <3>1
    <2>5. HeadsBefore(f) = Total[h]
      BY <1>3, <2>2 DEF HeadsBefore
    <2> QED
      BY <2>4, <2>5, TotalNat
  <1>7. f.off = HeadsBefore(f)
    BY <1>5, <1>6 DEF AtHead
  <1> QED
    BY <1>1, <1>2, <1>3, <1>7, HeadsOfShape DEF f

(* A call that completes answers with the tokens of the data. *)
LEMMA CompletingAnswers ==
  ASSUME VInv, Wide, Completing
  PROVE  /\ Abstract!Decoded(types, data, validate).defined
         /\ Abstract!Decoded(types, data, validate).val = acc[1]
  <1>1. /\ status = "running" /\ Len(stack) = 1 /\ Top.next > Top.count
        /\ validate => Top.off = Len(data)
        /\ stack # <<>> /\ ~NothingToDecode
    BY DEF Completing, VInv
  <1>2. /\ Top = stack[1]
        /\ Abstract!HeadsLen(Abstract!head_len, Shape(stack[1]), Len(types)) = Top.off
    BY <1>1, HeadsOfAll
  <1>3. stack[1] \in Frame /\ FrameOK(stack[1])
    BY <1>1, DecodedIs
  <1>4. Abstract!Decoded(types, data, validate) = RowOfFrame(stack[1], 0)
    BY <1>1, <1>2, DecodedIs
  <1>5. TypedCalls /\ RightValues /\ 1 \in DOMAIN stack
    BY <1>1 DEF VInv, HInv, TInv, IInv, TypeOK
  <1>6. FilledBy(stack[1], acc[1]) /\ Filled(stack[1], 0, acc[1])
    BY <1>5 DEF TypedCalls, RightValues, CallerOff
  <1>7. RowOfFrame(stack[1], 0) = Abstract!Some(acc[1])
    BY <1>1, <1>2, <1>3, <1>6, RowComplete
  <1> QED
    BY <1>4, <1>7 DEF Abstract!Some

(* A call that fails has no tokens to answer with, or no memory. *)
LEMMA RefusingAnswers ==
  ASSUME VInv, Wide, Refusing
  PROVE  MayRunOut \/ ~Abstract!Decoded(types, data, validate).defined
  <1>1. CASE NothingToDecode
    <2>1. Abstract!Decoded(types, data, validate) = Abstract!Undefined
      BY <1>1 DEF Abstract!Decoded, NothingToDecode, is_empty_bytes_valid_encoding,
                  Abstract!is_empty_bytes_valid_encoding
    <2> QED
      BY <2>1 DEF Abstract!Undefined
  <1>2. CASE ~NothingToDecode /\ NoValue
    <2>1. stack # <<>>
      BY <1>2 DEF NoValue, VInv
    <2>2. Abstract!Decoded(types, data, validate)
            \in {Abstract!Undefined, RowOfFrame(stack[1], 0)}
      BY <1>2, <2>1, DecodedIs
    <2> QED
      BY <1>2, <2>2, LostAnswer DEF Abstract!Undefined
  <1>3. CASE ~NothingToDecode /\ Leftover
    <2>1. /\ Len(stack) = 1 /\ Top.next > Top.count /\ validate
          /\ Top.off # Len(data) /\ stack # <<>>
      BY <1>3 DEF Leftover, VInv
    <2>2. Abstract!HeadsLen(Abstract!head_len, Shape(stack[1]), Len(types)) = Top.off
      BY <1>3, <2>1, HeadsOfAll
    <2>3. Abstract!Decoded(types, data, validate) = Abstract!Undefined
      BY <1>3, <2>1, <2>2, DecodedIs
    <2> QED
      BY <2>3 DEF Abstract!Undefined
  <1> QED
    BY <1>1, <1>2, <1>3 DEF Refusing

(* decode and decode_validate implement DecodeSpec: for all types, data    *)
(* and modes, they answer once, with the tokens that the positions of the  *)
(* data define, and fail only if they define none or memory runs out.      *)
THEOREM DecoderImplementsSpec == ASSUME Wide PROVE Spec => Implements
  <1>1. Init => Abstract!Init
    BY DEF Init, Abstract!Init
  <1>2. ASSUME VInv, [Next]_vars
        PROVE  [Abstract!Answer]_Abstract!vars
    <2>1. CASE Completing
      <3>1. /\ status = "running" /\ status' = "Ok" /\ acc' = acc
            /\ UNCHANGED <<types, data, validate>>
        BY <2>1 DEF Completing
      <3>2. Abstract!Answer
        BY <1>2, <2>1, <3>1, CompletingAnswers DEF Abstract!Answer
      <3> QED
        BY <3>2
    <2>2. CASE Refusing
      <3>1. /\ status \in {"start", "running"} /\ status' = "Err"
            /\ UNCHANGED <<types, data, validate>>
        BY <2>2 DEF Refusing, Return
      <3>2. Abstract!Answer
        BY <1>2, <2>2, <3>1, RefusingAnswers DEF Abstract!Answer
      <3> QED
        BY <3>2
    <2>3. ASSUME status \in {"start", "running"}, status' \in {"start", "running"},
                 UNCHANGED <<types, data, validate>>
          PROVE  UNCHANGED Abstract!vars
      BY <2>3 DEF Abstract!vars
    <2>4. CASE Beginning
      BY <2>3, <2>4 DEF Beginning
    <2>5. CASE PushingValue
      BY <2>3, <2>5 DEF PushingValue, Deliver
    <2>6. CASE OpeningRow
      BY <2>3, <2>6 DEF OpeningRow, Open
    <2>7. CASE Leave
      BY <2>3, <2>7 DEF Leave
    <2>8. CASE UNCHANGED vars
      BY <2>8 DEF vars, Abstract!vars
    <2> QED
      BY <1>2, <2>1, <2>2, <2>4, <2>5, <2>6, <2>7, <2>8, StepMeans
      DEF VInv, HInv, TInv
  <1> QED
    BY <1>1, <1>2, InductiveValues, PTL DEF Spec, Implements, Abstract!Spec
=============================================================================
