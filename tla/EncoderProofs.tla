--------------------------- MODULE EncoderProofs ---------------------------
(***************************************************************************)
(* The proof that encode makes of the values of every type the encoding    *)
(* that AbiSpec defines, as long as its offsets are u32: the lengths that  *)
(* the Mediates predict, modulo 2^32, are those of what they append.       *)
(*                                                                         *)
(* It begins with the types and their functions, on which the proofs about *)
(* the decoder rest too: types are finite trees and tokens have a depth,   *)
(* so what is defined by recursion over them exists and obeys its          *)
(* definition.                                                             *)
(***************************************************************************)
EXTENDS Encoder, AbiSpec, Induction, SequenceTheorems

-----------------------------------------------------------------------------
(* Sums. *)

(* The right side of Total's definition. *)
TotalDef(f, ns) ==
  IF ns = <<>> THEN 0 ELSE f[SubSeq(ns, 1, Len(ns) - 1)] + ns[Len(ns)]

LengthOf == [s \in Seq(Nat) |-> Len(s)]

Totals == INSTANCE Recursion WITH
  Dom <- Seq(Nat), measure <- LengthOf, Def <- TotalDef

(* The measure of Total's recursion. *)
LEMMA Lengths ==
  /\ LengthOf \in [Seq(Nat) -> Nat]
  /\ \A s \in Seq(Nat) : LengthOf[s] = Len(s)
  BY DEF LengthOf

(* A sequence without its last number is one shorter. *)
LEMMA FrontOfNumbers ==
  ASSUME NEW ns \in Seq(Nat), ns # <<>>
  PROVE  LET front == SubSeq(ns, 1, Len(ns) - 1)
         IN  /\ front \in Seq(Nat) /\ Len(front) = Len(ns) - 1
             /\ \A i \in 1..(Len(ns) - 1) : front[i] = ns[i]
  <1>1. Len(ns) \in Nat /\ Len(ns) > 0
    OBVIOUS
  <1> DEFINE m == Len(ns) - 1
  <1>2. m \in Nat /\ \A i \in 1..m : ns[i] \in Nat
    BY <1>1
  <1> HIDE DEF m
  <1>3. /\ SubSeq(ns, 1, m) \in Seq(Nat)
        /\ Len(SubSeq(ns, 1, m)) = m
        /\ \A i \in 1..m : SubSeq(ns, 1, m)[i] = ns[i]
    BY <1>2, SubSeqProperties
  <1> QED
    BY <1>3 DEF m

(* Total obeys its definition. *)
LEMMA TotalEquation ==
  \A ns \in Seq(Nat) :
    Total[ns] = IF ns = <<>> THEN 0
                ELSE Total[SubSeq(ns, 1, Len(ns) - 1)] + ns[Len(ns)]
  <1>1. Totals!WellFounded
    <2>1. LengthOf \in [Seq(Nat) -> Nat]
      BY Lengths
    <2>2. ASSUME NEW f, NEW g, NEW ns \in Seq(Nat),
                 \A s \in Seq(Nat) : LengthOf[s] < LengthOf[ns] => f[s] = g[s]
          PROVE  TotalDef(f, ns) = TotalDef(g, ns)
      <3>1. CASE ns = <<>>
        BY <3>1 DEF TotalDef
      <3>2. CASE ns # <<>>
        <4> DEFINE front == SubSeq(ns, 1, Len(ns) - 1)
        <4>1. front \in Seq(Nat) /\ Len(front) = Len(ns) - 1 /\ Len(ns) \in Nat
          BY <3>2, FrontOfNumbers
        <4> HIDE DEF front
        <4>2. LengthOf[front] < LengthOf[ns]
          BY <4>1, Lengths
        <4>3. f[front] = g[front]
          BY <2>2, <4>1, <4>2
        <4> QED
          BY <3>2, <4>3 DEF TotalDef, front
      <3> QED
        BY <3>1, <3>2
    <2> QED
      BY <2>1, <2>2 DEF Totals!WellFounded
  <1>2. Total = CHOOSE f : f = [ns \in Seq(Nat) |-> TotalDef(f, ns)]
    BY DEF Total, TotalDef
  <1>3. Total = [ns \in Seq(Nat) |-> TotalDef(Total, ns)]
    BY <1>1, <1>2, NaturalInduction, Totals!Defined DEF Totals!Inductive
  <1> QED
    BY <1>3 DEF TotalDef

(* A sum of naturals is a natural. *)
LEMMA TotalNat == \A ns \in Seq(Nat) : Total[ns] \in Nat
  <1> DEFINE S == {ns \in Seq(Nat) : Total[ns] \in Nat}
  <1>1. ASSUME NEW ns \in Seq(Nat),
               \A s \in Seq(Nat) : LengthOf[s] < LengthOf[ns] => s \in S
        PROVE  ns \in S
    <2>1. CASE ns = <<>>
      <3>1. Total[ns] = 0
        BY <2>1, TotalEquation
      <3> QED
        BY <3>1
    <2>2. CASE ns # <<>>
      <3> DEFINE front == SubSeq(ns, 1, Len(ns) - 1)
      <3>1. front \in Seq(Nat) /\ Len(front) = Len(ns) - 1 /\ Len(ns) \in Nat
            /\ ns[Len(ns)] \in Nat
        BY <2>2, FrontOfNumbers
      <3>2. LengthOf[front] < LengthOf[ns]
        <4> HIDE DEF front
        <4> QED BY <3>1, Lengths
      <3>3. Total[front] \in Nat
        BY <1>1, <3>1, <3>2
      <3>4. Total[ns] = Total[front] + ns[Len(ns)]
        BY <2>2, TotalEquation
      <3> QED
        BY <3>1, <3>3, <3>4
    <2> QED
      BY <2>1, <2>2
  <1>2. LengthOf \in [Seq(Nat) -> Nat]
    BY Lengths
  <1> HIDE DEF S
  <1>3. Seq(Nat) \subseteq S
    BY <1>1, <1>2, MeasureInduction
  <1> QED
    BY <1>3 DEF S

(* A sum over 1..n, one term at a time. *)
LEMMA TotalStep ==
  ASSUME NEW n \in Nat, NEW h, \A i \in 1..(n + 1) : h[i] \in Nat
  PROVE  /\ Total[[i \in 1..n |-> h[i]]] \in Nat
         /\ Total[[i \in 1..(n + 1) |-> h[i]]]
              = Total[[i \in 1..n |-> h[i]]] + h[n + 1]
  <1> DEFINE ns == [i \in 1..(n + 1) |-> h[i]]
             front == [i \in 1..n |-> h[i]]
  <1>1. /\ ns \in Seq(Nat) /\ Len(ns) = n + 1 /\ ns # <<>>
        /\ ns[n + 1] = h[n + 1]
    OBVIOUS
  <1>2. front \in Seq(Nat) /\ Len(front) = n
    OBVIOUS
  <1>3. SubSeq(ns, 1, Len(ns) - 1) = front
    <2> DEFINE sub == SubSeq(ns, 1, Len(ns) - 1)
    <2>1. /\ sub \in Seq(Nat) /\ Len(sub) = n
          /\ \A i \in 1..n : sub[i] = ns[i]
      <3> HIDE DEF ns
      <3> QED BY <1>1, FrontOfNumbers
    <2>2. \A i \in 1..n : ns[i] = front[i]
      OBVIOUS
    <2>3. \A i \in 1..Len(sub) : sub[i] = front[i]
      BY <2>1, <2>2
    <2> HIDE DEF sub, ns, front
    <2>4. sub = front
      BY <1>2, <2>1, <2>3, SeqEqual
    <2> QED
      BY <2>4 DEF sub
  <1> HIDE DEF ns, front
  <1>4. Total[ns] = Total[front] + ns[n + 1]
    BY <1>1, <1>3, TotalEquation
  <1> QED
    BY <1>1, <1>2, <1>4, TotalNat DEF ns, front

(* The empty sum. *)
LEMMA TotalEmpty == ASSUME NEW h PROVE Total[[i \in 1..0 |-> h[i]]] = 0
  <1>1. [i \in 1..0 |-> h[i]] = <<>> /\ <<>> \in Seq(Nat)
    OBVIOUS
  <1> QED
    BY <1>1, TotalEquation

-----------------------------------------------------------------------------
(* Types. *)

(* The fields of a type, and the types it is made of. *)
LEMMA TypeFields ==
  ASSUME NEW t \in ParamTypes
  PROVE  /\ t.kind \in Kinds /\ t.size \in Nat /\ t.subs \in Seq(ParamTypes)
         /\ t.kind \in {"Array", "FixedArray"} => Len(t.subs) = 1
         /\ t.subs # <<>> => t.kind \in {"Array", "FixedArray", "Tuple"}
  BY ParamTypesAssumption

(* Components are types of fewer nodes. *)
LEMMA Components ==
  ASSUME NEW t \in ParamTypes, NEW i \in DOMAIN t.subs
  PROVE  /\ t.subs[i] \in ParamTypes
         /\ nodes[t.subs[i]] < nodes[t]
  <1>1. t.subs \in Seq(ParamTypes)
    BY TypeFields
  <1> QED
    BY <1>1, FiniteTypesAssumption

(* Induction over the types: what holds of a type whenever it holds of its *)
(* components holds of every type.                                         *)
LEMMA TypeInduction ==
  ASSUME NEW S,
         \A t \in ParamTypes : (\A i \in DOMAIN t.subs : t.subs[i] \in S) => t \in S
  PROVE  ParamTypes \subseteq S
  <1>1. nodes \in [ParamTypes -> Nat]
    BY FiniteTypesAssumption
  <1>2. ASSUME NEW t \in ParamTypes,
               \A s \in ParamTypes : nodes[s] < nodes[t] => s \in S
        PROVE  t \in S
    BY <1>2, Components
  <1> QED
    BY <1>1, <1>2, MeasureInduction

(* The right side of is_dynamic's definition. *)
DynamicDef(f, t) ==
  \/ t.kind \in {"Bytes", "String", "Array"}
  \/ /\ t.kind \in {"FixedArray", "Tuple"}
     /\ \E i \in DOMAIN t.subs : f[t.subs[i]]

Dynamic == INSTANCE Recursion WITH
  Dom <- ParamTypes, measure <- nodes, Def <- DynamicDef

(* is_dynamic obeys its definition. *)
LEMMA IsDynamic ==
  ASSUME NEW t \in ParamTypes
  PROVE  is_dynamic[t] = \/ t.kind \in {"Bytes", "String", "Array"}
                         \/ /\ t.kind \in {"FixedArray", "Tuple"}
                            /\ \E i \in DOMAIN t.subs : is_dynamic[t.subs[i]]
  <1>1. Dynamic!WellFounded
    <2>1. ASSUME NEW f, NEW g, NEW s \in ParamTypes,
                 \A u \in ParamTypes : nodes[u] < nodes[s] => f[u] = g[u]
          PROVE  DynamicDef(f, s) = DynamicDef(g, s)
      <3>1. \A i \in DOMAIN s.subs : f[s.subs[i]] = g[s.subs[i]]
        BY <2>1, Components
      <3> QED
        BY <3>1 DEF DynamicDef
    <2> QED
      BY <2>1, FiniteTypesAssumption DEF Dynamic!WellFounded
  <1>2. is_dynamic = CHOOSE f : f = [s \in ParamTypes |-> DynamicDef(f, s)]
    BY DEF is_dynamic, DynamicDef
  <1>3. is_dynamic = [s \in ParamTypes |-> DynamicDef(is_dynamic, s)]
    BY <1>1, <1>2, NaturalInduction, Dynamic!Defined DEF Dynamic!Inductive
  <1>4. is_dynamic[t] = DynamicDef(is_dynamic, t)
    BY <1>3
  <1> QED
    BY <1>4 DEF DynamicDef

-----------------------------------------------------------------------------
(* Sequences of bytes in a row. *)

(* The bytes of d from p on are those of e, and more may follow. *)
Holds(d, p, e) == p + Len(e) <= Len(d) /\ \A j \in 1..Len(e) : d[p + j] = e[j]

(* The lengths of the first k, together. *)
LenTo(ss, k) == Total[[i \in 1..k |-> Len(ss[i])]]

(* Bytes before or behind others are still there. *)
LEMMA HoldsInConcat ==
  ASSUME NEW a \in Seq(Byte), NEW b \in Seq(Byte)
  PROVE  /\ a \o b \in Seq(Byte) /\ Len(a \o b) = Len(a) + Len(b)
         /\ \A p \in Nat : \A e \in Seq(Byte) :
              /\ Holds(a, p, e) => Holds(a \o b, p, e)
              /\ Holds(b, p, e) => Holds(a \o b, Len(a) + p, e)
         /\ Holds(a \o b, 0, a) /\ Holds(a \o b, Len(a), b)
  <1> DEFINE c == a \o b
  <1>1. /\ c \in Seq(Byte) /\ Len(c) = Len(a) + Len(b)
        /\ Len(a) \in Nat /\ Len(b) \in Nat
        /\ \A j \in 1..(Len(a) + Len(b)) : c[j] = IF j <= Len(a) THEN a[j] ELSE b[j - Len(a)]
    BY ConcatProperties, LenProperties
  <1> HIDE DEF c
  <1>2. ASSUME NEW p \in Nat, NEW e \in Seq(Byte), Holds(a, p, e)
        PROVE  Holds(c, p, e)
    <2>1. Len(e) \in Nat
      BY LenProperties
    <2>2. ASSUME NEW j \in 1..Len(e) PROVE c[p + j] = e[j]
      <3>1. p + j \in 1..(Len(a) + Len(b)) /\ p + j <= Len(a)
        BY <1>1, <1>2, <2>1 DEF Holds
      <3> QED
        BY <1>1, <1>2, <3>1 DEF Holds
    <2> QED
      BY <1>1, <1>2, <2>1, <2>2 DEF Holds
  <1>3. ASSUME NEW p \in Nat, NEW e \in Seq(Byte), Holds(b, p, e)
        PROVE  Holds(c, Len(a) + p, e)
    <2>1. Len(e) \in Nat
      BY LenProperties
    <2>2. ASSUME NEW j \in 1..Len(e) PROVE c[Len(a) + p + j] = e[j]
      <3>1. Len(a) + p + j \in 1..(Len(a) + Len(b)) /\ ~(Len(a) + p + j <= Len(a))
            /\ Len(a) + p + j - Len(a) = p + j
        BY <1>1, <1>3, <2>1 DEF Holds
      <3>2. c[Len(a) + p + j] = b[p + j]
        BY <1>1, <3>1
      <3>3. b[p + j] = e[j]
        BY <1>3 DEF Holds
      <3> QED
        BY <3>2, <3>3
    <2> QED
      BY <1>1, <1>3, <2>1, <2>2 DEF Holds
  <1>4. Holds(a, 0, a) /\ Holds(b, 0, b) /\ Len(a) + 0 = Len(a)
    BY <1>1 DEF Holds
  <1>5. Holds(c, 0, a) /\ Holds(c, Len(a), b)
    <2>1. Holds(c, Len(a) + 0, b)
      BY <1>3, <1>4
    <2> QED
      BY <1>2, <1>4, <2>1
  <1> QED
    BY <1>1, <1>2, <1>3, <1>5 DEF c

(* What is in a part of the data is in the data. *)
LEMMA HoldsWithin ==
  ASSUME NEW d \in Seq(Byte), NEW p \in Nat, NEW s \in Seq(Byte), Holds(d, p, s),
         NEW q \in Nat, NEW e \in Seq(Byte), Holds(s, q, e)
  PROVE  Holds(d, p + q, e)
  <1>1. Len(d) \in Nat /\ Len(s) \in Nat /\ Len(e) \in Nat
    BY LenProperties
  <1>2. ASSUME NEW j \in 1..Len(e) PROVE d[p + q + j] = e[j]
    <2>1. q + j \in 1..Len(s) /\ p + (q + j) = p + q + j
      BY <1>1 DEF Holds
    <2>2. d[p + (q + j)] = s[q + j] /\ s[q + j] = e[j]
      BY <2>1 DEF Holds
    <2> QED
      BY <2>1, <2>2
  <1> QED
    BY <1>1, <1>2 DEF Holds

(* The function that FlattenSeq is defined by. *)
IsFlatten(f, ss, n) == f = [i \in 1..n |-> IF i = 1 THEN ss[i] ELSE f[i - 1] \o ss[i]]

(* There is such a function for every number of rows. *)
LEMMA FlattenExists == \A n \in Nat : \A ss : \E f : IsFlatten(f, ss, n)
  <1> SUFFICES ASSUME NEW ss PROVE \A n \in Nat : \E f : IsFlatten(f, ss, n)
    OBVIOUS
  <1> DEFINE S == {n \in Nat : \E f : IsFlatten(f, ss, n)}
  <1>1. 0 \in S
    <2> DEFINE f == [i \in 1..0 |-> ss[i]]
    <2>1. f = [i \in 1..0 |-> IF i = 1 THEN ss[i] ELSE f[i - 1] \o ss[i]]
      OBVIOUS
    <2> HIDE DEF f
    <2> QED
      BY <2>1 DEF IsFlatten
  <1>2. ASSUME NEW n \in Nat, n \in S PROVE n + 1 \in S
    <2>1. PICK f : IsFlatten(f, ss, n)
      BY <1>2
    <2> DEFINE last == IF n + 1 = 1 THEN ss[n + 1] ELSE f[n] \o ss[n + 1]
               g == [i \in 1..(n + 1) |-> IF i = n + 1 THEN last ELSE f[i]]
    <2>2. ASSUME NEW i \in 1..(n + 1)
          PROVE  g[i] = IF i = 1 THEN ss[i] ELSE g[i - 1] \o ss[i]
      <3>1. CASE i = n + 1
        <4>1. CASE n = 0
          BY <3>1, <4>1
        <4>2. CASE n # 0
          <5>1. i - 1 = n /\ n \in 1..(n + 1) /\ n # n + 1 /\ i # 1
            BY <3>1, <4>2
          <5>2. g[i - 1] = f[n]
            BY <5>1
          <5>3. g[i] = f[n] \o ss[n + 1]
            BY <3>1, <4>2, <5>1
          <5> QED
            BY <3>1, <5>1, <5>2, <5>3
        <4> QED
          BY <4>1, <4>2
      <3>2. CASE i # n + 1
        <4>1. i \in 1..n
          BY <3>2
        <4>2. f[i] = IF i = 1 THEN ss[i] ELSE f[i - 1] \o ss[i]
          BY <2>1, <4>1 DEF IsFlatten
        <4>3. g[i] = f[i]
          BY <3>2
        <4>4. i # 1 => g[i - 1] = f[i - 1]
          BY <4>1
        <4> HIDE DEF g
        <4> QED
          BY <4>2, <4>3, <4>4
      <3> QED
        BY <3>1, <3>2
    <2>3. g = [i \in 1..(n + 1) |-> g[i]]
      OBVIOUS
    <2> HIDE DEF g
    <2>4. IsFlatten(g, ss, n + 1)
      BY <2>2, <2>3 DEF IsFlatten
    <2> QED
      BY <2>4
  <1> HIDE DEF S
  <1>3. Nat \subseteq S
    BY <1>1, <1>2, NaturalInduction
  <1> QED
    BY <1>3 DEF S

(* The lengths one by one. *)
LEMMA LenToStep ==
  ASSUME NEW ss \in Seq(Seq(Byte))
  PROVE  /\ LenTo(ss, 0) = 0
         /\ \A k \in 0..Len(ss) : LenTo(ss, k) \in Nat
         /\ \A k \in 0..(Len(ss) - 1) :
              LenTo(ss, k + 1) = LenTo(ss, k) + Len(ss[k + 1])
  <1> DEFINE h(i) == Len(ss[i])
             H == [i \in 1..Len(ss) |-> h(i)]
  <1>0. Len(ss) \in Nat
    BY LenProperties
  <1>1. \A i \in 1..Len(ss) : H[i] = Len(ss[i]) /\ H[i] \in Nat
    <2>1. \A i \in 1..Len(ss) : Len(ss[i]) \in Nat
      BY ElementOfSeq, LenProperties
    <2> QED
      BY <2>1
  <1> HIDE DEF H
  <1>2. ASSUME NEW k \in 0..Len(ss) PROVE LenTo(ss, k) = Total[[i \in 1..k |-> H[i]]]
    <2>1. [i \in 1..k |-> Len(ss[i])] = [i \in 1..k |-> H[i]]
      BY <1>0, <1>1
    <2> QED
      BY <2>1 DEF LenTo
  <1>3. LenTo(ss, 0) = 0
    <2>1. 0 \in 0..Len(ss)
      BY <1>0
    <2>2. Total[[i \in 1..0 |-> H[i]]] = 0
      BY TotalEmpty
    <2> QED
      BY <1>2, <2>1, <2>2
  <1>4. ASSUME NEW k \in 0..(Len(ss) - 1)
        PROVE  /\ LenTo(ss, k) \in Nat
               /\ LenTo(ss, k + 1) = LenTo(ss, k) + Len(ss[k + 1])
               /\ LenTo(ss, k + 1) \in Nat
    <2>1. k \in Nat /\ (\A i \in 1..(k + 1) : H[i] \in Nat) /\ k + 1 \in 1..Len(ss)
          /\ k \in 0..Len(ss) /\ k + 1 \in 0..Len(ss)
      BY <1>0, <1>1
    <2>2. /\ Total[[i \in 1..k |-> H[i]]] \in Nat
          /\ Total[[i \in 1..(k + 1) |-> H[i]]] = Total[[i \in 1..k |-> H[i]]] + H[k + 1]
      BY <2>1, TotalStep
    <2>3. LenTo(ss, k) = Total[[i \in 1..k |-> H[i]]]
          /\ LenTo(ss, k + 1) = Total[[i \in 1..(k + 1) |-> H[i]]]
          /\ H[k + 1] = Len(ss[k + 1]) /\ H[k + 1] \in Nat
      BY <1>1, <1>2, <2>1
    <2> QED
      BY <2>2, <2>3
  <1>5. ASSUME NEW k \in 0..Len(ss) PROVE LenTo(ss, k) \in Nat
    <2>1. CASE k = 0
      BY <1>3, <2>1
    <2>2. CASE k # 0
      <3>1. k - 1 \in 0..(Len(ss) - 1) /\ k - 1 + 1 = k
        BY <1>0, <2>2
      <3> QED
        BY <1>4, <3>1
    <2> QED
      BY <2>1, <2>2
  <1> QED
    BY <1>3, <1>4, <1>5

(* FlattenSeq writes sequences one behind the other. *)
LEMMA FlattenFacts ==
  ASSUME NEW ss \in Seq(Seq(Byte))
  PROVE  /\ FlattenSeq(ss) \in Seq(Byte)
         /\ Len(FlattenSeq(ss)) = LenTo(ss, Len(ss))
         /\ \A i \in 1..Len(ss) : Holds(FlattenSeq(ss), LenTo(ss, i - 1), ss[i])
  <1> DEFINE n == Len(ss)
             f == CHOOSE g : IsFlatten(g, ss, n)
  <1>1. n \in Nat /\ \A i \in 1..n : ss[i] \in Seq(Byte)
    BY LenProperties, ElementOfSeq
  <1>2. IsFlatten(f, ss, n)
    BY <1>1, FlattenExists
  <1>3. FlattenSeq(ss) = IF n = 0 THEN ss ELSE f[n]
    BY DEF FlattenSeq, IsFlatten
  <1> HIDE DEF f
  <1> DEFINE Right(k) == /\ f[k] \in Seq(Byte) /\ Len(f[k]) = LenTo(ss, k)
                         /\ \A i \in 1..k : Holds(f[k], LenTo(ss, i - 1), ss[i])
             S == {k \in Nat : k + 1 \in 1..n => Right(k + 1)}
  <1>4. 0 \in S
    <2> SUFFICES ASSUME 1 \in 1..n PROVE Right(1)
      OBVIOUS
    <2>1. f[1] = ss[1] /\ ss[1] \in Seq(Byte)
      BY <1>1, <1>2 DEF IsFlatten
    <2>2. LenTo(ss, 0) = 0 /\ LenTo(ss, 0 + 1) = LenTo(ss, 0) + Len(ss[0 + 1])
          /\ Len(ss[1]) \in Nat
      <3>1. 0 \in 0..(n - 1)
        BY <1>1
      <3> QED
        BY <2>1, <3>1, LenToStep, LenProperties
    <2>3. Holds(ss[1], 0, ss[1])
      BY <2>1, <2>2 DEF Holds
    <2>4. \A i \in 1..1 : i = 1 /\ i - 1 = 0
      OBVIOUS
    <2>5. LenTo(ss, 1) = Len(ss[1])
      BY <2>2
    <2> QED
      BY <2>1, <2>2, <2>3, <2>4, <2>5
  <1>5. ASSUME NEW k \in Nat, k \in S PROVE k + 1 \in S
    <2> DEFINE m == k + 1
    <2> SUFFICES ASSUME m + 1 \in 1..n PROVE Right(m + 1)
      OBVIOUS
    <2>1. m \in 1..n /\ m + 1 # 1 /\ m + 1 - 1 = m /\ m \in 0..(n - 1) /\ m \in Nat
      BY <1>1
    <2>2. Right(m)
      BY <1>5, <2>1
    <2>3. f[m + 1] = f[m] \o ss[m + 1] /\ ss[m + 1] \in Seq(Byte)
      <3>1. ss[m + 1] \in Seq(Byte)
        BY <1>1
      <3> HIDE DEF m
      <3>2. \A i \in 1..n : f[i] = IF i = 1 THEN ss[i] ELSE f[i - 1] \o ss[i]
        BY <1>2 DEF IsFlatten
      <3>3. PICK i \in 1..n : i = m + 1
        OBVIOUS
      <3>4. f[i] = f[i - 1] \o ss[i]
        BY <2>1, <3>2, <3>3
      <3> QED
        BY <2>1, <3>1, <3>3, <3>4
    <2>4. LenTo(ss, m + 1) = LenTo(ss, m) + Len(ss[m + 1]) /\ LenTo(ss, m) \in Nat
          /\ \A i \in 1..m : LenTo(ss, i - 1) \in Nat
      <3>1. \A i \in 1..m : i - 1 \in 0..n
        BY <1>1, <2>1
      <3>2. m \in 0..n
        BY <1>1, <2>1
      <3> QED
        BY <2>1, <3>1, <3>2, LenToStep
    <2> HIDE DEF m
    <2>5. /\ f[m + 1] \in Seq(Byte) /\ Len(f[m + 1]) = LenTo(ss, m + 1)
          /\ \A i \in 1..m : Holds(f[m], LenTo(ss, i - 1), ss[i])
                => Holds(f[m + 1], LenTo(ss, i - 1), ss[i])
          /\ Holds(f[m + 1], LenTo(ss, m), ss[m + 1])
      <3>1. f[m] \in Seq(Byte) /\ Len(f[m]) = LenTo(ss, m)
        BY <2>2
      <3>2. \A i \in 1..m : ss[i] \in Seq(Byte)
        BY <1>1, <2>1
      <3>3. Len(f[m] \o ss[m + 1]) = Len(f[m]) + Len(ss[m + 1])
            /\ f[m] \o ss[m + 1] \in Seq(Byte)
            /\ Holds(f[m] \o ss[m + 1], Len(f[m]), ss[m + 1])
        BY <2>3, <3>1, HoldsInConcat
      <3>4. \A i \in 1..m : Holds(f[m], LenTo(ss, i - 1), ss[i])
                => Holds(f[m] \o ss[m + 1], LenTo(ss, i - 1), ss[i])
        BY <2>3, <2>4, <3>1, <3>2, HoldsInConcat
      <3> HIDE DEF Right
      <3> QED
        BY <2>3, <2>4, <3>1, <3>3, <3>4
    <2>6. ASSUME NEW i \in 1..(m + 1) PROVE Holds(f[m + 1], LenTo(ss, i - 1), ss[i])
      <3>1. CASE i = m + 1
        BY <2>1, <2>5, <3>1
      <3>2. CASE i # m + 1
        <4>1. i \in 1..m
          BY <2>1, <3>2
        <4> QED
          BY <2>2, <2>5, <4>1
      <3> QED
        BY <3>1, <3>2
    <2> QED
      BY <2>5, <2>6
  <1> HIDE DEF S
  <1>6. Nat \subseteq S
    BY <1>4, <1>5, NaturalInduction
  <1>7. CASE n = 0
    <2>1. ss = <<>> /\ <<>> \in Seq(Byte) /\ Len(<<>>) = 0
      BY <1>7, EmptySeq
    <2>2. LenTo(ss, 0) = 0
      BY LenToStep
    <2> QED
      BY <1>3, <1>7, <2>1, <2>2
  <1>8. CASE n # 0
    <2>1. n - 1 \in Nat /\ n - 1 + 1 = n /\ n \in 1..n
      BY <1>1, <1>8
    <2>2. Right(n)
      <3>1. n - 1 \in S
        BY <1>6, <2>1
      <3> HIDE DEF Right
      <3> QED
        BY <2>1, <3>1 DEF S
    <2> QED
      BY <1>3, <1>8, <2>2
  <1> QED
    BY <1>7, <1>8

(* Every byte of them is one of a part. *)
LEMMA FlattenBytes ==
  ASSUME NEW ss \in Seq(Seq(Byte))
  PROVE  \A j \in 1..Len(FlattenSeq(ss)) :
           \E i \in 1..Len(ss) : \E m \in 1..Len(ss[i]) :
             j = LenTo(ss, i - 1) + m /\ FlattenSeq(ss)[j] = ss[i][m]
  <1> DEFINE n == Len(ss)
             F == FlattenSeq(ss)
             In(k) == \A j \in 1..LenTo(ss, k) :
                        \E i \in 1..k : \E m \in 1..Len(ss[i]) : j = LenTo(ss, i - 1) + m
             S == {k \in Nat : k \in 0..n => In(k)}
  <1>1. n \in Nat /\ \A i \in 1..n : Len(ss[i]) \in Nat
    BY LenProperties, ElementOfSeq
  <1>2. 0 \in S
    BY LenToStep
  <1>3. ASSUME NEW k \in Nat, k \in S PROVE k + 1 \in S
    <2> SUFFICES ASSUME k + 1 \in 0..n, NEW j \in 1..LenTo(ss, k + 1)
                 PROVE  \E i \in 1..(k + 1) : \E m \in 1..Len(ss[i]) : j = LenTo(ss, i - 1) + m
      OBVIOUS
    <2>1. k \in 0..n /\ k \in 0..(n - 1) /\ k + 1 \in 1..n
      BY <1>1
    <2>2. LenTo(ss, k) \in Nat /\ LenTo(ss, k + 1) = LenTo(ss, k) + Len(ss[k + 1])
      BY <2>1, LenToStep
    <2>3. In(k)
      BY <1>3, <2>1
    <2>4. CASE j <= LenTo(ss, k)
      <3>1. PICK i \in 1..k : \E m \in 1..Len(ss[i]) : j = LenTo(ss, i - 1) + m
        BY <2>2, <2>3, <2>4
      <3> QED BY <3>1
    <2>5. CASE j > LenTo(ss, k)
      <3> DEFINE m == j - LenTo(ss, k)
      <3>1. m \in 1..Len(ss[k + 1]) /\ j = LenTo(ss, k) + m
        BY <1>1, <2>1, <2>2, <2>5
      <3>2. k + 1 \in 1..(k + 1) /\ (k + 1) - 1 = k
        OBVIOUS
      <3> HIDE DEF m
      <3> QED BY <3>1, <3>2
    <2> QED BY <2>2, <2>4, <2>5
  <1> HIDE DEF S
  <1>4. Nat \subseteq S
    BY <1>2, <1>3, NaturalInduction
  <1>5. In(n)
    <2>1. n \in S /\ n \in 0..n
      BY <1>1, <1>4
    <2> HIDE DEF In
    <2> QED BY <2>1 DEF S
  <1>6. Len(F) = LenTo(ss, n) /\ \A i \in 1..n : Holds(F, LenTo(ss, i - 1), ss[i])
    BY FlattenFacts
  <1> HIDE DEF n, F
  <1>7. ASSUME NEW j \in 1..Len(F)
        PROVE  \E i \in 1..n : \E m \in 1..Len(ss[i]) :
                 j = LenTo(ss, i - 1) + m /\ F[j] = ss[i][m]
    <2>1. PICK i \in 1..n : \E m \in 1..Len(ss[i]) : j = LenTo(ss, i - 1) + m
      BY <1>5, <1>6, <1>7
    <2>2. PICK m \in 1..Len(ss[i]) : j = LenTo(ss, i - 1) + m
      BY <2>1
    <2>3. F[j] = ss[i][m]
      BY <1>6, <2>2 DEF Holds
    <2> QED BY <2>2, <2>3
  <1> QED
    BY <1>7 DEF n, F

(* The sizes of bytes and of integers are positive numbers. *)
LEMMA RadixFacts == Radix \in Nat /\ Radix > 1 /\ U32 \in Nat /\ U32 > 0
                    /\ UsizeSize \in Nat /\ UsizeSize >= U32
  <1>1. \A x, y \in Nat : x > 0 /\ y > 0 => x * y \in Nat /\ x * y > 0
    OBVIOUS
  <1> QED
    BY <1>1, WidthAssumption DEF U32

(* Division with a remainder. *)
LEMMA Quotient ==
  ASSUME NEW a \in Nat, NEW m \in Nat, m > 0
  PROVE  /\ a \div m \in Nat /\ a % m \in 0..(m - 1)
         /\ a = (a \div m) * m + (a % m)
  <1> DEFINE q == a \div m
             r == a % m
  <1>1. q \in Nat
    BY Z3
  <1>2. r \in 0..(m - 1)
    OBVIOUS
  <1>3. r = a - m * q
    BY Z3
  <1> HIDE DEF q, r
  <1>4. m * q = q * m /\ m * q \in Nat
    BY <1>1
  <1>5. a = q * m + r
    BY <1>1, <1>2, <1>3, <1>4
  <1> QED
    BY <1>1, <1>2, <1>5 DEF q, r

(* Dividing a sum of a multiple of m and a number below m gives both back. *)
LEMMA Remainder ==
  ASSUME NEW q \in Nat, NEW m \in Nat, m > 0, NEW r \in 0..(m - 1)
  PROVE  (q * m + r) % m = r /\ (q * m + r) \div m = q
  <1> DEFINE a == q * m + r
             p == a \div m
             s == a % m
  <1>0. q * m \in Nat
    OBVIOUS
  <1>1. a \in Nat
    BY <1>0
  <1> HIDE DEF a
  <1>2. p \in Nat /\ s \in 0..(m - 1) /\ a = p * m + s
    BY <1>1, Quotient
  <1> HIDE DEF p, s
  <1>3. q * m + r = p * m + s
    BY <1>2 DEF a
  <1>4. p = q
    <2>1. ASSUME NEW x \in Nat, NEW y \in Nat, x < y PROVE x * m + m <= y * m
      <3>1. PICK d \in Nat : y = x + 1 + d
        <4>1. y - x - 1 \in Nat /\ y = x + 1 + (y - x - 1)
          BY <2>1
        <4> QED BY <4>1
      <3>2. d * m \in Nat /\ x * m \in Nat
        OBVIOUS
      <3>3. y * m = x * m + m + d * m
        BY <3>1
      <3> QED
        BY <3>2, <3>3
    <2>2. p * m \in Nat /\ q * m \in Nat
      BY <1>2
    <2>3. p < q => FALSE
      <3> SUFFICES ASSUME p < q PROVE FALSE OBVIOUS
      <3>1. p * m + m <= q * m BY <1>2, <2>1
      <3> QED BY <1>2, <1>3, <2>2, <3>1
    <2>4. q < p => FALSE
      <3> SUFFICES ASSUME q < p PROVE FALSE OBVIOUS
      <3>1. q * m + m <= p * m BY <1>2, <2>1
      <3> QED BY <1>2, <1>3, <2>2, <3>1
    <2> QED BY <1>2, <2>3, <2>4
  <1>5. s = r
    <2>1. p * m \in Nat BY <1>2
    <2> QED BY <1>2, <1>3, <1>4, <2>1
  <1> QED
    BY <1>4, <1>5 DEF a, p, s

(* Numbers modulo 2^32. *)
LEMMA U32Range ==
  ASSUME NEW a \in Nat
  PROVE  /\ AsU32(a) \in Nat /\ AsU32(a) < U32
         /\ a < U32 => AsU32(a) = a
         /\ \E q \in Nat : a = q * U32 + AsU32(a)
  <1> DEFINE u == U32
  <1>1. u \in Nat /\ u > 0
    BY RadixFacts
  <1> HIDE DEF u
  <1>2. /\ a \div u \in Nat /\ a % u \in 0..(u - 1)
        /\ a = (a \div u) * u + (a % u)
    BY <1>1, Quotient
  <1>3. ASSUME a < u PROVE a % u = a
    <2>1. a \in 0..(u - 1) /\ 0 * u + a = a
      BY <1>1, <1>3
    <2>2. (0 * u + a) % u = a
      BY <1>1, <2>1, Remainder
    <2> QED BY <2>1, <2>2
  <1> QED
    BY <1>1, <1>2, <1>3 DEF AsU32, u

(* Whole multiples of 2^32 are lost. *)
LEMMA U32Shift ==
  ASSUME NEW a \in Nat, NEW q \in Nat
  PROVE  AsU32(q * U32 + a) = AsU32(a)
  <1> DEFINE u == U32
  <1>1. u \in Nat /\ u > 0
    BY RadixFacts
  <1> HIDE DEF u
  <1> DEFINE p == a \div u
             r == a % u
  <1>2. p \in Nat /\ r \in 0..(u - 1) /\ a = p * u + r
    BY <1>1, Quotient
  <1> HIDE DEF p
  <1>3. q * u + a = (q + p) * u + r /\ q + p \in Nat
    BY <1>1, <1>2
  <1>4. ((q + p) * u + r) % u = r
    <2> HIDE DEF r
    <2> QED BY <1>1, <1>2, <1>3, Remainder
  <1>5. (q * u + a) % u = r
    BY <1>3, <1>4
  <1> QED
    BY <1>5 DEF AsU32, u

(* Wrapping early or late makes no difference to a sum or a product. *)
LEMMA U32Sums ==
  ASSUME NEW a \in Nat, NEW b \in Nat
  PROVE  /\ AsU32(AsU32(a) + b) = AsU32(a + b)
         /\ AsU32(a + AsU32(b)) = AsU32(a + b)
         /\ AsU32(a * AsU32(b)) = AsU32(a * b)
  <1>1. PICK p \in Nat : a = p * U32 + AsU32(a)
    BY U32Range
  <1>2. PICK q \in Nat : b = q * U32 + AsU32(b)
    BY U32Range
  <1> DEFINE u == U32
             x == AsU32(a)
             y == AsU32(b)
  <1>3. u \in Nat /\ x \in Nat /\ y \in Nat /\ a = p * u + x /\ b = q * u + y
    BY <1>1, <1>2, U32Range, RadixFacts
  <1>4. \A n, k \in Nat : AsU32(k * u + n) = AsU32(n)
    BY U32Shift
  <1> HIDE DEF u, x, y
  <1>5. a + b = p * u + (x + b) /\ a + b = q * u + (a + y)
    <2>1. p * u \in Nat /\ q * u \in Nat BY <1>3
    <2> QED BY <1>3, <2>1
  <1>6. a * b = (a * q) * u + a * y /\ a * q \in Nat /\ a * y \in Nat
    BY <1>3
  <1>7. AsU32(x + b) = AsU32(a + b) /\ AsU32(a + y) = AsU32(a + b)
    <2>1. x + b \in Nat /\ a + y \in Nat BY <1>3
    <2> QED BY <1>4, <1>5, <2>1
  <1>8. AsU32(a * y) = AsU32(a * b)
    BY <1>4, <1>6
  <1> QED
    BY <1>7, <1>8 DEF x, y

(* Sums that agree modulo 2^32 term by term. *)
LEMMA TotalU32 ==
  ASSUME NEW n \in Nat, NEW g \in [1..n -> Nat], NEW h \in [1..n -> Nat],
         \A i \in 1..n : AsU32(g[i]) = AsU32(h[i])
  PROVE  AsU32(Total[g]) = AsU32(Total[h])
  <1> DEFINE G(k) == Total[[i \in 1..k |-> g[i]]]
             H(k) == Total[[i \in 1..k |-> h[i]]]
             S == {k \in Nat : k <= n => /\ G(k) \in Nat /\ H(k) \in Nat
                                         /\ AsU32(G(k)) = AsU32(H(k))}
  <1>1. 0 \in S
    <2>1. G(0) = 0 /\ H(0) = 0
      BY TotalEmpty
    <2> HIDE DEF G, H
    <2> QED
      BY <2>1
  <1>2. ASSUME NEW k \in Nat, k \in S PROVE k + 1 \in S
    <2> HIDE DEF G, H
    <2> SUFFICES ASSUME k + 1 <= n
                 PROVE  /\ G(k + 1) \in Nat /\ H(k + 1) \in Nat
                        /\ AsU32(G(k + 1)) = AsU32(H(k + 1))
      OBVIOUS
    <2> USE DEF G, H
    <2>1. /\ \A i \in 1..(k + 1) : g[i] \in Nat /\ h[i] \in Nat
          /\ k <= n /\ k + 1 \in 1..n
      OBVIOUS
    <2>2. G(k) \in Nat /\ G(k + 1) = G(k) + g[k + 1]
      BY <2>1, TotalStep
    <2>3. H(k) \in Nat /\ H(k + 1) = H(k) + h[k + 1]
      BY <2>1, TotalStep
    <2>4. AsU32(G(k)) = AsU32(H(k))
      BY <1>2, <2>1
    <2>5. g[k + 1] \in Nat /\ h[k + 1] \in Nat /\ AsU32(g[k + 1]) = AsU32(h[k + 1])
      BY <2>1
    <2> HIDE DEF G, H
    <2>6. \A a, b, c, d \in Nat : AsU32(a) = AsU32(b) /\ AsU32(c) = AsU32(d)
                                    => AsU32(a + c) = AsU32(b + d)
      <3> TAKE a, b, c, d \in Nat
      <3> HAVE AsU32(a) = AsU32(b) /\ AsU32(c) = AsU32(d)
      <3>1. AsU32(a + c) = AsU32(AsU32(a) + c) /\ AsU32(b + c) = AsU32(AsU32(b) + c)
        BY U32Sums
      <3>2. AsU32(b + c) = AsU32(b + AsU32(c)) /\ AsU32(b + d) = AsU32(b + AsU32(d))
        BY U32Sums
      <3> QED
        BY <3>1, <3>2
    <2>7. AsU32(G(k) + g[k + 1]) = AsU32(H(k) + h[k + 1])
      <3> DEFINE a == G(k)
                 b == H(k)
                 c == g[k + 1]
                 d == h[k + 1]
      <3>1. /\ a \in Nat /\ b \in Nat /\ c \in Nat /\ d \in Nat
            /\ AsU32(a) = AsU32(b) /\ AsU32(c) = AsU32(d)
        BY <2>2, <2>3, <2>4, <2>5
      <3> HIDE DEF a, b, c, d
      <3>2. AsU32(a + c) = AsU32(b + d)
        BY <2>6, <3>1
      <3> QED
        BY <3>2 DEF a, b, c, d
    <2> QED
      BY <2>2, <2>3, <2>5, <2>7
  <1> HIDE DEF S
  <1>3. Nat \subseteq S
    BY <1>1, <1>2, NaturalInduction
  <1>4. G(n) = Total[g] /\ H(n) = Total[h]
    <2>1. [i \in 1..n |-> g[i]] = g /\ [i \in 1..n |-> h[i]] = h
      OBVIOUS
    <2> QED BY <2>1
  <1> HIDE DEF G, H
  <1>5. AsU32(G(n)) = AsU32(H(n))
    BY <1>3 DEF S
  <1> QED
    BY <1>4, <1>5

(* A part of a sum. *)
LEMMA TotalPart ==
  ASSUME NEW n \in Nat, NEW h, \A i \in 1..n : h[i] \in Nat, NEW k \in 0..n
  PROVE  /\ Total[[i \in 1..k |-> h[i]]] \in Nat
         /\ Total[[i \in 1..k |-> h[i]]] <= Total[[i \in 1..n |-> h[i]]]
  <1> DEFINE H(j) == Total[[i \in 1..j |-> h[i]]]
             S == {j \in Nat : k + j <= n => /\ H(k + j) \in Nat /\ H(k) <= H(k + j)}
  <1>0. ASSUME NEW j \in 0..n PROVE H(j) \in Nat
    <2>1. [i \in 1..j |-> h[i]] \in Seq(Nat)
      BY IsASeq
    <2> QED
      BY <2>1, TotalNat
  <1>1. 0 \in S
    <2>1. k + 0 = k /\ H(k) \in Nat
      BY <1>0
    <2> HIDE DEF H
    <2> QED
      BY <2>1
  <1>2. ASSUME NEW j \in Nat, j \in S PROVE j + 1 \in S
    <2> SUFFICES ASSUME k + (j + 1) <= n
                 PROVE  H(k + (j + 1)) \in Nat /\ H(k) <= H(k + (j + 1))
      OBVIOUS
    <2> DEFINE m == k + j
    <2>1. /\ m \in Nat /\ k + (j + 1) = m + 1 /\ m <= n
          /\ \A i \in 1..(m + 1) : h[i] \in Nat
      OBVIOUS
    <2>2. H(m) \in Nat /\ H(m + 1) = H(m) + h[m + 1] /\ h[m + 1] \in Nat
      <3> HIDE DEF m
      <3> QED BY <2>1, TotalStep
    <2>3. H(k) <= H(m) /\ H(k) \in Nat
      BY <1>0, <1>2, <2>1
    <2> HIDE DEF H, m
    <2>4. H(m + 1) \in Nat /\ H(k) <= H(m + 1)
      BY <2>2, <2>3
    <2> QED
      BY <2>1, <2>4
  <1> HIDE DEF S
  <1>3. Nat \subseteq S
    BY <1>1, <1>2, NaturalInduction
  <1>4. n - k \in Nat /\ k + (n - k) = n /\ k + (n - k) <= n
    OBVIOUS
  <1>5. H(k) \in Nat
    BY <1>0
  <1> HIDE DEF H
  <1>6. H(k) <= H(k + (n - k))
    BY <1>3, <1>4 DEF S
  <1>7. H(k) <= H(n)
    BY <1>4, <1>6
  <1> QED
    BY <1>5, <1>7 DEF H

-----------------------------------------------------------------------------
(* Words. *)

(* A row of zeros. *)
LEMMA ZerosFacts ==
  ASSUME NEW n \in Nat
  PROVE  /\ Zeros(n) \in Seq(Byte) /\ Len(Zeros(n)) = n
         /\ \A i \in 1..n : Zeros(n)[i] = 0
  <1>1. 0 \in Byte
    BY RadixFacts DEF Byte
  <1> QED
    BY <1>1 DEF Zeros

(* The digits of a u32. *)
LEMMA Digits ==
  ASSUME NEW v \in Nat, v < U32
  PROVE  LET a == (v \div (Radix * Radix * Radix)) % Radix
             b == (v \div (Radix * Radix)) % Radix
             c == (v \div Radix) % Radix
             d == v % Radix
         IN  /\ a \in Byte /\ b \in Byte /\ c \in Byte /\ d \in Byte
             /\ ((a * Radix + b) * Radix + c) * Radix + d = v
  <1>0. Radix \in Nat /\ Radix > 1
    BY RadixFacts
  <1> DEFINE R2 == Radix * Radix
             R3 == Radix * Radix * Radix
             q1 == v \div Radix
             d == v % Radix
             q2 == q1 \div Radix
             c == q1 % Radix
             q3 == q2 \div Radix
             b == q2 % Radix
  <1>1. q1 \in Nat /\ d \in 0..(Radix - 1) /\ v = q1 * Radix + d
    BY <1>0, Quotient
  <1>2. q2 \in Nat /\ c \in 0..(Radix - 1) /\ q1 = q2 * Radix + c
    <2> HIDE DEF q1
    <2> QED BY <1>0, <1>1, Quotient
  <1>3. q3 \in Nat /\ b \in 0..(Radix - 1) /\ q2 = q3 * Radix + b
    <2> HIDE DEF q2
    <2> QED BY <1>0, <1>2, Quotient
  <1> HIDE DEF q1, q2, q3, b, c, d
  <1>4. v \div (Radix * Radix) = q2
    <2> DEFINE r == c * Radix + d
    <2>1. r \in 0..(R2 - 1)
      <3>1. c + 1 <= Radix
        BY <1>0, <1>2
      <3>2. (c + 1) * Radix <= Radix * Radix
        BY <1>0, <1>2, <3>1
      <3>3. (c + 1) * Radix = c * Radix + Radix /\ c * Radix \in Nat
        BY <1>0, <1>2
      <3> QED BY <1>0, <1>1, <3>2, <3>3
    <2>2. v = q2 * R2 + r
      BY <1>0, <1>1, <1>2
    <2>3. R2 \in Nat /\ R2 > 0
      BY <1>0, <2>1
    <2>4. (q2 * R2 + r) \div R2 = q2
      <3> HIDE DEF r, R2
      <3> QED BY <1>2, <2>1, <2>3, Remainder
    <2> QED BY <2>2, <2>4
  <1>5. v \div (Radix * Radix * Radix) = q3
    <2> DEFINE r == (b * Radix + c) * Radix + d
    <2>1. r \in 0..(R3 - 1)
      <3>0. b * Radix \in Nat /\ Radix * Radix \in Nat
        BY <1>0, <1>3
      <3>1. b * Radix + c + 1 <= Radix * Radix
        <4>1. (b + 1) * Radix <= Radix * Radix
          BY <1>0, <1>3
        <4>2. (b + 1) * Radix = b * Radix + Radix
          BY <1>0, <1>3
        <4> QED BY <1>0, <1>2, <3>0, <4>1, <4>2
      <3> DEFINE x == b * Radix + c
                 y == Radix * Radix
      <3>2. x \in Nat /\ y \in Nat /\ x + 1 <= y
        BY <1>0, <1>2, <3>0, <3>1
      <3>3. x * Radix + d \in 0..(y * Radix - 1)
        <4> HIDE DEF x, y
        <4>1. (x + 1) * Radix <= y * Radix /\ (x + 1) * Radix = x * Radix + Radix
          BY <1>0, <3>2
        <4>2. x * Radix \in Nat /\ y * Radix \in Nat
          BY <1>0, <3>2
        <4> QED BY <1>0, <1>1, <4>1, <4>2
      <3> QED BY <3>3
    <2>2. v = q3 * R3 + r
      <3>1. v = ((q3 * Radix + b) * Radix + c) * Radix + d
        BY <1>1, <1>2, <1>3
      <3> QED BY <1>0, <1>1, <1>2, <1>3, <3>1
    <2>3. R3 \in Nat /\ R3 > 0
      <3>1. R3 \in Nat
        <4>1. \A x, y \in Nat : x * y \in Nat
          OBVIOUS
        <4> QED BY <1>0, <4>1
      <3> QED BY <2>1, <3>1
    <2>4. (q3 * R3 + r) \div R3 = q3
      <3> HIDE DEF r, R3
      <3> QED BY <1>3, <2>1, <2>3, Remainder
    <2> QED BY <2>2, <2>4
  <1>6. q3 < Radix
    <2> SUFFICES ASSUME q3 >= Radix PROVE FALSE
      BY <1>0, <1>3
    <2>1. q3 * Radix >= Radix * Radix /\ q3 * Radix \in Nat /\ Radix * Radix \in Nat
      BY <1>0, <1>3
    <2>2. q2 >= R2 /\ R2 \in Nat
      BY <1>0, <1>3, <2>1
    <2>3. q1 >= R3 /\ R3 \in Nat
      <3> HIDE DEF R2
      <3>1. q2 * Radix >= R2 * Radix /\ q2 * Radix \in Nat /\ R2 * Radix \in Nat
        BY <1>0, <1>2, <2>2
      <3> QED BY <1>0, <1>2, <3>1 DEF R2
    <2>4. v >= R3 * Radix
      <3> HIDE DEF R3
      <3>1. q1 * Radix >= R3 * Radix /\ q1 * Radix \in Nat /\ R3 * Radix \in Nat
        BY <1>0, <1>1, <2>3
      <3> QED BY <1>0, <1>1, <3>1
    <2> QED BY <2>4, RadixFacts DEF U32
  <1>7. q3 % Radix = q3
    <2>1. q3 \in 0..(Radix - 1) /\ 0 * Radix + q3 = q3
      BY <1>0, <1>3, <1>6
    <2>2. (0 * Radix + q3) % Radix = q3
      BY <1>0, <2>1, Remainder
    <2> QED BY <2>1, <2>2
  <1>8. v = ((q3 * Radix + b) * Radix + c) * Radix + d
    BY <1>1, <1>2, <1>3
  <1>9. q3 \in Byte /\ b \in Byte /\ c \in Byte /\ d \in Byte
    BY <1>0, <1>1, <1>2, <1>3, <1>6 DEF Byte
  <1>10. (v \div Radix) % Radix = c /\ (v \div (Radix * Radix)) % Radix = b
    BY <1>4 DEF c, q1, b
  <1> QED
    BY <1>4, <1>5, <1>7, <1>8, <1>9, <1>10 DEF d

(* A number as a word, whose first bytes are zero. *)
LEMMA PadU32Facts ==
  ASSUME NEW v \in Nat, v < U32
  PROVE  /\ pad_u32(v) \in Seq(Byte) /\ Len(pad_u32(v)) = WordLen
         /\ \A i \in 1..(WordLen - 4) : pad_u32(v)[i] = 0
         /\ pad_u32(v)[WordLen - 3] = (v \div (Radix * Radix * Radix)) % Radix
         /\ pad_u32(v)[WordLen - 2] = (v \div (Radix * Radix)) % Radix
         /\ pad_u32(v)[WordLen - 1] = (v \div Radix) % Radix
         /\ pad_u32(v)[WordLen] = v % Radix
         /\ WordValue(pad_u32(v)) = v
  <1> DEFINE a == (v \div (Radix * Radix * Radix)) % Radix
             b == (v \div (Radix * Radix)) % Radix
             c == (v \div Radix) % Radix
             d == v % Radix
             w == pad_u32(v)
             z == Zeros(WordLen - 4)
  <1>1. /\ a \in Byte /\ b \in Byte /\ c \in Byte /\ d \in Byte
        /\ ((a * Radix + b) * Radix + c) * Radix + d = v
    BY Digits
  <1>2. w = z \o <<a, b, c, d>>
    BY DEF pad_u32
  <1>3. /\ z \in Seq(Byte) /\ Len(z) = WordLen - 4 /\ \A i \in 1..(WordLen - 4) : z[i] = 0
        /\ WordLen \in Nat /\ WordLen > 4
    <2>1. WordLen - 4 \in Nat
      BY WordAssumption
    <2> HIDE DEF z
    <2> QED BY <2>1, ZerosFacts, WordAssumption DEF z
  <1> HIDE DEF a, b, c, d, w, z
  <1> DEFINE q == <<a, b, c, d>>
  <1>4. /\ q \in Seq(Byte) /\ Len(q) = 4
        /\ q[1] = a /\ q[2] = b /\ q[3] = c /\ q[4] = d
    BY <1>1
  <1> HIDE DEF q
  <1>5. /\ w \in Seq(Byte) /\ Len(w) = WordLen
        /\ \A i \in 1..(WordLen - 4 + 4) : w[i] = IF i <= WordLen - 4 THEN z[i] ELSE q[i - (WordLen - 4)]
    <2>1. w = z \o q
      BY <1>2 DEF q
    <2>2. /\ z \o q \in Seq(Byte) /\ Len(z \o q) = Len(z) + Len(q)
          /\ \A i \in 1..(Len(z) + Len(q)) : (z \o q)[i] = IF i <= Len(z) THEN z[i] ELSE q[i - Len(z)]
      BY <1>3, <1>4, ConcatProperties
    <2> QED BY <1>3, <1>4, <2>1, <2>2
  <1>6. \A i \in 1..(WordLen - 4) : w[i] = 0
    BY <1>3, <1>5
  <1>7. w[WordLen - 3] = a /\ w[WordLen - 2] = b /\ w[WordLen - 1] = c /\ w[WordLen] = d
    <2>1. \A k \in 1..4 : w[WordLen - 4 + k] = q[k]
      <3> TAKE k \in 1..4
      <3>1. WordLen - 4 + k \in 1..(WordLen - 4 + 4) /\ ~(WordLen - 4 + k <= WordLen - 4)
            /\ WordLen - 4 + k - (WordLen - 4) = k
        BY <1>3
      <3> QED BY <1>5, <3>1
    <2>2. WordLen - 4 + 1 = WordLen - 3 /\ WordLen - 4 + 2 = WordLen - 2
          /\ WordLen - 4 + 3 = WordLen - 1 /\ WordLen - 4 + 4 = WordLen
      BY <1>3
    <2>3. 1 \in 1..4 /\ 2 \in 1..4 /\ 3 \in 1..4 /\ 4 \in 1..4
      OBVIOUS
    <2> QED BY <1>4, <2>1, <2>2, <2>3
  <1>8. WordValue(w) = v
    BY <1>1, <1>7 DEF WordValue
  <1> QED
    BY <1>5, <1>6, <1>7, <1>8 DEF a, b, c, d, w

-----------------------------------------------------------------------------
(* The right side of the definition of Power. *)
PowerDef(f, k) == IF k = 0 THEN 1 ELSE Radix * f[k - 1]

Counting == [n \in Nat |-> n]

Powers == INSTANCE Recursion WITH
  Dom <- Nat, measure <- Counting, Def <- PowerDef

(* A number is its own measure. *)
LEMMA Countings == Counting \in [Nat -> Nat] /\ \A n \in Nat : Counting[n] = n
  BY DEF Counting

(* Power obeys its definition. *)
LEMMA PowerEquation ==
  Power[0] = 1 /\ \A k \in Nat : Power[k + 1] = Radix * Power[k]
  <1>1. Powers!WellFounded
    <2>1. ASSUME NEW f, NEW g, NEW k \in Nat,
                 \A j \in Nat : Counting[j] < Counting[k] => f[j] = g[j]
          PROVE  PowerDef(f, k) = PowerDef(g, k)
      <3>1. CASE k = 0
        BY <3>1 DEF PowerDef
      <3>2. CASE k # 0
        <4>1. k - 1 \in Nat /\ Counting[k - 1] < Counting[k]
          BY <3>2, Countings
        <4>2. f[k - 1] = g[k - 1]
          BY <2>1, <4>1
        <4> QED BY <3>2, <4>2 DEF PowerDef
      <3> QED BY <3>1, <3>2
    <2> QED
      BY <2>1, Countings DEF Powers!WellFounded
  <1>2. Power = CHOOSE f : f = [k \in Nat |-> PowerDef(f, k)]
    BY DEF Power, PowerDef
  <1>3. Power = [k \in Nat |-> PowerDef(Power, k)]
    BY <1>1, <1>2, NaturalInduction, Powers!Defined DEF Powers!Inductive
  <1>4. \A k \in Nat : Power[k] = PowerDef(Power, k)
    BY <1>3
  <1>5. ASSUME NEW k \in Nat PROVE Power[k + 1] = Radix * Power[k]
    <2>1. k + 1 \in Nat /\ k + 1 # 0 /\ k + 1 - 1 = k
      OBVIOUS
    <2>2. Power[k + 1] = PowerDef(Power, k + 1)
      BY <1>4, <2>1
    <2> QED BY <2>1, <2>2 DEF PowerDef
  <1>6. Power[0] = 1
    BY <1>4 DEF PowerDef
  <1> QED
    BY <1>5, <1>6

(* The powers for the digits of a u32, and all the others. *)
LEMMA PowerFacts ==
  /\ Power[0] = 1 /\ Power[1] = Radix /\ Power[2] = Radix * Radix
  /\ Power[3] = Radix * Radix * Radix
  /\ \A k \in Nat : k >= 4 => Power[k] \in Nat /\ Power[k] >= U32
  <1>0. Radix \in Nat /\ Radix > 1 /\ \A x, y \in Nat : x * y \in Nat /\ x * y = y * x
    BY RadixFacts
  <1>1. Power[0] = 1 /\ Power[1] = Radix
    <2>1. Power[0 + 1] = Radix * Power[0] /\ Power[0] = 1
      BY PowerEquation
    <2> QED BY <1>0, <2>1
  <1>2. Power[2] = Radix * Radix
    <2>1. Power[1 + 1] = Radix * Power[1]
      BY PowerEquation
    <2> QED BY <1>1, <2>1
  <1>3. Power[3] = Radix * Radix * Radix
    <2>1. Power[2 + 1] = Radix * Power[2]
      BY PowerEquation
    <2> DEFINE s == Radix * Radix
    <2>2. s \in Nat /\ Radix * s = s * Radix
      BY <1>0
    <2> QED BY <1>2, <2>1, <2>2
  <1>4. Power[4] = U32
    <2>1. Power[3 + 1] = Radix * Power[3]
      BY PowerEquation
    <2> DEFINE s == Radix * Radix * Radix
    <2>2. s \in Nat /\ Radix * s = s * Radix
      BY <1>0
    <2> QED BY <1>3, <2>1, <2>2 DEF U32
  <1> DEFINE S == {k \in Nat : Power[k + 4] \in Nat /\ Power[k + 4] >= U32}
  <1>5. 0 \in S
    BY <1>4, RadixFacts
  <1>6. ASSUME NEW k \in Nat, k \in S PROVE k + 1 \in S
    <2> DEFINE p == Power[k + 4]
    <2>1. p \in Nat /\ p >= U32 /\ U32 \in Nat
      BY <1>6, RadixFacts
    <2>2. Power[k + 4 + 1] = Radix * p
      <3>1. k + 4 \in Nat
        OBVIOUS
      <3> QED BY <3>1, PowerEquation
    <2> HIDE DEF p
    <2>3. Radix * p \in Nat /\ Radix * p >= p
      BY <1>0, <2>1
    <2>4. k + 1 + 4 = k + 4 + 1
      OBVIOUS
    <2>5. Power[k + 1 + 4] \in Nat /\ Power[k + 1 + 4] >= U32
      BY <2>1, <2>2, <2>3, <2>4
    <2> QED BY <2>5
  <1> HIDE DEF S
  <1>7. Nat \subseteq S
    BY <1>5, <1>6, NaturalInduction
  <1>8. ASSUME NEW k \in Nat, k >= 4 PROVE Power[k] \in Nat /\ Power[k] >= U32
    <2>1. k - 4 \in Nat /\ k - 4 + 4 = k
      BY <1>8
    <2>2. k - 4 \in S
      BY <1>7, <2>1
    <2>3. Power[k - 4 + 4] \in Nat /\ Power[k - 4 + 4] >= U32
      BY <2>2 DEF S
    <2> QED BY <2>1, <2>3
  <1> QED
    BY <1>1, <1>2, <1>3, <1>8

(* NumberWord and the encoder write a u32 alike. *)
LEMMA NumberWordIs ==
  ASSUME NEW v \in Nat, v < U32
  PROVE  NumberWord(v) = pad_u32(v)
  <1> DEFINE w == pad_u32(v)
             n == NumberWord(v)
  <1>1. /\ w \in Seq(Byte) /\ Len(w) = WordLen
        /\ \A i \in 1..(WordLen - 4) : w[i] = 0
        /\ w[WordLen - 3] = (v \div (Radix * Radix * Radix)) % Radix
        /\ w[WordLen - 2] = (v \div (Radix * Radix)) % Radix
        /\ w[WordLen - 1] = (v \div Radix) % Radix
        /\ w[WordLen] = v % Radix
    BY PadU32Facts
  <1>2. WordLen \in Nat /\ WordLen > 4 /\ Radix \in Nat /\ Radix > 1 /\ U32 \in Nat
    BY WordAssumption, RadixFacts
  <1>3. n = [i \in 1..WordLen |-> (v \div Power[WordLen - i]) % Radix]
    BY DEF NumberWord
  <1> HIDE DEF w, n
  <1>4. ASSUME NEW i \in 1..WordLen PROVE n[i] = w[i]
    <2>1. n[i] = (v \div Power[WordLen - i]) % Radix
      BY <1>3
    <2>2. CASE i <= WordLen - 4
      <3> DEFINE p == Power[WordLen - i]
      <3>1. p \in Nat /\ v < p /\ p > 0
        <4>1. WordLen - i \in Nat /\ WordLen - i >= 4
          BY <1>2, <2>2
        <4>2. p \in Nat /\ p >= U32
          BY <4>1, PowerFacts
        <4> HIDE DEF p
        <4> QED BY <1>2, <4>2
      <3> HIDE DEF p
      <3>2. v \div p = 0
        <4>1. v \in 0..(p - 1) /\ 0 * p + v = v
          BY <3>1
        <4>2. (0 * p + v) \div p = 0
          BY <3>1, <4>1, Remainder
        <4> QED BY <4>1, <4>2
      <3>3. 0 % Radix = 0
        <4>1. 0 \in 0..(Radix - 1) /\ 0 * Radix + 0 = 0
          BY <1>2
        <4>2. (0 * Radix + 0) % Radix = 0
          BY <1>2, <4>1, Remainder
        <4> QED BY <4>1, <4>2
      <3>4. n[i] = 0
        BY <2>1, <3>2, <3>3 DEF p
      <3>5. w[i] = 0
        BY <1>1, <1>2, <2>2
      <3> QED BY <3>4, <3>5
    <2>3. CASE i > WordLen - 4
      <3>1. i = WordLen - 3 \/ i = WordLen - 2 \/ i = WordLen - 1 \/ i = WordLen
        BY <1>2, <2>3
      <3>2. CASE i = WordLen - 3
        <4>1. WordLen - i = 3
          BY <1>2, <3>2
        <4> QED BY <1>1, <2>1, <3>2, <4>1, PowerFacts
      <3>3. CASE i = WordLen - 2
        <4>1. WordLen - i = 2
          BY <1>2, <3>3
        <4> QED BY <1>1, <2>1, <3>3, <4>1, PowerFacts
      <3>4. CASE i = WordLen - 1
        <4>1. WordLen - i = 1
          BY <1>2, <3>4
        <4> QED BY <1>1, <2>1, <3>4, <4>1, PowerFacts
      <3>5. CASE i = WordLen
        <4>1. WordLen - i = 0
          BY <1>2, <3>5
        <4>2. v \div 1 = v
          <5>1. v * 1 + 0 = v /\ 0 \in 0..(1 - 1)
            OBVIOUS
          <5>2. (v * 1 + 0) \div 1 = v
            BY <5>1, Remainder
          <5> QED BY <5>1, <5>2
        <4> QED BY <1>1, <2>1, <3>5, <4>1, <4>2, PowerFacts
      <3> QED BY <3>1, <3>2, <3>3, <3>4, <3>5
    <2> QED
      BY <1>2, <2>2, <2>3
  <1>5. DOMAIN n = 1..WordLen /\ DOMAIN w = 1..WordLen /\ w = [i \in 1..WordLen |-> w[i]]
        /\ n = [i \in 1..WordLen |-> n[i]]
    BY <1>1, <1>2, <1>3
  <1>6. n = w
    BY <1>4, <1>5
  <1> QED
    BY <1>6 DEF n, w

(* The words that n bytes fill have room for them, and for no word more. *)
LEMMA WordsForFacts ==
  ASSUME NEW n \in Nat
  PROVE  /\ WordsFor(n) \in Nat /\ WordsFor(n) * WordLen \in Nat
         /\ n <= WordsFor(n) * WordLen /\ WordsFor(n) * WordLen < n + WordLen
         /\ n \in 1..WordLen => WordsFor(n) = 1
  <1> DEFINE m == n + WordLen - 1
             q == m \div WordLen
  <1>1. m \in Nat /\ WordLen \in Nat /\ WordLen > 4
    BY WordAssumption
  <1>2. q \in Nat /\ m % WordLen \in 0..(WordLen - 1) /\ m = q * WordLen + (m % WordLen)
    <2> HIDE DEF m
    <2> QED BY <1>1, Quotient
  <1> HIDE DEF q
  <1>3. q * WordLen \in Nat
    BY <1>1, <1>2
  <1>4. n <= q * WordLen /\ q * WordLen < n + WordLen
    BY <1>1, <1>2, <1>3
  <1>5. ASSUME n \in 1..WordLen PROVE q = 1
    <2>1. 1 * WordLen + (n - 1) = m /\ n - 1 \in 0..(WordLen - 1)
      BY <1>1, <1>5
    <2>2. (1 * WordLen + (n - 1)) \div WordLen = 1
      BY <1>1, <2>1, Remainder
    <2> QED BY <2>1, <2>2 DEF q
  <1> QED
    BY <1>2, <1>3, <1>4, <1>5 DEF q, WordsFor

-----------------------------------------------------------------------------
(* Tokens. *)

(* The right side of the definition of TokensTo. *)
TokensDef(f, n) ==
  [kind : Kinds, val : Seq(Byte), subs : IF n = 0 THEN {<<>>} ELSE Seq(f[n - 1])]

Nestings == INSTANCE Recursion WITH
  Dom <- Nat, measure <- Counting, Def <- TokensDef

(* TokensTo obeys its definition. *)
LEMMA TokensToEquation ==
  \A n \in Nat : TokensTo[n] = TokensDef(TokensTo, n)
  <1>1. Nestings!WellFounded
    <2>1. ASSUME NEW f, NEW g, NEW k \in Nat,
                 \A j \in Nat : Counting[j] < Counting[k] => f[j] = g[j]
          PROVE  TokensDef(f, k) = TokensDef(g, k)
      <3>1. CASE k = 0
        BY <3>1 DEF TokensDef
      <3>2. CASE k # 0
        <4>1. k - 1 \in Nat /\ Counting[k - 1] < Counting[k]
          BY <3>2, Countings
        <4>2. f[k - 1] = g[k - 1]
          BY <2>1, <4>1
        <4> QED BY <3>2, <4>2 DEF TokensDef
      <3> QED BY <3>1, <3>2
    <2> QED
      BY <2>1, Countings DEF Nestings!WellFounded
  <1>2. TokensTo = CHOOSE f : f = [n \in Nat |-> TokensDef(f, n)]
    BY DEF TokensTo, TokensDef
  <1>3. TokensTo = [n \in Nat |-> TokensDef(TokensTo, n)]
    BY <1>1, <1>2, NaturalInduction, Nestings!Defined DEF Nestings!Inductive
  <1> QED
    BY <1>3

(* A token that is nested n deep has components nested less deep. *)
LEMMA TokenNested ==
  ASSUME NEW n \in Nat, NEW token \in TokensTo[n]
  PROVE  /\ token.kind \in Kinds /\ token.val \in Seq(Byte)
         /\ token = [kind |-> token.kind, val |-> token.val, subs |-> token.subs]
         /\ n = 0 => token.subs = <<>>
         /\ n # 0 => token.subs \in Seq(TokensTo[n - 1])
  <1>1. token \in TokensDef(TokensTo, n)
    BY TokensToEquation
  <1> DEFINE A == IF n = 0 THEN {<<>>} ELSE Seq(TokensTo[n - 1])
  <1>2. token \in [kind : Kinds, val : Seq(Byte), subs : A]
    BY <1>1 DEF TokensDef
  <1> HIDE DEF A
  <1>3. /\ token.kind \in Kinds /\ token.val \in Seq(Byte) /\ token.subs \in A
        /\ token = [kind |-> token.kind, val |-> token.val, subs |-> token.subs]
    BY <1>2
  <1> QED
    BY <1>3 DEF A

(* What may be nested deeper may be nested less deep. *)
LEMMA DeeperTokens == \A n \in Nat : TokensTo[n] \subseteq TokensTo[n + 1]
  <1> DEFINE S == {n \in Nat : TokensTo[n] \subseteq TokensTo[n + 1]}
  <1>0. ASSUME NEW n \in Nat, NEW token \in TokensTo[n], NEW B,
               B = TokensTo[n], token.subs \in Seq(B)
        PROVE  token \in TokensTo[n + 1]
    <2> DEFINE m == n + 1
    <2>1. m \in Nat /\ m # 0 /\ m - 1 = n
      OBVIOUS
    <2> HIDE DEF m
    <2>2. TokensTo[m] = [kind : Kinds, val : Seq(Byte), subs : Seq(TokensTo[n])]
      <3>1. TokensTo[m] = TokensDef(TokensTo, m)
        BY <2>1, TokensToEquation
      <3>2. TokensDef(TokensTo, m) = [kind : Kinds, val : Seq(Byte), subs : Seq(TokensTo[m - 1])]
        BY <2>1 DEF TokensDef
      <3> QED BY <2>1, <3>1, <3>2
    <2>3. /\ token.kind \in Kinds /\ token.val \in Seq(Byte)
          /\ token = [kind |-> token.kind, val |-> token.val, subs |-> token.subs]
      BY TokenNested
    <2>4. [kind |-> token.kind, val |-> token.val, subs |-> token.subs]
            \in [kind : Kinds, val : Seq(Byte), subs : Seq(TokensTo[n])]
      BY <1>0, <2>3
    <2> QED BY <2>2, <2>3, <2>4 DEF m
  <1>1. 0 \in S
    <2>1. ASSUME NEW token \in TokensTo[0] PROVE token \in TokensTo[0 + 1]
      <3>1. token.subs = <<>> /\ <<>> \in Seq(TokensTo[0])
        BY TokenNested
      <3> QED BY <1>0, <3>1
    <2> QED BY <2>1
  <1>2. ASSUME NEW n \in Nat, n \in S PROVE n + 1 \in S
    <2> DEFINE m == n + 1
    <2>1. m \in Nat /\ m # 0 /\ m - 1 = n
      OBVIOUS
    <2> HIDE DEF m
    <2>2. ASSUME NEW token \in TokensTo[m] PROVE token \in TokensTo[m + 1]
      <3>1. token.subs \in Seq(TokensTo[n])
        BY <2>1, TokenNested
      <3>2. TokensTo[n] \subseteq TokensTo[m]
        BY <1>2 DEF m
      <3>3. token.subs \in Seq(TokensTo[m])
        BY <3>1, <3>2, SeqMonotonic
      <3> QED BY <1>0, <2>1, <3>3
    <2>3. TokensTo[m] \subseteq TokensTo[m + 1]
      BY <2>2
    <2> QED BY <2>1, <2>3 DEF m
  <1> HIDE DEF S
  <1>3. Nat \subseteq S
    BY <1>1, <1>2, NaturalInduction
  <1> QED
    BY <1>3 DEF S

(* How deep a token is nested. *)
Nested(token, n) == token \in TokensTo[n] /\ \A m \in Nat : token \in TokensTo[m] => n <= m

depth == [token \in Tokens |-> CHOOSE n \in Nat : Nested(token, n)]

(* Every token is nested within its depth. *)
LEMMA DepthFacts ==
  /\ depth \in [Tokens -> Nat]
  /\ \A token \in Tokens : Nested(token, depth[token])
  <1>1. ASSUME NEW token \in Tokens PROVE \E n \in Nat : Nested(token, n)
    <2> DEFINE T == {n \in Nat : token \in TokensTo[n]}
    <2>1. Depth \in T /\ T \subseteq Nat
      BY DepthAssumption DEF Tokens
    <2>2. PICK n \in T : \A m \in T : n <= m
      <3> HIDE DEF T
      <3> QED BY <2>1, LeastNatural
    <2> QED BY <2>2 DEF Nested
  <1> QED
    BY <1>1 DEF depth

(* The fields of a token, and the tokens it is made of. *)
LEMMA TokenFields ==
  ASSUME NEW token \in Tokens
  PROVE  /\ token.kind \in Kinds /\ token.val \in Seq(Byte) /\ token.subs \in Seq(Tokens)
         /\ token = [kind |-> token.kind, val |-> token.val, subs |-> token.subs]
         /\ \A i \in DOMAIN token.subs : /\ token.subs[i] \in Tokens
                                         /\ depth[token.subs[i]] < depth[token]
  <1> DEFINE n == depth[token]
             subs == token.subs
  <1>1. n \in Nat /\ token \in TokensTo[n] /\ \A m \in Nat : token \in TokensTo[m] => n <= m
    BY DepthFacts DEF Nested
  <1> HIDE DEF n
  <1>2. /\ token.kind \in Kinds /\ token.val \in Seq(Byte)
        /\ token = [kind |-> token.kind, val |-> token.val, subs |-> token.subs]
        /\ n = 0 => subs = <<>>
        /\ n # 0 => subs \in Seq(TokensTo[n - 1])
    BY <1>1, TokenNested
  <1>3. Depth = 0 \/ (Depth - 1 \in Nat /\ TokensTo[Depth - 1] \subseteq Tokens)
    <2> SUFFICES ASSUME Depth # 0
                 PROVE  Depth - 1 \in Nat /\ TokensTo[Depth - 1] \subseteq Tokens
      OBVIOUS
    <2>1. Depth - 1 \in Nat /\ Depth - 1 + 1 = Depth
      BY DepthAssumption
    <2>2. TokensTo[Depth - 1] \subseteq TokensTo[Depth - 1 + 1]
      BY <2>1, DeeperTokens
    <2> QED BY <2>1, <2>2 DEF Tokens
  <1>4. subs \in Seq(Tokens)
    <2>1. /\ Depth = 0 => subs = <<>>
          /\ Depth # 0 => subs \in Seq(TokensTo[Depth - 1])
      BY DepthAssumption, TokenNested DEF Tokens
    <2>2. CASE Depth = 0
      <3>1. subs = <<>>
        BY <2>1, <2>2
      <3> HIDE DEF subs
      <3> QED BY <3>1, EmptySeq
    <2>3. CASE Depth # 0
      BY <1>3, <2>1, <2>3, SeqMonotonic
    <2> QED BY <2>2, <2>3
  <1>5. ASSUME NEW i \in DOMAIN subs
        PROVE  subs[i] \in Tokens /\ depth[subs[i]] < n
    <2>1. subs[i] \in Tokens
      BY <1>4
    <2>2. n # 0
      BY <1>2
    <2>3. n - 1 \in Nat /\ subs[i] \in TokensTo[n - 1]
      BY <1>1, <1>2, <2>2
    <2>4. depth[subs[i]] \in Nat /\ depth[subs[i]] <= n - 1
      BY <2>1, <2>3, DepthFacts DEF Nested
    <2> QED BY <1>1, <2>1, <2>4
  <1> QED
    BY <1>2, <1>4, <1>5 DEF n

-----------------------------------------------------------------------------
(* The right sides of the definitions by recursion over tokens. *)
TokenDynamicDef(f, token) ==
  \/ token.kind \in {"Bytes", "String", "Array"}
  \/ /\ token.kind \in {"FixedArray", "Tuple"}
     /\ \E i \in DOMAIN token.subs : f[token.subs[i]]

DynamicTokens == INSTANCE Recursion WITH
  Dom <- Tokens, measure <- depth, Def <- TokenDynamicDef

(* token_is_dynamic obeys its definition. *)
LEMMA TokenIsDynamic ==
  \A token \in Tokens : token_is_dynamic[token] = TokenDynamicDef(token_is_dynamic, token)
  <1>1. DynamicTokens!WellFounded
    <2>1. ASSUME NEW f, NEW g, NEW token \in Tokens,
                 \A s \in Tokens : depth[s] < depth[token] => f[s] = g[s]
          PROVE  TokenDynamicDef(f, token) = TokenDynamicDef(g, token)
      <3>1. \A i \in DOMAIN token.subs : f[token.subs[i]] = g[token.subs[i]]
        BY <2>1, TokenFields
      <3> QED BY <3>1 DEF TokenDynamicDef
    <2> QED
      BY <2>1, DepthFacts DEF DynamicTokens!WellFounded
  <1>2. token_is_dynamic = CHOOSE f : f = [token \in Tokens |-> TokenDynamicDef(f, token)]
    BY DEF token_is_dynamic, TokenDynamicDef
  <1>3. token_is_dynamic = [token \in Tokens |-> TokenDynamicDef(token_is_dynamic, token)]
    BY <1>1, <1>2, NaturalInduction, DynamicTokens!Defined DEF DynamicTokens!Inductive
  <1> QED
    BY <1>3

MediateDef(f, token) ==
  LET ms == [i \in DOMAIN token.subs |-> f[token.subs[i]]]
  IN  CASE token.kind \in {"Address", "Int", "Uint", "Bool"} -> Raw(1, token)
        [] token.kind = "FixedBytes" -> Raw(fixed_bytes_len(token.val), token)
        [] token.kind \in {"Bytes", "String"} ->
             Prefixed(pad_bytes_len(token.val), token)
        [] token.kind = "Array" -> PrefixedArrayWithLength(ms)
        [] token.kind \in {"FixedArray", "Tuple"} ->
             IF token_is_dynamic[token] THEN PrefixedArray(ms) ELSE RawArray(ms)

Mediates == INSTANCE Recursion WITH
  Dom <- Tokens, measure <- depth, Def <- MediateDef

(* mediate_token obeys its definition. *)
LEMMA MediateToken ==
  \A token \in Tokens : mediate_token[token] = MediateDef(mediate_token, token)
  <1>1. Mediates!WellFounded
    <2>1. ASSUME NEW f, NEW g, NEW token \in Tokens,
                 \A s \in Tokens : depth[s] < depth[token] => f[s] = g[s]
          PROVE  MediateDef(f, token) = MediateDef(g, token)
      <3>1. \A i \in DOMAIN token.subs : f[token.subs[i]] = g[token.subs[i]]
        BY <2>1, TokenFields
      <3>2. [i \in DOMAIN token.subs |-> f[token.subs[i]]]
              = [i \in DOMAIN token.subs |-> g[token.subs[i]]]
        BY <3>1
      <3> QED BY <3>2, Zenon DEF MediateDef
    <2> QED
      BY <2>1, DepthFacts DEF Mediates!WellFounded
  <1>2. mediate_token = CHOOSE f : f = [token \in Tokens |-> MediateDef(f, token)]
    BY Zenon DEF mediate_token, MediateDef
  <1>3. mediate_token = [token \in Tokens |-> MediateDef(mediate_token, token)]
    BY <1>1, <1>2, NaturalInduction, Mediates!Defined DEF Mediates!Inductive
  <1> QED
    BY <1>3

-----------------------------------------------------------------------------
(* The components of a value have types of fewer nodes. *)
LEMMA PartTypes ==
  ASSUME NEW t \in ParamTypes, NEW token, NEW i \in Parts(t, token)
  PROVE  /\ TypeOf(t, i) \in ParamTypes /\ nodes[TypeOf(t, i)] < nodes[t]
         /\ t.kind \in {"Array", "FixedArray", "Tuple"}
  <1>1. /\ t.subs \in Seq(ParamTypes)
        /\ t.kind \in {"Array", "FixedArray"} => Len(t.subs) = 1
        /\ t.subs # <<>> => t.kind \in {"Array", "FixedArray", "Tuple"}
    BY TypeFields
  <1>2. CASE t.kind \in {"Array", "FixedArray"}
    <2>1. TypeOf(t, i) = t.subs[1]
      BY <1>2 DEF TypeOf
    <2>2. 1 \in DOMAIN t.subs
      BY <1>1, <1>2
    <2> QED BY <1>2, <2>1, <2>2, Components
  <1>3. CASE t.kind \notin {"Array", "FixedArray"}
    <2>1. i \in DOMAIN t.subs
      BY <1>3 DEF Parts
    <2>2. t.kind = "Tuple"
      <3>1. t.subs # <<>>
        BY <2>1
      <3> QED BY <1>1, <1>3, <3>1
    <2>3. TypeOf(t, i) = t.subs[i]
      BY <2>2 DEF TypeOf
    <2> QED BY <2>1, <2>2, <2>3, Components
  <1> QED
    BY <1>2, <1>3

(* What is_value says of a token, apart from its components. *)
Shaped(t, token) ==
  LET n == Len(token.subs)
      m == Len(token.val)
  IN  /\ token.kind = t.kind
      /\ t.kind \in {"Array", "FixedArray", "Tuple"} => token.val = <<>>
      /\ t.kind \notin {"Array", "FixedArray", "Tuple"} => token.subs = <<>>
      /\ CASE t.kind = "Address"         -> m = WordLen - AddrPad
           [] t.kind \in {"Int", "Uint"} -> m = WordLen
           [] t.kind = "Bool"            -> token.val \in {<<0>>, <<1>>}
           [] t.kind = "FixedBytes"      -> m \in 1..t.size /\ t.size <= WordLen
           [] t.kind = "Bytes"           -> TRUE
           [] t.kind = "String"          -> \A i \in 1..m : token.val[i] \notin InvalidUtf8
           [] t.kind = "Array"           -> n < U32
           [] t.kind = "FixedArray"      -> n = t.size /\ (n = 0 => t \notin DynamicTypes)
           [] t.kind = "Tuple"           -> n = Len(t.subs)

IsValueBody(f, t, token) ==
  LET n == Len(token.subs)
      m == Len(token.val)
  IN  /\ token.kind = t.kind
      /\ t.kind \in {"Array", "FixedArray", "Tuple"} =>
           token.val = <<>> /\ \A i \in 1..n : f[TypeOf(t, i)][token.subs[i]]
      /\ t.kind \notin {"Array", "FixedArray", "Tuple"} => token.subs = <<>>
      /\ CASE t.kind = "Address"         -> m = WordLen - AddrPad
           [] t.kind \in {"Int", "Uint"} -> m = WordLen
           [] t.kind = "Bool"            -> token.val \in {<<0>>, <<1>>}
           [] t.kind = "FixedBytes"      -> m \in 1..t.size /\ t.size <= WordLen
           [] t.kind = "Bytes"           -> TRUE
           [] t.kind = "String"          -> \A i \in 1..m : token.val[i] \notin InvalidUtf8
           [] t.kind = "Array"           -> n < U32
           [] t.kind = "FixedArray"      -> n = t.size /\ (n = 0 => t \notin DynamicTypes)
           [] t.kind = "Tuple"           -> n = Len(t.subs)

IsValueDef(f, t) == [token \in Tokens |-> IsValueBody(f, t, token)]

IsValues == INSTANCE Recursion WITH
  Dom <- ParamTypes, measure <- nodes, Def <- IsValueDef

(* A value of a composite type has components of its component types. *)
LEMMA BodyIs ==
  ASSUME NEW f, NEW t \in ParamTypes, NEW token \in Tokens
  PROVE  /\ IsValueBody(f, t, token) \in BOOLEAN
         /\ IsValueBody(f, t, token)
              <=> /\ Shaped(t, token)
                  /\ \A i \in Parts(t, token) : f[TypeOf(t, i)][token.subs[i]]
         /\ Shaped(t, token) => Parts(t, token) = DOMAIN token.subs
  <1> DEFINE C == t.kind \in {"Array", "FixedArray", "Tuple"}
             n == Len(token.subs)
             F == \A i \in 1..n : f[TypeOf(t, i)][token.subs[i]]
  <1>1. IsValueBody(f, t, token) <=> Shaped(t, token) /\ (C => F)
    BY Zenon DEF IsValueBody, Shaped
  <1>2. token.subs \in Seq(Tokens) /\ t.subs \in Seq(ParamTypes)
        /\ (t.subs # <<>> => C) /\ t.kind \in Kinds
    BY TokenFields, TypeFields
  <1>3. DOMAIN token.subs = 1..n /\ DOMAIN t.subs = 1..Len(t.subs)
    BY <1>2
  <1>4. ASSUME Shaped(t, token)
        PROVE  /\ Parts(t, token) = DOMAIN token.subs
               /\ ~C => token.subs = <<>>
    <2>1. ~C => token.subs = <<>>
      BY <1>4, Zenon DEF Shaped
    <2>2. t.kind = "Tuple" => n = Len(t.subs)
      BY <1>4 DEF Shaped
    <2>3. CASE t.kind \in {"Array", "FixedArray"}
      BY <2>1, <2>3 DEF Parts
    <2>4. CASE t.kind = "Tuple"
      BY <1>3, <2>1, <2>2, <2>4 DEF Parts
    <2>5. CASE ~C
      <3>1. t.subs = <<>> /\ token.subs = <<>>
        BY <1>2, <2>1, <2>5
      <3> QED BY <2>1, <2>5, <3>1 DEF Parts
    <2> QED BY <2>3, <2>4, <2>5
  <1>5. IsValueBody(f, t, token) \in BOOLEAN
    BY Zenon DEF IsValueBody
  <1>6. ASSUME Shaped(t, token)
        PROVE  (C => F) <=> \A i \in Parts(t, token) : f[TypeOf(t, i)][token.subs[i]]
    <2>1. CASE C
      BY <1>3, <1>4, <1>6, <2>1
    <2>2. CASE ~C
      <3>1. token.subs = <<>>
        BY <1>4, <1>6, <2>2
      <3>2. Parts(t, token) = {}
        BY <1>4, <1>6, <3>1
      <3> QED BY <2>2, <3>2
    <2> QED BY <2>1, <2>2
  <1> HIDE DEF C, F
  <1> QED
    BY <1>1, <1>4, <1>5, <1>6

(* is_value obeys its definition. *)
LEMMA IsValueEquation ==
  ASSUME NEW t \in ParamTypes, NEW token \in Tokens
  PROVE  /\ is_value[t][token] <=>
              /\ Shaped(t, token)
              /\ \A i \in Parts(t, token) : is_value[TypeOf(t, i)][token.subs[i]]
         /\ Shaped(t, token) => Parts(t, token) = DOMAIN token.subs
  <1>1. IsValues!WellFounded
    <2>1. ASSUME NEW f, NEW g, NEW u \in ParamTypes,
                 \A v \in ParamTypes : nodes[v] < nodes[u] => f[v] = g[v]
          PROVE  IsValueDef(f, u) = IsValueDef(g, u)
      <3>1. ASSUME NEW s \in Tokens
            PROVE  IsValueBody(f, u, s) = IsValueBody(g, u, s)
        <4>1. \A i \in Parts(u, s) : f[TypeOf(u, i)] = g[TypeOf(u, i)]
          BY <2>1, PartTypes
        <4>2. (\A i \in Parts(u, s) : f[TypeOf(u, i)][s.subs[i]])
                <=> \A i \in Parts(u, s) : g[TypeOf(u, i)][s.subs[i]]
          BY <4>1
        <4>3. IsValueBody(f, u, s) <=> IsValueBody(g, u, s)
          BY <4>2, BodyIs
        <4>4. IsValueBody(f, u, s) \in BOOLEAN /\ IsValueBody(g, u, s) \in BOOLEAN
          BY BodyIs
        <4> QED BY <4>3, <4>4
      <3> QED BY <3>1 DEF IsValueDef
    <2> QED
      BY <2>1, FiniteTypesAssumption DEF IsValues!WellFounded
  <1>2. is_value = CHOOSE f : f = [u \in ParamTypes |-> IsValueDef(f, u)]
    BY Zenon DEF is_value, IsValueDef, IsValueBody
  <1>3. is_value = [u \in ParamTypes |-> IsValueDef(is_value, u)]
    BY <1>1, <1>2, NaturalInduction, IsValues!Defined DEF IsValues!Inductive
  <1>4. is_value[t] = IsValueDef(is_value, t)
    BY <1>3
  <1>5. is_value[t][token] = IsValueBody(is_value, t, token)
    BY <1>4 DEF IsValueDef
  <1> QED
    BY <1>5, BodyIs

(* A value has the shape of its type, and so have its components. *)
LEMMA ValueParts ==
  ASSUME NEW t \in ParamTypes, NEW token \in Tokens, is_value[t][token]
  PROVE  /\ Shaped(t, token)
         /\ Parts(t, token) = DOMAIN token.subs
         /\ \A i \in DOMAIN token.subs : is_value[TypeOf(t, i)][token.subs[i]]
  BY IsValueEquation

(* The right side of the definition of enc. *)
RowEnc(f, t, token) ==
  Layout([i \in Parts(t, token) |-> f[TypeOf(t, i)][token.subs[i]]],
         [i \in Parts(t, token) |-> TypeOf(t, i) \in DynamicTypes])

EncBody(f, t, token) ==
  CASE t.kind = "Address"             -> Zeros(AddrPad) \o token.val
    [] t.kind \in {"Int", "Uint"}     -> token.val
    [] t.kind = "Bool"                -> NumberWord(token.val[1])
    [] t.kind = "FixedBytes"          ->
         token.val \o Zeros(WordsFor(t.size) * WordLen - Len(token.val))
    [] t.kind \in {"Bytes", "String"} ->
         NumberWord(Len(token.val)) \o PadRight(token.val)
    [] t.kind = "Array"               -> NumberWord(Len(token.subs)) \o RowEnc(f, t, token)
    [] t.kind \in {"FixedArray", "Tuple"} -> RowEnc(f, t, token)

EncDef(f, t) == [token \in Tokens |-> EncBody(f, t, token)]

Encodings == INSTANCE Recursion WITH
  Dom <- ParamTypes, measure <- nodes, Def <- EncDef

(* enc obeys its definition. *)
LEMMA EncEquation == \A t \in ParamTypes : enc[t] = EncDef(enc, t)
  <1>1. Encodings!WellFounded
    <2>1. ASSUME NEW f, NEW g, NEW t \in ParamTypes,
                 \A u \in ParamTypes : nodes[u] < nodes[t] => f[u] = g[u]
          PROVE  EncDef(f, t) = EncDef(g, t)
      <3>1. ASSUME NEW token \in Tokens
            PROVE  RowEnc(f, t, token) = RowEnc(g, t, token)
        <4>1. \A i \in Parts(t, token) : f[TypeOf(t, i)] = g[TypeOf(t, i)]
          BY <2>1, PartTypes
        <4>2. [i \in Parts(t, token) |-> f[TypeOf(t, i)][token.subs[i]]]
                = [i \in Parts(t, token) |-> g[TypeOf(t, i)][token.subs[i]]]
          BY <4>1
        <4> QED BY <4>2, Zenon DEF RowEnc
      <3>2. \A token \in Tokens : EncBody(f, t, token) = EncBody(g, t, token)
        BY <3>1, Zenon DEF EncBody
      <3> QED BY <3>2 DEF EncDef
    <2> QED
      BY <2>1, FiniteTypesAssumption DEF Encodings!WellFounded
  <1>2. enc = CHOOSE f : f = [t \in ParamTypes |-> EncDef(f, t)]
    BY Zenon DEF enc, EncDef, EncBody, RowEnc
  <1>3. enc = [t \in ParamTypes |-> EncDef(enc, t)]
    BY <1>1, <1>2, NaturalInduction, Encodings!Defined DEF Encodings!Inductive
  <1> QED
    BY <1>3

(* A number of any size is written as a word. *)
LEMMA NumberWordBytes ==
  ASSUME NEW v \in Nat
  PROVE  NumberWord(v) \in Seq(Byte) /\ Len(NumberWord(v)) = WordLen
  <1>0. Radix \in Nat /\ Radix > 1 /\ WordLen \in Nat
    BY RadixFacts, WordAssumption
  <1> DEFINE S == {k \in Nat : Power[k] \in Nat /\ Power[k] > 0}
  <1>1. 0 \in S
    BY PowerEquation
  <1>2. ASSUME NEW k \in Nat, k \in S PROVE k + 1 \in S
    <2>1. Power[k + 1] = Radix * Power[k]
      BY PowerEquation
    <2>2. \A p \in Nat : p > 0 => Radix * p \in Nat /\ Radix * p > 0
      BY <1>0
    <2> QED BY <1>2, <2>1, <2>2
  <1> HIDE DEF S
  <1>3. Nat \subseteq S
    BY <1>1, <1>2, NaturalInduction
  <1>4. ASSUME NEW i \in 1..WordLen PROVE (v \div Power[WordLen - i]) % Radix \in Byte
    <2> DEFINE p == Power[WordLen - i]
    <2>1. p \in Nat /\ p > 0
      <3>1. WordLen - i \in Nat
        BY <1>0
      <3> QED BY <1>3, <3>1 DEF S
    <2> HIDE DEF p
    <2> DEFINE q == v \div p
    <2>2. q \in Nat
      BY <2>1, Quotient
    <2> HIDE DEF q
    <2>3. q % Radix \in 0..(Radix - 1)
      BY <1>0, <2>2, Quotient
    <2> QED BY <2>3 DEF p, q, Byte
  <1>5. NumberWord(v) = [i \in 1..WordLen |-> (v \div Power[WordLen - i]) % Radix]
    BY DEF NumberWord
  <1> QED
    BY <1>0, <1>4, <1>5

(* The lengths of the first k of a row. *)
LEMMA TotalLenOfPart ==
  ASSUME NEW ss \in Seq(Seq(Byte)), NEW k \in 0..Len(ss)
  PROVE  TotalLen(SubSeq(ss, 1, k)) = LenTo(ss, k)
  <1> DEFINE front == SubSeq(ss, 1, k)
  <1>0. Len(ss) \in Nat /\ k \in Nat /\ k <= Len(ss)
    BY LenProperties
  <1>1. /\ front \in Seq(Seq(Byte)) /\ Len(front) = k
        /\ \A i \in 1..k : front[i] = ss[i]
    <2>1. \A i \in 1..k : ss[i] \in Seq(Byte)
      BY <1>0, ElementOfSeq
    <2> QED BY <1>0, <2>1, SubSeqProperties
  <1>2. DOMAIN front = 1..k
    BY <1>1, LenProperties
  <1> HIDE DEF front
  <1>3. [i \in DOMAIN front |-> Len(front[i])] = [i \in 1..k |-> Len(ss[i])]
    BY <1>1, <1>2
  <1>4. TotalLen(front) = LenTo(ss, k)
    BY <1>3 DEF TotalLen, LenTo
  <1> QED
    BY <1>4 DEF front

(* TotalLen adds up the lengths of all rows. *)
LEMMA TotalLenIs ==
  ASSUME NEW ss \in Seq(Seq(Byte))
  PROVE  TotalLen(ss) = LenTo(ss, Len(ss))
  <1>1. DOMAIN ss = 1..Len(ss)
    BY LenProperties
  <1> QED
    BY <1>1 DEF TotalLen, LenTo

(* Rows of the same lengths have the same lengths together. *)
LEMMA SameLenTo ==
  ASSUME NEW r, NEW s, NEW k, \A i \in 1..k : Len(r[i]) = Len(s[i])
  PROVE  LenTo(r, k) = LenTo(s, k)
  <1>1. [i \in 1..k |-> Len(r[i])] = [i \in 1..k |-> Len(s[i])]
    OBVIOUS
  <1> QED
    BY <1>1 DEF LenTo

(* The parts of a row before and up to one of them. *)
LEMMA LenToPart ==
  ASSUME NEW ss \in Seq(Seq(Byte)), NEW i \in 1..Len(ss)
  PROVE  /\ LenTo(ss, i - 1) \in Nat /\ LenTo(ss, Len(ss)) \in Nat /\ Len(ss[i]) \in Nat
         /\ LenTo(ss, i - 1) + Len(ss[i]) <= LenTo(ss, Len(ss))
  <1>1. /\ FlattenSeq(ss) \in Seq(Byte)
        /\ Len(FlattenSeq(ss)) = LenTo(ss, Len(ss))
        /\ Holds(FlattenSeq(ss), LenTo(ss, i - 1), ss[i])
    BY FlattenFacts
  <1>2. i - 1 \in 0..Len(ss) /\ ss[i] \in Seq(Byte)
    BY LenProperties, ElementOfSeq
  <1>3. LenTo(ss, i - 1) \in Nat
    BY <1>2, LenToStep
  <1>4. LenTo(ss, Len(ss)) \in Nat /\ Len(ss[i]) \in Nat
    BY <1>1, <1>2, LenProperties
  <1> QED
    BY <1>1, <1>3, <1>4 DEF Holds

-----------------------------------------------------------------------------
(* The parts of a layout: what is measured for the heads, and the tails.   *)

SizesOf(encs, dynamic) ==
  [i \in DOMAIN encs |-> IF dynamic[i] THEN Zeros(WordLen) ELSE encs[i]]
TailsOf(encs, dynamic) ==
  [i \in DOMAIN encs |-> IF dynamic[i] THEN encs[i] ELSE <<>>]

HeadAt(encs, dynamic, i) == LenTo(SizesOf(encs, dynamic), i - 1)
OffsetOf(encs, dynamic, i) ==
  LenTo(SizesOf(encs, dynamic), Len(encs)) + LenTo(TailsOf(encs, dynamic), i - 1)
HeadsOf(encs, dynamic) ==
  [i \in DOMAIN encs |-> IF dynamic[i] THEN NumberWord(OffsetOf(encs, dynamic, i))
                                       ELSE encs[i]]

(* The heads and tails of a layout, one for each element. *)
LEMMA LayoutParts ==
  ASSUME NEW encs \in Seq(Seq(Byte)), NEW dynamic
  PROVE  LET sizes == SizesOf(encs, dynamic)
             tails == TailsOf(encs, dynamic)
             heads == HeadsOf(encs, dynamic)
             n == Len(encs)
         IN  /\ sizes \in Seq(Seq(Byte)) /\ tails \in Seq(Seq(Byte))
             /\ heads \in Seq(Seq(Byte)) /\ n \in Nat
             /\ Len(sizes) = n /\ Len(tails) = n /\ Len(heads) = n
             /\ \A i \in 1..n : /\ dynamic[i] => /\ tails[i] = encs[i]
                                                 /\ heads[i] = NumberWord(OffsetOf(encs, dynamic, i))
                                                 /\ Len(sizes[i]) = WordLen
                                /\ ~dynamic[i] => /\ tails[i] = <<>> /\ heads[i] = encs[i]
                                                  /\ sizes[i] = encs[i]
                                /\ Len(heads[i]) = Len(sizes[i])
                                /\ OffsetOf(encs, dynamic, i) \in Nat
             /\ Layout(encs, dynamic) = FlattenSeq(heads) \o FlattenSeq(tails)
  <1> DEFINE sizes == SizesOf(encs, dynamic)
             tails == TailsOf(encs, dynamic)
             heads == HeadsOf(encs, dynamic)
             n == Len(encs)
             off(i) == OffsetOf(encs, dynamic, i)
  <1>1. n \in Nat /\ DOMAIN encs = 1..n /\ \A i \in 1..n : encs[i] \in Seq(Byte)
    BY LenProperties, ElementOfSeq
  <1>2. <<>> \in Seq(Byte) /\ Zeros(WordLen) \in Seq(Byte) /\ Len(Zeros(WordLen)) = WordLen
    BY WordAssumption, ZerosFacts
  <1>3. /\ sizes \in Seq(Seq(Byte)) /\ Len(sizes) = n
        /\ \A i \in 1..n : /\ dynamic[i] => sizes[i] = Zeros(WordLen)
                           /\ ~dynamic[i] => sizes[i] = encs[i]
    <2>1. sizes = [i \in 1..n |-> IF dynamic[i] THEN Zeros(WordLen) ELSE encs[i]]
      BY <1>1 DEF SizesOf
    <2> HIDE DEF sizes
    <2>2. \A i \in 1..n : sizes[i] \in Seq(Byte)
      BY <1>1, <1>2, <2>1
    <2> QED BY <1>1, <2>1, <2>2
  <1>4. /\ tails \in Seq(Seq(Byte)) /\ Len(tails) = n
        /\ \A i \in 1..n : /\ dynamic[i] => tails[i] = encs[i]
                           /\ ~dynamic[i] => tails[i] = <<>>
    <2>1. tails = [i \in 1..n |-> IF dynamic[i] THEN encs[i] ELSE <<>>]
      BY <1>1 DEF TailsOf
    <2> HIDE DEF tails
    <2>2. \A i \in 1..n : tails[i] \in Seq(Byte)
      BY <1>1, <1>2, <2>1
    <2> QED BY <1>1, <2>1, <2>2
  <1> HIDE DEF sizes, tails
  <1>5. ASSUME NEW i \in 1..n PROVE off(i) \in Nat
    <2>1. off(i) = LenTo(sizes, n) + LenTo(tails, i - 1)
      BY DEF OffsetOf, sizes, tails
    <2>2. LenTo(sizes, n) \in Nat /\ LenTo(tails, i - 1) \in Nat
      <3>1. n \in 0..Len(sizes) /\ i - 1 \in 0..Len(tails)
        BY <1>1, <1>3, <1>4
      <3> QED BY <1>3, <1>4, <3>1, LenToStep
    <2> HIDE DEF off
    <2> QED BY <2>1, <2>2
  <1>6. /\ heads \in Seq(Seq(Byte)) /\ Len(heads) = n
        /\ \A i \in 1..n : /\ dynamic[i] => heads[i] = NumberWord(off(i))
                           /\ ~dynamic[i] => heads[i] = encs[i]
    <2>1. heads = [i \in 1..n |-> IF dynamic[i] THEN NumberWord(off(i)) ELSE encs[i]]
      BY <1>1 DEF HeadsOf
    <2> HIDE DEF heads, off
    <2>2. \A i \in 1..n : heads[i] \in Seq(Byte)
      BY <1>1, <1>5, <2>1, NumberWordBytes
    <2> QED BY <1>1, <2>1, <2>2
  <1> HIDE DEF heads, off
  <1>7. ASSUME NEW i \in 1..n PROVE Len(heads[i]) = Len(sizes[i])
    <2>1. CASE dynamic[i]
      <3>1. Len(NumberWord(off(i))) = WordLen
        BY <1>5, NumberWordBytes
      <3> QED BY <1>2, <1>3, <1>6, <2>1, <3>1
    <2>2. CASE ~dynamic[i]
      BY <1>3, <1>6, <2>2
    <2> QED BY <2>1, <2>2
  <1>8. Layout(encs, dynamic) = FlattenSeq(heads) \o FlattenSeq(tails)
    <2>1. TotalLen(sizes) = LenTo(sizes, n)
      BY <1>3, TotalLenIs
    <2>2. \A i \in DOMAIN encs : TotalLen(SubSeq(tails, 1, i - 1)) = LenTo(tails, i - 1)
      <3>1. \A i \in DOMAIN encs : i - 1 \in 0..Len(tails)
        BY <1>1, <1>4
      <3> QED BY <1>4, <3>1, TotalLenOfPart
    <2>3. [i \in DOMAIN encs |->
             IF dynamic[i] THEN NumberWord(TotalLen(sizes) + TotalLen(SubSeq(tails, 1, i - 1)))
                           ELSE encs[i]] = heads
      <3>1. \A i \in DOMAIN encs : TotalLen(sizes) + TotalLen(SubSeq(tails, 1, i - 1)) = off(i)
        BY <2>1, <2>2 DEF off, OffsetOf, sizes, tails
      <3> QED BY <3>1 DEF heads, HeadsOf, off
    <2>4. Layout(encs, dynamic)
            = FlattenSeq([i \in DOMAIN encs |->
                 IF dynamic[i] THEN NumberWord(TotalLen(sizes) + TotalLen(SubSeq(tails, 1, i - 1)))
                               ELSE encs[i]]) \o FlattenSeq(tails)
      BY Zenon DEF Layout, sizes, tails, SizesOf, TailsOf
    <2> QED BY <2>3, <2>4
  <1> QED
    BY <1>1, <1>2, <1>3, <1>4, <1>5, <1>6, <1>7, <1>8 DEF sizes, tails, heads, off

(* What stands where in a layout. *)
LEMMA LayoutFacts ==
  ASSUME NEW encs \in Seq(Seq(Byte)), NEW dynamic
  PROVE  LET L == Layout(encs, dynamic)
             n == Len(encs)
             sizes == SizesOf(encs, dynamic)
             tails == TailsOf(encs, dynamic)
         IN  /\ L \in Seq(Byte) /\ Len(L) = LenTo(sizes, n) + LenTo(tails, n)
             /\ LenTo(sizes, n) \in Nat /\ LenTo(tails, n) \in Nat
             /\ \A i \in 1..n :
                  /\ HeadAt(encs, dynamic, i) \in Nat
                  /\ OffsetOf(encs, dynamic, i) \in Nat
                  /\ HeadAt(encs, dynamic, i) + Len(sizes[i]) <= Len(L)
                  /\ ~dynamic[i] => Holds(L, HeadAt(encs, dynamic, i), encs[i])
                  /\ dynamic[i] =>
                       /\ Holds(L, HeadAt(encs, dynamic, i),
                                NumberWord(OffsetOf(encs, dynamic, i)))
                       /\ Holds(L, OffsetOf(encs, dynamic, i), encs[i])
  <1> DEFINE L == Layout(encs, dynamic)
             n == Len(encs)
             sizes == SizesOf(encs, dynamic)
             tails == TailsOf(encs, dynamic)
             heads == HeadsOf(encs, dynamic)
             H == FlattenSeq(heads)
             T == FlattenSeq(tails)
             off(i) == OffsetOf(encs, dynamic, i)
             at(i) == HeadAt(encs, dynamic, i)
  <1>1. /\ sizes \in Seq(Seq(Byte)) /\ tails \in Seq(Seq(Byte))
        /\ heads \in Seq(Seq(Byte)) /\ n \in Nat
        /\ Len(sizes) = n /\ Len(tails) = n /\ Len(heads) = n
        /\ L = H \o T
    BY LayoutParts
  <1>2. \A i \in 1..n : /\ dynamic[i] => tails[i] = encs[i] /\ heads[i] = NumberWord(off(i))
                        /\ ~dynamic[i] => heads[i] = encs[i]
                        /\ Len(heads[i]) = Len(sizes[i])
                        /\ off(i) \in Nat
    <2> TAKE i \in 1..n
    <2> QED BY LayoutParts, Zenon
  <1>3. \A i \in 1..n : at(i) = LenTo(sizes, i - 1) /\ off(i) = LenTo(sizes, n) + LenTo(tails, i - 1)
    BY DEF HeadAt, OffsetOf
  <1> HIDE DEF sizes, tails, heads, off, at
  <1>4. /\ H \in Seq(Byte) /\ Len(H) = LenTo(heads, n)
        /\ \A i \in 1..n : Holds(H, LenTo(heads, i - 1), heads[i])
    BY <1>1, FlattenFacts
  <1>5. /\ T \in Seq(Byte) /\ Len(T) = LenTo(tails, n)
        /\ \A i \in 1..n : Holds(T, LenTo(tails, i - 1), tails[i])
    BY <1>1, FlattenFacts
  <1>6. \A k \in 0..n : LenTo(heads, k) = LenTo(sizes, k) /\ LenTo(sizes, k) \in Nat
                        /\ LenTo(tails, k) \in Nat
    <2> TAKE k \in 0..n
    <2>1. \A i \in 1..k : Len(heads[i]) = Len(sizes[i])
      BY <1>1, <1>2
    <2> QED BY <1>1, <2>1, SameLenTo, LenToStep
  <1>7. n \in 0..n /\ \A i \in 1..n : i - 1 \in 0..n
    BY <1>1
  <1> HIDE DEF H, T, L
  <1>8. /\ L \in Seq(Byte) /\ Len(L) = Len(H) + Len(T)
        /\ \A p \in Nat : \A e \in Seq(Byte) :
              /\ Holds(H, p, e) => Holds(L, p, e)
              /\ Holds(T, p, e) => Holds(L, Len(H) + p, e)
    BY <1>1, <1>4, <1>5, HoldsInConcat
  <1>9. ASSUME NEW i \in 1..n
        PROVE  /\ at(i) \in Nat /\ off(i) \in Nat
               /\ at(i) + Len(sizes[i]) <= Len(L)
               /\ ~dynamic[i] => Holds(L, at(i), encs[i])
               /\ dynamic[i] => /\ Holds(L, at(i), NumberWord(off(i)))
                                /\ Holds(L, off(i), encs[i])
    <2>1. /\ at(i) = LenTo(heads, i - 1) /\ at(i) \in Nat
          /\ off(i) = Len(H) + LenTo(tails, i - 1) /\ LenTo(tails, i - 1) \in Nat
      BY <1>3, <1>4, <1>6, <1>7
    <2>2. encs[i] \in Seq(Byte) /\ heads[i] \in Seq(Byte) /\ tails[i] \in Seq(Byte)
      BY <1>1, ElementOfSeq
    <2>3. Holds(L, at(i), heads[i])
      BY <1>4, <1>8, <2>1, <2>2
    <2>4. Holds(L, off(i), tails[i])
      BY <1>5, <1>8, <2>1, <2>2
    <2>5. at(i) + Len(sizes[i]) <= Len(L)
      BY <1>2, <2>3 DEF Holds
    <2> QED BY <1>2, <2>1, <2>3, <2>4, <2>5
  <1>10. Len(L) = LenTo(sizes, n) + LenTo(tails, n)
         /\ LenTo(sizes, n) \in Nat /\ LenTo(tails, n) \in Nat
    BY <1>4, <1>5, <1>6, <1>7, <1>8
  <1> QED
    BY <1>8, <1>9, <1>10 DEF L, sizes, tails, off, at

(* m is the Mediate of a value of a dynamic or of a static type, which is  *)
(* encoded as e.                                                           *)
DynamicMediate(m, e) ==
  /\ m.offset /\ m.tail = e
  /\ m.head_len \in Nat /\ AsU32(m.head_len) = AsU32(WordLen)
  /\ m.tail_len \in Nat /\ AsU32(m.tail_len) = AsU32(Len(e))
StaticMediate(m, e) ==
  /\ ~m.offset /\ m.head = e /\ m.tail = <<>>
  /\ m.head_len \in Nat /\ AsU32(m.head_len) = AsU32(Len(e))
  /\ m.tail_len = 0

Mediated(ms, encs, dynamic) ==
  \A i \in DOMAIN encs : IF dynamic[i] THEN DynamicMediate(ms[i], encs[i])
                                       ELSE StaticMediate(ms[i], encs[i])

(* The lengths that the Mediates of a row predict. *)
LEMMA PredictedLengths ==
  ASSUME NEW encs \in Seq(Seq(Byte)), NEW dynamic, NEW M, NEW ms \in Seq(M),
         Len(ms) = Len(encs), Mediated(ms, encs, dynamic)
  PROVE  /\ heads_len(ms) = AsU32(LenTo(SizesOf(encs, dynamic), Len(encs)))
         /\ \A k \in 0..Len(encs) :
              tails_len(SubSeq(ms, 1, k)) = AsU32(LenTo(TailsOf(encs, dynamic), k))
         /\ tails_len(ms) = AsU32(LenTo(TailsOf(encs, dynamic), Len(encs)))
  <1> DEFINE n == Len(encs)
             sizes == SizesOf(encs, dynamic)
             tails == TailsOf(encs, dynamic)
  <1>1. /\ n \in Nat /\ sizes \in Seq(Seq(Byte)) /\ tails \in Seq(Seq(Byte))
        /\ Len(sizes) = n /\ Len(tails) = n
        /\ DOMAIN encs = 1..n /\ DOMAIN ms = 1..n
    BY LayoutParts, LenProperties
  <1>2. ASSUME NEW i \in 1..n
        PROVE  /\ ms[i].head_len \in Nat /\ AsU32(ms[i].head_len) = AsU32(Len(sizes[i]))
               /\ ms[i].tail_len \in Nat /\ AsU32(ms[i].tail_len) = AsU32(Len(tails[i]))
               /\ Len(sizes[i]) \in Nat /\ Len(tails[i]) \in Nat
    <2>1. sizes[i] \in Seq(Byte) /\ tails[i] \in Seq(Byte)
      BY <1>1, ElementOfSeq
    <2>2. CASE dynamic[i]
      <3>1. DynamicMediate(ms[i], encs[i])
        BY <1>1, <2>2 DEF Mediated
      <3>2. Len(sizes[i]) = WordLen /\ tails[i] = encs[i]
        BY <2>2, LayoutParts
      <3> QED BY <2>1, <3>1, <3>2, LenProperties DEF DynamicMediate
    <2>3. CASE ~dynamic[i]
      <3>1. StaticMediate(ms[i], encs[i])
        BY <1>1, <2>3 DEF Mediated
      <3>2. sizes[i] = encs[i] /\ tails[i] = <<>>
        BY <2>3, LayoutParts
      <3>3. Len(<<>>) = 0
        OBVIOUS
      <3> QED BY <2>1, <3>1, <3>2, <3>3, LenProperties DEF StaticMediate
    <2> QED BY <2>2, <2>3
  <1> HIDE DEF sizes, tails
  <1>3. ASSUME NEW k \in 0..n
        PROVE  /\ AsU32(Total[[i \in 1..k |-> ms[i].head_len]]) = AsU32(LenTo(sizes, k))
               /\ AsU32(Total[[i \in 1..k |-> ms[i].tail_len]]) = AsU32(LenTo(tails, k))
    <2> DEFINE hm == [i \in 1..k |-> ms[i].head_len]
               hs == [i \in 1..k |-> Len(sizes[i])]
               tm == [i \in 1..k |-> ms[i].tail_len]
               ts == [i \in 1..k |-> Len(tails[i])]
    <2>1. k \in Nat /\ \A i \in 1..k : i \in 1..n
      BY <1>1
    <2>2. /\ hm \in [1..k -> Nat] /\ hs \in [1..k -> Nat]
          /\ \A i \in 1..k : AsU32(hm[i]) = AsU32(hs[i])
      BY <1>2, <2>1
    <2>3. /\ tm \in [1..k -> Nat] /\ ts \in [1..k -> Nat]
          /\ \A i \in 1..k : AsU32(tm[i]) = AsU32(ts[i])
      BY <1>2, <2>1
    <2> HIDE DEF hm, hs, tm, ts
    <2>5. AsU32(Total[hm]) = AsU32(Total[hs])
      BY <2>1, <2>2, TotalU32
    <2>6. AsU32(Total[tm]) = AsU32(Total[ts])
      BY <2>1, <2>3, TotalU32
    <2> QED BY <2>5, <2>6 DEF hm, hs, tm, ts, LenTo
  <1>4. n \in 0..n
    BY <1>1
  <1>5. heads_len(ms) = AsU32(LenTo(sizes, n)) /\ tails_len(ms) = AsU32(LenTo(tails, n))
    BY <1>1, <1>3, <1>4 DEF heads_len, tails_len, U32Sum
  <1>6. ASSUME NEW k \in 0..n
        PROVE  tails_len(SubSeq(ms, 1, k)) = AsU32(LenTo(tails, k))
    <2> DEFINE front == SubSeq(ms, 1, k)
    <2>1. \A i \in 1..k : ms[i] \in M /\ i \in 1..n
      BY <1>1
    <2>2. front \in Seq(M) /\ Len(front) = k /\ \A i \in 1..k : front[i] = ms[i]
      BY <1>1, <2>1, SubSeqProperties
    <2> HIDE DEF front
    <2>3. DOMAIN front = 1..k
      BY <2>2, LenProperties
    <2>4. [i \in DOMAIN front |-> front[i].tail_len] = [i \in 1..k |-> ms[i].tail_len]
      BY <2>2, <2>3
    <2>5. tails_len(front) = AsU32(Total[[i \in 1..k |-> ms[i].tail_len]])
      BY <2>4 DEF tails_len, U32Sum
    <2> QED BY <1>3, <2>5 DEF front
  <1> QED
    BY <1>5, <1>6 DEF sizes, tails

(* The encoder lays a row out as the specification does, if its encoding   *)
(* has no offset that is not a u32.                                        *)
LEMMA RowCanonical ==
  ASSUME NEW encs \in Seq(Seq(Byte)), NEW dynamic, NEW M, NEW ms \in Seq(M),
         Len(ms) = Len(encs), Mediated(ms, encs, dynamic),
         \A i \in DOMAIN encs : dynamic[i] => Len(encs[i]) >= WordLen,
         Len(Layout(encs, dynamic)) < U32 + WordLen
  PROVE  /\ encode_head_tail_append(ms) = Layout(encs, dynamic)
         /\ U32Add(heads_len(ms), tails_len(ms)) = AsU32(Len(Layout(encs, dynamic)))
  <1> DEFINE n == Len(encs)
             sizes == SizesOf(encs, dynamic)
             tails == TailsOf(encs, dynamic)
             heads == HeadsOf(encs, dynamic)
             L == Layout(encs, dynamic)
             off(i) == OffsetOf(encs, dynamic, i)
             offset(i) == U32Add(heads_len(ms), tails_len(SubSeq(ms, 1, i - 1)))
  <1>1. /\ n \in Nat /\ DOMAIN encs = 1..n /\ DOMAIN ms = 1..n
        /\ \A i \in 1..n : encs[i] \in Seq(Byte)
    BY LenProperties, ElementOfSeq
  <1>2. /\ heads_len(ms) = AsU32(LenTo(sizes, n))
        /\ \A k \in 0..n : tails_len(SubSeq(ms, 1, k)) = AsU32(LenTo(tails, k))
        /\ tails_len(ms) = AsU32(LenTo(tails, n))
    BY PredictedLengths
  <1>3. /\ L \in Seq(Byte) /\ Len(L) = LenTo(sizes, n) + LenTo(tails, n)
        /\ LenTo(sizes, n) \in Nat /\ LenTo(tails, n) \in Nat
        /\ \A i \in 1..n : off(i) \in Nat /\ (dynamic[i] => Holds(L, off(i), encs[i]))
    BY LayoutFacts
  <1>4. \A a, b \in Nat : U32Add(AsU32(a), AsU32(b)) = AsU32(a + b)
    <2> TAKE a, b \in Nat
    <2>1. AsU32(AsU32(a) + AsU32(b)) = AsU32(a + AsU32(b))
      <3>1. PICK c \in Nat : c = AsU32(b)
        BY U32Range
      <3> QED BY <3>1, U32Sums
    <2>2. AsU32(a + AsU32(b)) = AsU32(a + b)
      BY U32Sums
    <2> QED BY <2>1, <2>2 DEF U32Add
  <1>5. U32Add(heads_len(ms), tails_len(ms)) = AsU32(Len(L))
    BY <1>2, <1>3, <1>4
  <1>6. ASSUME NEW i \in 1..n
        PROVE  /\ head_append(ms[i], offset(i)) = heads[i]
               /\ ms[i].tail = tails[i]
    <2>1. CASE dynamic[i]
      <3>1. DynamicMediate(ms[i], encs[i])
        BY <1>1, <2>1 DEF Mediated
      <3>2. tails[i] = encs[i] /\ heads[i] = NumberWord(off(i))
        BY <2>1, LayoutParts
      <3>3. offset(i) = AsU32(off(i))
        <4>1. i - 1 \in 0..n /\ tails \in Seq(Seq(Byte)) /\ Len(tails) = n
          BY <1>1, LayoutParts
        <4>2. LenTo(tails, i - 1) \in Nat
          BY <4>1, LenToStep
        <4>3. off(i) = LenTo(sizes, n) + LenTo(tails, i - 1)
          BY DEF OffsetOf
        <4> HIDE DEF off, sizes, tails
        <4> QED BY <1>2, <1>3, <1>4, <4>1, <4>2, <4>3
      <3>4. off(i) \in Nat /\ off(i) < U32
        <4>1. off(i) + Len(encs[i]) <= Len(L) /\ Len(encs[i]) >= WordLen /\ off(i) \in Nat
          BY <1>1, <1>3, <2>1 DEF Holds
        <4>2. Len(encs[i]) \in Nat /\ Len(L) \in Nat /\ Len(L) < U32 + WordLen
              /\ U32 \in Nat /\ WordLen \in Nat
          BY <1>1, <1>3, RadixFacts, WordAssumption, LenProperties
        <4> HIDE DEF off, L
        <4> QED BY <4>1, <4>2
      <3> HIDE DEF off, offset, heads, tails
      <3>5. offset(i) = off(i) /\ NumberWord(off(i)) = pad_u32(off(i))
        BY <3>3, <3>4, U32Range, NumberWordIs
      <3> QED BY <3>1, <3>2, <3>5 DEF DynamicMediate, head_append
    <2>2. CASE ~dynamic[i]
      <3>1. StaticMediate(ms[i], encs[i])
        BY <1>1, <2>2 DEF Mediated
      <3>2. tails[i] = <<>> /\ heads[i] = encs[i]
        BY <2>2, LayoutParts
      <3> HIDE DEF offset, heads, tails
      <3> QED BY <3>1, <3>2 DEF StaticMediate, head_append
    <2> QED BY <2>1, <2>2
  <1>7. heads = [i \in 1..n |-> heads[i]] /\ tails = [i \in 1..n |-> tails[i]]
    BY <1>1 DEF HeadsOf, TailsOf
  <1>8. L = FlattenSeq(heads) \o FlattenSeq(tails)
    BY LayoutParts
  <1> HIDE DEF heads, tails
  <1>9. /\ [i \in DOMAIN ms |-> head_append(ms[i], offset(i))] = heads
        /\ [i \in DOMAIN ms |-> ms[i].tail] = tails
    <2> HIDE DEF offset
    <2> QED BY <1>1, <1>6, <1>7
  <1>10. encode_head_tail_append(ms)
           = FlattenSeq([i \in DOMAIN ms |-> head_append(ms[i], offset(i))])
               \o FlattenSeq([i \in DOMAIN ms |-> ms[i].tail])
    BY Zenon DEF encode_head_tail_append
  <1> QED
    BY <1>5, <1>8, <1>9, <1>10

(* Nothing in a row. *)
LEMMA NoLen ==
  ASSUME NEW ss \in Seq(Seq(Byte)), \A i \in 1..Len(ss) : ss[i] = <<>>
  PROVE  FlattenSeq(ss) = <<>>
  <1> DEFINE n == Len(ss)
             S == {k \in Nat : k <= n => LenTo(ss, k) = 0}
  <1>1. n \in Nat
    BY LenProperties
  <1>2. 0 \in S
    BY LenToStep
  <1>3. ASSUME NEW k \in Nat, k \in S PROVE k + 1 \in S
    <2> SUFFICES ASSUME k + 1 <= n PROVE LenTo(ss, k + 1) = 0
      OBVIOUS
    <2>1. k \in 0..(n - 1) /\ k + 1 \in 1..n /\ LenTo(ss, k) = 0
      BY <1>1, <1>3
    <2>2. LenTo(ss, k + 1) = LenTo(ss, k) + Len(ss[k + 1])
      BY <2>1, LenToStep
    <2>3. ss[k + 1] = <<>> /\ Len(<<>>) = 0
      BY <2>1
    <2> QED BY <2>1, <2>2, <2>3
  <1> HIDE DEF S
  <1>4. LenTo(ss, n) = 0
    <2>1. Nat \subseteq S
      BY <1>2, <1>3, NaturalInduction
    <2> QED BY <1>1, <2>1 DEF S
  <1>5. FlattenSeq(ss) \in Seq(Byte) /\ Len(FlattenSeq(ss)) = 0
    BY <1>4, FlattenFacts
  <1> QED
    BY <1>5, EmptySeq

(* A row of static values is its heads. *)
LEMMA RawRow ==
  ASSUME NEW encs \in Seq(Seq(Byte)), NEW dynamic, NEW M, NEW ms \in Seq(M),
         Len(ms) = Len(encs), Mediated(ms, encs, dynamic),
         \A i \in DOMAIN encs : ~dynamic[i]
  PROVE  /\ FlattenSeq([i \in DOMAIN ms |-> head_append(ms[i], 0)]) = Layout(encs, dynamic)
         /\ heads_len(ms) = AsU32(Len(Layout(encs, dynamic)))
  <1> DEFINE n == Len(encs)
             sizes == SizesOf(encs, dynamic)
             tails == TailsOf(encs, dynamic)
             heads == HeadsOf(encs, dynamic)
             L == Layout(encs, dynamic)
  <1>1. /\ n \in Nat /\ DOMAIN encs = 1..n /\ DOMAIN ms = 1..n
    BY LenProperties
  <1>2. /\ tails \in Seq(Seq(Byte)) /\ Len(tails) = n
        /\ heads \in Seq(Seq(Byte)) /\ Len(heads) = n
        /\ L = FlattenSeq(heads) \o FlattenSeq(tails)
    BY LayoutParts
  <1>3. ASSUME NEW i \in 1..n
        PROVE  tails[i] = <<>> /\ heads[i] = encs[i] /\ head_append(ms[i], 0) = heads[i]
    <2>1. ~dynamic[i]
      BY <1>1
    <2>2. StaticMediate(ms[i], encs[i])
      BY <1>1, <2>1 DEF Mediated
    <2>3. tails[i] = <<>> /\ heads[i] = encs[i]
      BY <2>1, LayoutParts
    <2> HIDE DEF heads, tails
    <2> QED BY <2>2, <2>3 DEF StaticMediate, head_append
  <1>4. heads = [i \in 1..n |-> heads[i]]
    BY <1>1 DEF HeadsOf
  <1>5. Len(L) = LenTo(sizes, n) + LenTo(tails, n) /\ LenTo(sizes, n) \in Nat
        /\ heads_len(ms) = AsU32(LenTo(sizes, n))
    BY LayoutFacts, PredictedLengths
  <1>6. LenTo(tails, n) = Len(FlattenSeq(tails))
    BY <1>2, FlattenFacts
  <1> HIDE DEF heads, tails, sizes, L
  <1>7. FlattenSeq(tails) = <<>>
    BY <1>2, <1>3, NoLen
  <1>8. [i \in DOMAIN ms |-> head_append(ms[i], 0)] = heads
    BY <1>1, <1>3, <1>4
  <1>9. L = FlattenSeq(heads)
    <2>1. FlattenSeq(heads) \in Seq(Byte)
      BY <1>2, FlattenFacts
    <2> QED BY <1>2, <1>7, <2>1, ConcatEmptySeq
  <1>10. Len(L) = LenTo(sizes, n)
    <2>1. Len(<<>>) = 0
      OBVIOUS
    <2> QED BY <1>5, <1>6, <1>7, <2>1
  <1> QED
    BY <1>5, <1>8, <1>9, <1>10 DEF L

(* Bytes padded to whole words. *)
LEMMA PaddedFacts ==
  ASSUME NEW bytes \in Seq(Byte)
  PROVE  /\ PadRight(bytes) \in Seq(Byte)
         /\ Len(PadRight(bytes)) = WordsFor(Len(bytes)) * WordLen
         /\ Holds(PadRight(bytes), 0, bytes)
         /\ \A i \in (Len(bytes) + 1)..(WordsFor(Len(bytes)) * WordLen) :
              PadRight(bytes)[i] = 0
         /\ fixed_bytes_append(bytes) = PadRight(bytes)
  <1> DEFINE n == Len(bytes)
             k == WordsFor(n) * WordLen
             z == Zeros(k - n)
  <1>1. n \in Nat /\ k \in Nat /\ n <= k
    BY LenProperties, WordsForFacts
  <1> HIDE DEF n, k
  <1>2. z \in Seq(Byte) /\ Len(z) = k - n /\ \A i \in 1..(k - n) : z[i] = 0
    <2>1. k - n \in Nat
      BY <1>1
    <2> QED BY <2>1, ZerosFacts
  <1> HIDE DEF z
  <1>3. Len(bytes) = n
    BY DEF n
  <1>4. /\ bytes \o z \in Seq(Byte) /\ Len(bytes \o z) = n + (k - n)
        /\ \A i \in 1..(n + (k - n)) : (bytes \o z)[i] = IF i <= n THEN bytes[i] ELSE z[i - n]
        /\ Holds(bytes \o z, 0, bytes)
    <2>1. /\ bytes \o z \in Seq(Byte) /\ Len(bytes \o z) = Len(bytes) + Len(z)
          /\ \A i \in 1..(Len(bytes) + Len(z)) :
               (bytes \o z)[i] = IF i <= Len(bytes) THEN bytes[i] ELSE z[i - Len(bytes)]
      BY <1>2, ConcatProperties
    <2>2. Holds(bytes \o z, 0, bytes)
      BY <1>2, HoldsInConcat
    <2> QED BY <1>2, <1>3, <2>1, <2>2
  <1>5. ASSUME NEW i \in (n + 1)..k PROVE (bytes \o z)[i] = 0
    <2>1. i \in 1..(n + (k - n)) /\ ~(i <= n) /\ i - n \in 1..(k - n)
      BY <1>1
    <2> QED BY <1>2, <1>4, <2>1
  <1>6. n + (k - n) = k
    BY <1>1
  <1>7. PadRight(bytes) = bytes \o z /\ fixed_bytes_append(bytes) = bytes \o z
    BY DEF PadRight, fixed_bytes_append, z, n, k
  <1> QED
    BY <1>4, <1>5, <1>6, <1>7 DEF k, n

(* The Mediates of leaves. *)
LEMMA RawFacts ==
  ASSUME NEW len \in Nat, NEW token, NEW e \in Seq(Byte),
         encode_token_append(token) = e, AsU32(Len(e)) = AsU32(WordLen * len)
  PROVE  StaticMediate(Raw(len, token), e)
  <1> DEFINE m == Raw(len, token)
  <1>1. ~m.offset /\ m.head = encode_token_append(token) /\ m.tail = <<>>
        /\ m.head_len = U32Mul(WordLen, len) /\ m.tail_len = 0
    BY Zenon DEF Raw, Mediate
  <1> HIDE DEF m
  <1>2. U32Mul(WordLen, len) \in Nat /\ AsU32(U32Mul(WordLen, len)) = AsU32(Len(e))
    <2>1. PICK x \in Nat : x = WordLen * len
      BY WordAssumption
    <2>2. AsU32(x) \in Nat /\ AsU32(x) < U32
      BY U32Range
    <2>3. AsU32(AsU32(x)) = AsU32(x)
      BY <2>2, U32Range
    <2> QED BY <2>1, <2>2, <2>3 DEF U32Mul
  <1>3. StaticMediate(m, e)
    BY <1>1, <1>2 DEF StaticMediate
  <1> QED
    BY <1>3 DEF m

(* A prefixed token makes a mediate with an offset and a tail of its encoding. *)
LEMMA PrefixedFacts ==
  ASSUME NEW len \in Nat, NEW token, NEW e \in Seq(Byte),
         encode_token_append(token) = e, AsU32(Len(e)) = AsU32(WordLen * len)
  PROVE  DynamicMediate(Prefixed(len, token), e)
  <1> DEFINE m == Prefixed(len, token)
  <1>1. m.offset /\ m.tail = encode_token_append(token)
        /\ m.head_len = WordLen /\ m.tail_len = U32Mul(WordLen, len)
    BY Zenon DEF Prefixed, Mediate
  <1> HIDE DEF m
  <1>2. U32Mul(WordLen, len) \in Nat /\ AsU32(U32Mul(WordLen, len)) = AsU32(Len(e))
    <2>1. PICK x \in Nat : x = WordLen * len
      BY WordAssumption
    <2>2. AsU32(x) \in Nat /\ AsU32(x) < U32
      BY U32Range
    <2>3. AsU32(AsU32(x)) = AsU32(x)
      BY <2>2, U32Range
    <2> QED BY <2>1, <2>2, <2>3 DEF U32Mul
  <1>3. DynamicMediate(m, e)
    BY <1>1, <1>2, WordAssumption DEF DynamicMediate
  <1> QED
    BY <1>3 DEF m

-----------------------------------------------------------------------------
(* What the encoder makes of a value is the encoding of the value. *)
CanonicalValue(t, token) ==
  LET e == enc[t][token]
  IN  /\ e \in Seq(Byte)
      /\ token_is_dynamic[token] <=> t \in DynamicTypes
      /\ t \in DynamicTypes => Len(e) >= WordLen
      /\ Len(e) < U32 + WordLen =>
           IF t \in DynamicTypes THEN DynamicMediate(mediate_token[token], e)
                                 ELSE StaticMediate(mediate_token[token], e)

Canonical(t) == \A token \in Tokens : is_value[t][token] => CanonicalValue(t, token)

(* The kinds of types whose values have no components. *)
LEMMA CanonicalWord ==
  ASSUME NEW t \in ParamTypes, t.kind \in {"Address", "Int", "Uint", "Bool", "FixedBytes"},
         NEW token \in Tokens, is_value[t][token]
  PROVE  CanonicalValue(t, token) /\ Len(enc[t][token]) = WordLen
  <1> DEFINE e == enc[t][token]
             val == token.val
             m == Len(val)
             med == mediate_token[token]
  <1>1. Shaped(t, token)
    BY ValueParts
  <1>2. /\ token.kind = t.kind /\ val \in Seq(Byte) /\ m \in Nat
        /\ t.kind = "Address" => m = WordLen - AddrPad
        /\ t.kind \in {"Int", "Uint"} => m = WordLen
        /\ t.kind = "Bool" => val \in {<<0>>, <<1>>}
        /\ t.kind = "FixedBytes" => m \in 1..t.size /\ t.size <= WordLen
        /\ t.size \in Nat
    BY <1>1, TokenFields, TypeFields, LenProperties DEF Shaped
  <1>3. e = EncBody(enc, t, token) /\ med = MediateDef(mediate_token, token)
    BY EncEquation, MediateToken DEF EncDef
  <1>4. /\ t \notin DynamicTypes
        /\ token_is_dynamic[token] <=> FALSE
    <2>1. t.kind \notin {"Bytes", "String", "Array", "FixedArray", "Tuple"}
      OBVIOUS
    <2>2. token_is_dynamic[token] = TokenDynamicDef(token_is_dynamic, token)
      BY TokenIsDynamic
    <2> QED BY <1>2, <2>1, <2>2, IsDynamic DEF DynamicTypes, TokenDynamicDef
  <1>5. WordLen \in Nat /\ WordLen > 4 /\ AddrPad \in 0..WordLen
    BY WordAssumption
  <1> HIDE DEF e, val, m, med
  <1> SUFFICES /\ e \in Seq(Byte) /\ Len(e) = WordLen
               /\ StaticMediate(med, e)
    BY <1>4 DEF CanonicalValue, e, med
  <1>6. ASSUME NEW w \in Seq(Byte), encode_token_append(token) = w, Len(w) = WordLen,
               med = Raw(1, token)
        PROVE  StaticMediate(med, w)
    <2>1. AsU32(Len(w)) = AsU32(WordLen * 1)
      BY <1>5, <1>6
    <2> QED BY <1>6, <2>1, RawFacts
  <1>7. CASE t.kind = "Address"
    <2>1. e = Zeros(AddrPad) \o val
      BY <1>3, <1>7, Zenon DEF EncBody, val
    <2>2. encode_token_append(token) = Zeros(AddrPad) \o val
      BY <1>2, <1>7, Zenon DEF encode_token_append, val
    <2>3. med = Raw(1, token)
      BY <1>2, <1>3, <1>7 DEF MediateDef
    <2>4. e \in Seq(Byte) /\ Len(e) = WordLen
      <3>1. Zeros(AddrPad) \in Seq(Byte) /\ Len(Zeros(AddrPad)) = AddrPad
        BY <1>5, ZerosFacts
      <3>2. Zeros(AddrPad) \o val \in Seq(Byte)
            /\ Len(Zeros(AddrPad) \o val) = Len(Zeros(AddrPad)) + Len(val)
        BY <1>2, <3>1, ConcatProperties
      <3>3. Len(val) = WordLen - AddrPad
        BY <1>2, <1>7 DEF m
      <3> QED BY <1>5, <2>1, <3>1, <3>2, <3>3
    <2> QED BY <1>6, <2>1, <2>2, <2>3, <2>4
  <1>8. CASE t.kind \in {"Int", "Uint"}
    <2>1. e = val
      BY <1>3, <1>8 DEF EncBody, val
    <2>2. encode_token_append(token) = val
      BY <1>2, <1>8 DEF encode_token_append, val
    <2>3. med = Raw(1, token)
      BY <1>2, <1>3, <1>8 DEF MediateDef
    <2>4. Len(val) = WordLen
      BY <1>2, <1>8 DEF m
    <2> QED BY <1>2, <1>6, <2>1, <2>2, <2>3, <2>4
  <1>9. CASE t.kind = "Bool"
    <2>1. e = NumberWord(val[1])
      BY <1>3, <1>9, Zenon DEF EncBody, val
    <2>2. encode_token_append(token) = Zeros(WordLen - 1) \o val
      BY <1>2, <1>9, Zenon DEF encode_token_append, val
    <2>3. med = Raw(1, token)
      BY <1>2, <1>3, <1>9 DEF MediateDef
    <2>4. ASSUME NEW b \in {0, 1}, val = <<b>>
          PROVE  e = Zeros(WordLen - 1) \o val /\ e \in Seq(Byte) /\ Len(e) = WordLen
      <3> DEFINE w == pad_u32(b)
                 z == Zeros(WordLen - 1)
                 y == z \o val
      <3>0. b \in Nat /\ b < U32 /\ b < Radix /\ Radix \in Nat /\ Radix > 1 /\ U32 \in Nat
        <4>1. Radix < U32 \/ Radix = U32
          <5>1. \A x \in Nat : x > 0 => x * Radix >= Radix /\ x * Radix \in Nat
            BY RadixFacts
          <5>2. Radix * Radix \in Nat /\ Radix * Radix > 0
            BY RadixFacts
          <5>3. Radix * Radix * Radix \in Nat /\ Radix * Radix * Radix > 0
            BY <5>1, <5>2, RadixFacts
          <5> DEFINE c == Radix * Radix * Radix
          <5>4. c * Radix >= Radix
            <6> HIDE DEF c
            <6> QED BY <5>1, <5>3 DEF c
          <5> QED BY <5>4, RadixFacts DEF U32
        <4> QED BY <4>1, RadixFacts
      <3>1. e = w
        <4>1. val[1] = b
          BY <2>4
        <4> QED BY <2>1, <3>0, <4>1, NumberWordIs
      <3>2. /\ w \in Seq(Byte) /\ Len(w) = WordLen
            /\ \A i \in 1..(WordLen - 4) : w[i] = 0
            /\ w[WordLen - 3] = (b \div (Radix * Radix * Radix)) % Radix
            /\ w[WordLen - 2] = (b \div (Radix * Radix)) % Radix
            /\ w[WordLen - 1] = (b \div Radix) % Radix
            /\ w[WordLen] = b % Radix
            /\ WordValue(w) = b
        BY <3>0, PadU32Facts
      <3>3. /\ z \in Seq(Byte) /\ Len(z) = WordLen - 1 /\ \A i \in 1..(WordLen - 1) : z[i] = 0
        <4>1. WordLen - 1 \in Nat
          BY <1>5
        <4> QED BY <4>1, ZerosFacts
      <3> HIDE DEF w, z
      <3>4. \A q \in Nat : q > 1 => b \div q = 0 /\ b % q = b
        <4> TAKE q \in Nat
        <4> HAVE q > 1
        <4>1. b \in 0..(q - 1) /\ 0 * q + b = b /\ 0 \in Nat
          BY <3>0
        <4>2. (0 * q + b) \div q = 0 /\ (0 * q + b) % q = b
          BY <4>1, Remainder
        <4> QED BY <4>1, <4>2
      <3>5. Radix * Radix > 1 /\ Radix * Radix \in Nat
        BY <3>0
      <3>6. Radix * Radix * Radix > 1 /\ Radix * Radix * Radix \in Nat
        <4> DEFINE c == Radix * Radix
        <4>1. c \in Nat /\ c > 1
          BY <3>5
        <4>2. c * Radix > 1 /\ c * Radix \in Nat
          <5> HIDE DEF c
          <5> QED BY <3>0, <4>1
        <4> QED BY <4>2
      <3>7. 0 % Radix = 0
        <4>1. 0 \in 0..(Radix - 1) /\ 0 * Radix + 0 = 0
          BY <3>0
        <4>2. (0 * Radix + 0) % Radix = 0
          BY <3>0, <4>1, Remainder
        <4> QED BY <4>1, <4>2
      <3>8. w[WordLen - 3] = 0 /\ w[WordLen - 2] = 0 /\ w[WordLen - 1] = 0 /\ w[WordLen] = b
        BY <3>0, <3>2, <3>4, <3>5, <3>6, <3>7
      <3>9. /\ y \in Seq(Byte) /\ Len(y) = WordLen
            /\ \A i \in 1..WordLen : y[i] = IF i <= WordLen - 1 THEN z[i] ELSE val[i - (WordLen - 1)]
        <4>1. Len(val) = 1 /\ val \in Seq(Byte)
          BY <1>2, <2>4
        <4>2. /\ z \o val \in Seq(Byte) /\ Len(z \o val) = Len(z) + Len(val)
              /\ \A i \in 1..(Len(z) + Len(val)) :
                   (z \o val)[i] = IF i <= Len(z) THEN z[i] ELSE val[i - Len(z)]
          <5>1. z \in Seq(Byte) /\ val \in Seq(Byte)
            BY <3>3, <4>1
          <5> QED BY <5>1, ConcatProperties
        <4>3. Len(z) + Len(val) = WordLen
          BY <1>5, <3>3, <4>1
        <4> QED BY <3>3, <4>2, <4>3
      <3> HIDE DEF y
      <3>10. ASSUME NEW i \in 1..WordLen PROVE y[i] = w[i]
        <4>1. CASE i = WordLen
          <5>1. ~(i <= WordLen - 1) /\ i - (WordLen - 1) = 1
            BY <1>5, <4>1
          <5>2. y[i] = val[1]
            BY <3>9, <5>1
          <5> QED BY <2>4, <3>8, <4>1, <5>2
        <4>2. CASE i # WordLen
          <5>1. i \in 1..(WordLen - 1) /\ i <= WordLen - 1
            BY <1>5, <4>2
          <5>2. y[i] = 0
            BY <3>3, <3>9, <5>1
          <5>3. i \in 1..(WordLen - 4) \/ i = WordLen - 3 \/ i = WordLen - 2 \/ i = WordLen - 1
            BY <1>5, <5>1
          <5> QED BY <3>2, <3>8, <5>2, <5>3
        <4> QED BY <4>1, <4>2
      <3>11. y = w
        BY <3>2, <3>9, <3>10, SeqEqual
      <3> QED BY <3>1, <3>9, <3>11 DEF y, z
    <2>5. PICK b \in {0, 1} : val = <<b>>
      BY <1>2, <1>9
    <2>6. e = Zeros(WordLen - 1) \o val /\ e \in Seq(Byte) /\ Len(e) = WordLen
      BY <2>4, <2>5
    <2> QED BY <1>6, <2>2, <2>3, <2>6
  <1>10. CASE t.kind = "FixedBytes"
    <2>1. m \in 1..WordLen /\ t.size \in 1..WordLen /\ Len(val) = m
      BY <1>2, <1>5, <1>10 DEF m
    <2>2. WordsFor(t.size) = 1 /\ WordsFor(Len(val)) = 1
      BY <2>1, <1>2, WordsForFacts
    <2>3. e = val \o Zeros(WordsFor(t.size) * WordLen - Len(val))
      BY <1>3, <1>10, Zenon DEF EncBody, val
    <2>4. e = PadRight(val)
      BY <2>2, <2>3 DEF PadRight
    <2>5. e \in Seq(Byte) /\ Len(e) = WordLen /\ fixed_bytes_append(val) = e
      <3>1. 1 * WordLen = WordLen
        BY <1>5
      <3> QED BY <1>2, <2>2, <2>4, <3>1, PaddedFacts
    <2>6. encode_token_append(token) = fixed_bytes_append(val)
      BY <1>2, <1>10, Zenon DEF encode_token_append, val
    <2>7. fixed_bytes_len(val) = 1
      <3>1. 1 < U32
        <4>1. Radix * Radix * Radix * Radix > 1
          <5>1. \A x, y \in Nat : x > 1 /\ y > 1 => x * y > 1 /\ x * y \in Nat
            OBVIOUS
          <5>2. Radix * Radix > 1 /\ Radix * Radix \in Nat
            BY <5>1, RadixFacts
          <5>3. Radix * Radix * Radix > 1 /\ Radix * Radix * Radix \in Nat
            BY <5>1, <5>2, RadixFacts
          <5> QED BY <5>1, <5>3, RadixFacts
        <4> QED BY <4>1 DEF U32
      <3> QED BY <2>2, <3>1, U32Range DEF fixed_bytes_len
    <2>8. med = Raw(1, token)
      <3>1. med = Raw(fixed_bytes_len(token.val), token)
        BY <1>2, <1>3, <1>10 DEF MediateDef
      <3> QED BY <2>7, <3>1 DEF val
    <2> QED BY <1>6, <2>5, <2>6, <2>8
  <1> QED
    BY <1>7, <1>8, <1>9, <1>10

(* Bytes and strings. *)
LEMMA CanonicalBytes ==
  ASSUME NEW t \in ParamTypes, t.kind \in {"Bytes", "String"},
         NEW token \in Tokens, is_value[t][token]
  PROVE  CanonicalValue(t, token)
  <1> DEFINE e == enc[t][token]
             val == token.val
             m == Len(val)
             W == WordsFor(m)
             p == PadRight(val)
             med == mediate_token[token]
  <1>1. token.kind = t.kind /\ val \in Seq(Byte) /\ m \in Nat
    <2>1. Shaped(t, token)
      BY ValueParts
    <2> QED BY <2>1, TokenFields, LenProperties DEF Shaped
  <1>2. e = NumberWord(m) \o p
    <2>1. e = EncBody(enc, t, token)
      BY EncEquation DEF EncDef
    <2> QED BY <2>1, Zenon DEF EncBody
  <1>3. med = Prefixed(pad_bytes_len(val), token)
        /\ encode_token_append(token) = pad_bytes_append(val)
    <2>1. med = MediateDef(mediate_token, token)
      BY MediateToken
    <2> QED BY <1>1, <2>1 DEF MediateDef, encode_token_append
  <1>4. t \in DynamicTypes /\ token_is_dynamic[token] = TRUE
    <2>1. token_is_dynamic[token] = TokenDynamicDef(token_is_dynamic, token)
      BY TokenIsDynamic
    <2> QED BY <1>1, <2>1, IsDynamic DEF DynamicTypes, TokenDynamicDef
  <1>5. /\ W \in Nat /\ W * WordLen \in Nat /\ m <= W * WordLen
        /\ p \in Seq(Byte) /\ Len(p) = W * WordLen
        /\ fixed_bytes_append(val) = p
        /\ WordLen \in Nat /\ WordLen > 4 /\ U32 \in Nat
    BY <1>1, WordsForFacts, PaddedFacts, WordAssumption, RadixFacts
  <1>6. NumberWord(m) \in Seq(Byte) /\ Len(NumberWord(m)) = WordLen
    BY <1>1, NumberWordBytes
  <1> HIDE DEF e, val, m, p, med
  <1>7. e \in Seq(Byte) /\ Len(e) = WordLen + W * WordLen
    BY <1>2, <1>5, <1>6, HoldsInConcat
  <1>8. ASSUME Len(e) < U32 + WordLen
        PROVE  DynamicMediate(med, e)
    <2>1. W * WordLen < U32 /\ m < U32
      <3>1. PICK k \in Nat : k = W * WordLen
        BY <1>5
      <3> QED BY <1>1, <1>5, <1>7, <1>8, <3>1
    <2>2. encode_token_append(token) = e
      <3>1. NumberWord(m) = pad_u32(m) /\ AsU32(m) = m
        BY <1>1, <2>1, NumberWordIs, U32Range
      <3> QED BY <1>2, <1>3, <1>5, <3>1 DEF pad_bytes_append, m
    <2>3. pad_bytes_len(val) = AsU32(W + 1) /\ pad_bytes_len(val) \in Nat
      <3>1. AsU32(AsU32(W) + 1) = AsU32(W + 1)
        BY <1>5, U32Sums
      <3>2. PICK k \in Nat : k = W + 1
        BY <1>5
      <3>3. AsU32(k) \in Nat
        BY U32Range
      <3> QED BY <3>1, <3>2, <3>3 DEF pad_bytes_len, fixed_bytes_len, U32Add, m
    <2>4. AsU32(Len(e)) = AsU32(WordLen * pad_bytes_len(val))
      <3>1. AsU32(WordLen * AsU32(W + 1)) = AsU32(WordLen * (W + 1))
        BY <1>5, U32Sums
      <3>2. WordLen * (W + 1) = WordLen + W * WordLen
        <4> HIDE DEF W
        <4> QED BY <1>5
      <3> QED BY <1>7, <2>3, <3>1, <3>2
    <2> QED BY <1>3, <1>7, <2>2, <2>3, <2>4, PrefixedFacts
  <1>9. Len(e) >= WordLen
    <2>1. PICK k \in Nat : k = W * WordLen
      BY <1>5
    <2> QED BY <1>5, <1>7, <2>1
  <1> QED
    BY <1>4, <1>7, <1>8, <1>9 DEF CanonicalValue, e, med

-----------------------------------------------------------------------------
(* The encodings of the components of a value, and their Mediates.         *)
PartsOf(t, token)  == [i \in DOMAIN token.subs |-> enc[TypeOf(t, i)][token.subs[i]]]
DynsOf(t, token)   == [i \in DOMAIN token.subs |-> TypeOf(t, i) \in DynamicTypes]
MediatesOf(token)  == [i \in DOMAIN token.subs |-> mediate_token[token.subs[i]]]

(* The row of the components of a value. *)
LEMMA RowOfValue ==
  ASSUME NEW t \in ParamTypes, NEW token \in Tokens, is_value[t][token],
         \A i \in DOMAIN token.subs : CanonicalValue(TypeOf(t, i), token.subs[i])
  PROVE  LET encs == PartsOf(t, token)
             dyns == DynsOf(t, token)
             ms   == MediatesOf(token)
             L    == Layout(encs, dyns)
         IN  /\ encs \in Seq(Seq(Byte)) /\ Len(encs) = Len(token.subs)
             /\ L \in Seq(Byte) /\ RowEnc(enc, t, token) = L
             /\ \A i \in DOMAIN token.subs : dyns[i] => Len(L) >= WordLen
             /\ Len(L) < U32 + WordLen =>
                  /\ encode_head_tail_append(ms) = L
                  /\ U32Add(heads_len(ms), tails_len(ms)) = AsU32(Len(L))
                  /\ (\A i \in DOMAIN token.subs : ~dyns[i]) =>
                       StaticMediate(RawArray(ms), L)
  <1> DEFINE encs == PartsOf(t, token)
             dyns == DynsOf(t, token)
             ms   == MediatesOf(token)
             L    == Layout(encs, dyns)
             n    == Len(token.subs)
             M    == {mediate_token[token.subs[i]] : i \in DOMAIN token.subs}
  <1>1. /\ token.subs \in Seq(Tokens) /\ n \in Nat /\ DOMAIN token.subs = 1..n
        /\ Parts(t, token) = DOMAIN token.subs
    BY TokenFields, ValueParts, LenProperties
  <1>2. /\ encs \in Seq(Seq(Byte)) /\ Len(encs) = n /\ DOMAIN encs = 1..n
        /\ \A i \in 1..n : encs[i] = enc[TypeOf(t, i)][token.subs[i]]
    <2>1. encs = [i \in 1..n |-> enc[TypeOf(t, i)][token.subs[i]]]
      BY <1>1 DEF PartsOf
    <2>2. \A i \in 1..n : enc[TypeOf(t, i)][token.subs[i]] \in Seq(Byte)
      BY <1>1 DEF CanonicalValue
    <2> HIDE DEF encs
    <2> QED BY <1>1, <2>1, <2>2
  <1>3. \A i \in 1..n : dyns[i] <=> TypeOf(t, i) \in DynamicTypes
    BY <1>1 DEF DynsOf
  <1>4. /\ ms \in Seq(M) /\ Len(ms) = n
        /\ \A i \in 1..n : ms[i] = mediate_token[token.subs[i]]
    <2>1. ms = [i \in 1..n |-> mediate_token[token.subs[i]]]
      BY <1>1 DEF MediatesOf
    <2>2. \A i \in 1..n : mediate_token[token.subs[i]] \in M
      BY <1>1
    <2> HIDE DEF ms, M
    <2> QED BY <1>1, <2>1, <2>2
  <1>5. RowEnc(enc, t, token) = L
    BY <1>1, Zenon DEF RowEnc, PartsOf, DynsOf
  <1> HIDE DEF encs, dyns, ms, M
  <1>6. /\ L \in Seq(Byte)
        /\ \A i \in 1..n : /\ ~dyns[i] => Holds(L, HeadAt(encs, dyns, i), encs[i])
                           /\ dyns[i] => Holds(L, OffsetOf(encs, dyns, i), encs[i])
                           /\ HeadAt(encs, dyns, i) \in Nat /\ OffsetOf(encs, dyns, i) \in Nat
    BY <1>2, LayoutFacts
  <1> HIDE DEF L
  <1>7. ASSUME NEW i \in 1..n
        PROVE  /\ Len(encs[i]) \in Nat /\ Len(L) \in Nat /\ Len(encs[i]) <= Len(L)
               /\ dyns[i] => Len(encs[i]) >= WordLen
    <2>1. encs[i] \in Seq(Byte)
      BY <1>2, ElementOfSeq
    <2>2. Len(encs[i]) \in Nat /\ Len(L) \in Nat
      BY <1>6, <2>1, LenProperties
    <2>3. \E q \in Nat : Holds(L, q, encs[i])
      BY <1>6
    <2>4. dyns[i] => Len(encs[i]) >= WordLen
      BY <1>1, <1>2, <1>3 DEF CanonicalValue
    <2> QED BY <2>2, <2>3, <2>4 DEF Holds
  <1>8. ASSUME NEW i \in 1..n, dyns[i] PROVE Len(L) >= WordLen
    BY <1>7, <1>8, WordAssumption
  <1>9. ASSUME Len(L) < U32 + WordLen
        PROVE  Mediated(ms, encs, dyns)
    <2>1. ASSUME NEW i \in 1..n
          PROVE  IF dyns[i] THEN DynamicMediate(ms[i], encs[i])
                            ELSE StaticMediate(ms[i], encs[i])
      <3>1. Len(encs[i]) < U32 + WordLen
        BY <1>7, <1>9, RadixFacts, WordAssumption
      <3>2. CanonicalValue(TypeOf(t, i), token.subs[i])
        BY <1>1
      <3>3. encs[i] = enc[TypeOf(t, i)][token.subs[i]] /\ ms[i] = mediate_token[token.subs[i]]
        BY <1>2, <1>4
      <3> QED BY <1>3, <3>1, <3>2, <3>3 DEF CanonicalValue
    <2> QED BY <1>2, <2>1 DEF Mediated
  <1>10. ASSUME Len(L) < U32 + WordLen
         PROVE  /\ encode_head_tail_append(ms) = L
                /\ U32Add(heads_len(ms), tails_len(ms)) = AsU32(Len(L))
    <2>1. \A i \in DOMAIN encs : dyns[i] => Len(encs[i]) >= WordLen
      BY <1>2, <1>7
    <2>2. Mediated(ms, encs, dyns) /\ Len(ms) = Len(encs)
      BY <1>2, <1>4, <1>9, <1>10
    <2> QED BY <1>2, <1>4, <1>10, <2>1, <2>2, RowCanonical DEF L
  <1>11. ASSUME Len(L) < U32 + WordLen, \A i \in 1..n : ~dyns[i]
         PROVE  StaticMediate(RawArray(ms), L)
    <2>1. Mediated(ms, encs, dyns) /\ Len(ms) = Len(encs) /\ \A i \in DOMAIN encs : ~dyns[i]
      BY <1>2, <1>4, <1>9, <1>11
    <2>2. /\ FlattenSeq([i \in DOMAIN ms |-> head_append(ms[i], 0)]) = L
          /\ heads_len(ms) = AsU32(Len(L))
      <3>1. encs \in Seq(Seq(Byte)) /\ ms \in Seq(M)
        BY <1>2, <1>4
      <3> QED BY <2>1, <3>1, RawRow DEF L
    <2> DEFINE r == RawArray(ms)
    <2>3. ~r.offset /\ r.head = L /\ r.tail = <<>> /\ r.head_len = AsU32(Len(L))
          /\ r.tail_len = 0
      BY <2>2, Zenon DEF RawArray, Mediate
    <2>4. AsU32(Len(L)) \in Nat /\ AsU32(AsU32(Len(L))) = AsU32(Len(L))
      <3>1. Len(L) \in Nat
        BY <1>6, LenProperties
      <3> QED BY <3>1, U32Range
    <2> HIDE DEF r
    <2>5. StaticMediate(r, L)
      BY <2>3, <2>4 DEF StaticMediate
    <2> QED BY <2>5 DEF r
  <1> QED
    BY <1>1, <1>2, <1>5, <1>6, <1>8, <1>10, <1>11 DEF encs, dyns, ms, L

(* Arrays and tuples whose components are encoded as they should be. *)
LEMMA CanonicalRow ==
  ASSUME NEW t \in ParamTypes, t.kind \in {"Array", "FixedArray", "Tuple"},
         NEW token \in Tokens, is_value[t][token],
         \A i \in DOMAIN token.subs : CanonicalValue(TypeOf(t, i), token.subs[i])
  PROVE  CanonicalValue(t, token)
  <1> DEFINE e == enc[t][token]
             n == Len(token.subs)
             encs == PartsOf(t, token)
             dyns == DynsOf(t, token)
             ms == MediatesOf(token)
             L == Layout(encs, dyns)
             med == mediate_token[token]
  <1>1. /\ token.kind = t.kind /\ token.subs \in Seq(Tokens) /\ n \in Nat
        /\ DOMAIN token.subs = 1..n
        /\ t.kind = "Array" => n < U32
        /\ t.kind = "FixedArray" => n = t.size /\ (n = 0 => t \notin DynamicTypes)
        /\ t.kind = "Tuple" => n = Len(t.subs)
        /\ t.subs \in Seq(ParamTypes)
        /\ t.kind \in {"Array", "FixedArray"} => Len(t.subs) = 1
    <2>1. Shaped(t, token)
      BY ValueParts
    <2> QED BY <2>1, TokenFields, TypeFields, LenProperties DEF Shaped
  <1>2. /\ encs \in Seq(Seq(Byte)) /\ Len(encs) = n
        /\ L \in Seq(Byte) /\ RowEnc(enc, t, token) = L
        /\ \A i \in DOMAIN token.subs : dyns[i] => Len(L) >= WordLen
    BY RowOfValue
  <1>3. Len(L) < U32 + WordLen =>
          /\ encode_head_tail_append(ms) = L
          /\ U32Add(heads_len(ms), tails_len(ms)) = AsU32(Len(L))
          /\ (\A i \in DOMAIN token.subs : ~dyns[i]) => StaticMediate(RawArray(ms), L)
    BY RowOfValue
  <1>4. \A i \in 1..n : dyns[i] <=> TypeOf(t, i) \in DynamicTypes
    BY <1>1 DEF DynsOf
  <1>5. e = EncBody(enc, t, token) /\ med = MediateDef(mediate_token, token)
    BY EncEquation, MediateToken DEF EncDef
  <1>6. /\ WordLen \in Nat /\ WordLen > 4 /\ U32 \in Nat
        /\ Len(L) \in Nat
    BY <1>2, WordAssumption, RadixFacts, LenProperties
  <1>7. token_is_dynamic[token] <=> \/ t.kind = "Array"
                                    \/ t.kind # "Array" /\ \E i \in 1..n : dyns[i]
    <2>1. token_is_dynamic[token] = TokenDynamicDef(token_is_dynamic, token)
      BY TokenIsDynamic
    <2>2. \A i \in 1..n : token_is_dynamic[token.subs[i]] <=> dyns[i]
      BY <1>1, <1>4 DEF CanonicalValue
    <2>3. TokenDynamicDef(token_is_dynamic, token)
            <=> \/ t.kind = "Array"
                \/ t.kind # "Array" /\ \E i \in 1..n : token_is_dynamic[token.subs[i]]
      BY <1>1 DEF TokenDynamicDef
    <2> QED BY <2>1, <2>2, <2>3
  <1>8. t \in DynamicTypes <=> \/ t.kind = "Array"
                               \/ t.kind # "Array" /\ \E i \in 1..n : dyns[i]
    <2>1. is_dynamic[t] = \/ t.kind \in {"Bytes", "String", "Array"}
                          \/ /\ t.kind \in {"FixedArray", "Tuple"}
                             /\ \E i \in DOMAIN t.subs : is_dynamic[t.subs[i]]
      BY IsDynamic
    <2>2. \A i \in DOMAIN t.subs : t.subs[i] \in ParamTypes
      BY <1>1
    <2>3. CASE t.kind = "Array"
      BY <2>1, <2>3 DEF DynamicTypes
    <2>4. CASE t.kind = "FixedArray"
      <3>1. DOMAIN t.subs = {1}
        BY <1>1, <2>4
      <3>2. \A i \in 1..n : TypeOf(t, i) = t.subs[1]
        BY <2>4 DEF TypeOf
      <3>3. is_dynamic[t] <=> is_dynamic[t.subs[1]]
        BY <2>1, <2>4, <3>1
      <3>4. t \in DynamicTypes <=> t.subs[1] \in DynamicTypes
        BY <2>2, <3>1, <3>3 DEF DynamicTypes
      <3>5. CASE n = 0
        <4>1. 1..n = {}
          BY <3>5
        <4> QED BY <1>1, <2>4, <3>5, <4>1
      <3>6. CASE n # 0
        <4>1. 1 \in 1..n
          BY <1>1, <3>6
        <4> QED BY <1>4, <2>4, <3>2, <3>4, <4>1
      <3> QED BY <3>5, <3>6
    <2>5. CASE t.kind = "Tuple"
      <3>1. DOMAIN t.subs = 1..n
        BY <1>1, <2>5
      <3>2. \A i \in 1..n : TypeOf(t, i) = t.subs[i]
        BY <2>5 DEF TypeOf
      <3>3. is_dynamic[t] <=> \E i \in 1..n : is_dynamic[t.subs[i]]
        BY <2>1, <2>5, <3>1
      <3>4. \A i \in 1..n : is_dynamic[t.subs[i]] <=> dyns[i]
        BY <1>4, <2>2, <3>1, <3>2 DEF DynamicTypes
      <3>5. t \in DynamicTypes <=> is_dynamic[t]
        BY DEF DynamicTypes
      <3> QED BY <2>5, <3>3, <3>4, <3>5
    <2> QED BY <2>3, <2>4, <2>5
  <1> HIDE DEF e, encs, dyns, ms, L, med
  <1>9. CASE t.kind = "Array"
    <2> DEFINE w == NumberWord(n)
    <2>1. e = w \o L
      BY <1>2, <1>5, <1>9, Zenon DEF EncBody
    <2>2. w \in Seq(Byte) /\ Len(w) = WordLen
      BY <1>1, NumberWordBytes
    <2>3. w = pad_u32(AsU32(n))
      BY <1>1, <1>9, NumberWordIs, U32Range
    <2> HIDE DEF w
    <2>4. e \in Seq(Byte) /\ Len(e) = WordLen + Len(L)
      BY <1>2, <2>1, <2>2, HoldsInConcat
    <2>5. ASSUME Len(e) < U32 + WordLen PROVE DynamicMediate(med, e)
      <3>1. Len(L) < U32 + WordLen
        BY <1>6, <2>4, <2>5
      <3>2. Len(ms) = n
        BY <1>1 DEF MediatesOf, ms
      <3>3. med = PrefixedArrayWithLength(ms)
        BY <1>1, <1>5, <1>9 DEF MediateDef, MediatesOf, ms
      <3>4. /\ med.offset /\ med.head_len = WordLen
            /\ med.tail_len = U32Add(WordLen, U32Add(heads_len(ms), tails_len(ms)))
            /\ med.tail = pad_u32(AsU32(Len(ms))) \o encode_head_tail_append(ms)
        BY <3>3, Zenon DEF PrefixedArrayWithLength, Mediate
      <3>5. med.tail = e
        BY <1>3, <2>1, <2>3, <3>1, <3>2, <3>4
      <3>6. med.tail_len = AsU32(Len(e))
        <4>1. AsU32(WordLen + AsU32(Len(L))) = AsU32(WordLen + Len(L))
          BY <1>6, U32Sums
        <4> QED BY <1>3, <2>4, <3>1, <3>4, <4>1 DEF U32Add
      <3>7. AsU32(Len(e)) \in Nat /\ AsU32(AsU32(Len(e))) = AsU32(Len(e))
        <4>1. Len(e) \in Nat
          BY <2>4, LenProperties
        <4> QED BY <4>1, U32Range
      <3> QED BY <1>6, <3>4, <3>5, <3>6, <3>7 DEF DynamicMediate
    <2>6. Len(e) >= WordLen
      BY <1>6, <2>4
    <2> QED BY <1>7, <1>8, <1>9, <2>4, <2>5, <2>6 DEF CanonicalValue, e, med
  <1>10. CASE t.kind # "Array"
    <2>1. e = L
      BY <1>2, <1>5, <1>10 DEF EncBody
    <2>2. med = IF token_is_dynamic[token] THEN PrefixedArray(ms) ELSE RawArray(ms)
      BY <1>1, <1>5, <1>10 DEF MediateDef, MediatesOf, ms
    <2>3. CASE t \in DynamicTypes
      <3>1. token_is_dynamic[token] /\ \E i \in 1..n : dyns[i]
        BY <1>7, <1>8, <1>10, <2>3
      <3>2. Len(e) >= WordLen
        BY <1>1, <1>2, <2>1, <3>1
      <3>3. ASSUME Len(e) < U32 + WordLen PROVE DynamicMediate(med, e)
        <4>1. med = PrefixedArray(ms)
          BY <2>2, <3>1
        <4>2. /\ med.offset /\ med.head_len = WordLen
              /\ med.tail_len = U32Add(heads_len(ms), tails_len(ms))
              /\ med.tail = encode_head_tail_append(ms)
          BY <4>1, Zenon DEF PrefixedArray, Mediate
        <4>3. med.tail = e /\ med.tail_len = AsU32(Len(e))
          BY <1>3, <2>1, <3>3, <4>2
        <4>4. AsU32(Len(e)) \in Nat /\ AsU32(AsU32(Len(e))) = AsU32(Len(e))
          BY <1>6, <2>1, U32Range
        <4> QED BY <1>6, <4>2, <4>3, <4>4 DEF DynamicMediate
      <3> QED BY <1>2, <2>1, <2>3, <3>1, <3>2, <3>3 DEF CanonicalValue, e, med
    <2>4. CASE t \notin DynamicTypes
      <3>1. ~token_is_dynamic[token] /\ \A i \in DOMAIN token.subs : ~dyns[i]
        BY <1>1, <1>7, <1>8, <1>10, <2>4
      <3>2. ASSUME Len(e) < U32 + WordLen PROVE StaticMediate(med, e)
        BY <1>3, <2>1, <2>2, <3>1, <3>2
      <3> QED BY <1>2, <2>1, <2>4, <3>1, <3>2 DEF CanonicalValue, e, med
    <2> QED BY <2>3, <2>4
  <1> QED
    BY <1>9, <1>10

(* The encoder makes the encoding of every value. *)
LEMMA AllCanonical == \A t \in ParamTypes : Canonical(t)
  <1> DEFINE S == {t \in ParamTypes : Canonical(t)}
  <1>1. ASSUME NEW t \in ParamTypes, \A i \in DOMAIN t.subs : t.subs[i] \in S
        PROVE  t \in S
    <2>1. ASSUME NEW token \in Tokens, is_value[t][token]
          PROVE  CanonicalValue(t, token)
      <3>1. t.kind \in Kinds
        BY TypeFields
      <3>2. CASE t.kind \in {"Address", "Int", "Uint", "Bool", "FixedBytes"}
        BY <2>1, <3>2, CanonicalWord
      <3>3. CASE t.kind \in {"Bytes", "String"}
        BY <2>1, <3>3, CanonicalBytes
      <3>4. CASE t.kind \in {"Array", "FixedArray", "Tuple"}
        <4>1. ASSUME NEW i \in DOMAIN token.subs
              PROVE  CanonicalValue(TypeOf(t, i), token.subs[i])
          <5>1. is_value[TypeOf(t, i)][token.subs[i]] /\ i \in Parts(t, token)
            BY <2>1, ValueParts
          <5>2. TypeOf(t, i) \in S
            <6>1. t.subs \in Seq(ParamTypes)
                  /\ (t.kind \in {"Array", "FixedArray"} => Len(t.subs) = 1)
              BY TypeFields
            <6>2. CASE t.kind \in {"Array", "FixedArray"}
              <7>1. 1 \in DOMAIN t.subs /\ TypeOf(t, i) = t.subs[1]
                BY <6>1, <6>2 DEF TypeOf
              <7> QED BY <1>1, <7>1
            <6>3. CASE t.kind = "Tuple"
              <7>1. i \in DOMAIN t.subs /\ TypeOf(t, i) = t.subs[i]
                BY <5>1, <6>3 DEF TypeOf, Parts
              <7> QED BY <1>1, <7>1
            <6> QED BY <3>4, <6>2, <6>3
          <5>3. token.subs[i] \in Tokens
            BY TokenFields
          <5> QED BY <5>1, <5>2, <5>3 DEF Canonical
        <4> QED BY <2>1, <3>4, <4>1, CanonicalRow
      <3> QED BY <3>1, <3>2, <3>3, <3>4 DEF Kinds
    <2> QED BY <2>1 DEF Canonical
  <1> HIDE DEF S
  <1>2. ParamTypes \subseteq S
    BY <1>1, TypeInduction
  <1> QED
    BY <1>2 DEF S

(* What encode makes of the values of a call. *)
LEMMA EncodeIsCanonical ==
  ASSUME NEW tokens \in Seq(Tokens), NEW ts \in Seq(ParamTypes), Len(tokens) = Len(ts),
         \A i \in DOMAIN ts : is_value[ts[i]][tokens[i]],
         Len(EncAll(tokens, ts)) < U32 + WordLen
  PROVE  encode(tokens) = EncAll(tokens, ts)
  <1> DEFINE encs == [i \in DOMAIN ts |-> enc[ts[i]][tokens[i]]]
             dyns == [i \in DOMAIN ts |-> ts[i] \in DynamicTypes]
             ms   == [i \in DOMAIN tokens |-> mediate_token[tokens[i]]]
             L    == Layout(encs, dyns)
             n    == Len(ts)
             M    == {mediate_token[tokens[i]] : i \in DOMAIN tokens}
  <1>1. n \in Nat /\ DOMAIN ts = 1..n /\ DOMAIN tokens = 1..n
    BY LenProperties
  <1>2. ASSUME NEW i \in 1..n
        PROVE  /\ ts[i] \in ParamTypes /\ tokens[i] \in Tokens
               /\ CanonicalValue(ts[i], tokens[i])
    <2>1. ts[i] \in ParamTypes /\ tokens[i] \in Tokens /\ is_value[ts[i]][tokens[i]]
      BY <1>1, ElementOfSeq
    <2> QED BY <2>1, AllCanonical DEF Canonical
  <1>3. /\ encs \in Seq(Seq(Byte)) /\ Len(encs) = n /\ DOMAIN encs = 1..n
        /\ \A i \in 1..n : encs[i] = enc[ts[i]][tokens[i]]
    <2>1. encs = [i \in 1..n |-> enc[ts[i]][tokens[i]]]
      BY <1>1
    <2>2. \A i \in 1..n : enc[ts[i]][tokens[i]] \in Seq(Byte)
      BY <1>2 DEF CanonicalValue
    <2> HIDE DEF encs
    <2> QED BY <1>1, <2>1, <2>2
  <1>4. \A i \in 1..n : dyns[i] <=> ts[i] \in DynamicTypes
    BY <1>1
  <1>5. /\ ms \in Seq(M) /\ Len(ms) = n
        /\ \A i \in 1..n : ms[i] = mediate_token[tokens[i]]
    <2>1. ms = [i \in 1..n |-> mediate_token[tokens[i]]]
      BY <1>1
    <2>2. \A i \in 1..n : mediate_token[tokens[i]] \in M
      BY <1>1
    <2> HIDE DEF ms, M
    <2> QED BY <1>1, <2>1, <2>2
  <1>6. EncAll(tokens, ts) = L
    BY Zenon DEF EncAll
  <1>7. encode(tokens) = encode_head_tail_append(ms)
    BY Zenon DEF encode
  <1> HIDE DEF encs, dyns, ms, M
  <1>8. /\ L \in Seq(Byte)
        /\ \A i \in 1..n : /\ ~dyns[i] => Holds(L, HeadAt(encs, dyns, i), encs[i])
                           /\ dyns[i] => Holds(L, OffsetOf(encs, dyns, i), encs[i])
                           /\ HeadAt(encs, dyns, i) \in Nat /\ OffsetOf(encs, dyns, i) \in Nat
    BY <1>3, LayoutFacts
  <1> HIDE DEF L
  <1>9. ASSUME NEW i \in 1..n
        PROVE  /\ Len(encs[i]) < U32 + WordLen
               /\ dyns[i] => Len(encs[i]) >= WordLen
    <2>1. encs[i] \in Seq(Byte)
      BY <1>3, ElementOfSeq
    <2>2. Len(encs[i]) \in Nat /\ Len(L) \in Nat
      BY <1>8, <2>1, LenProperties
    <2>3. \E q \in Nat : Holds(L, q, encs[i])
      BY <1>8
    <2>4. Len(encs[i]) <= Len(L)
      BY <2>2, <2>3 DEF Holds
    <2>5. dyns[i] => Len(encs[i]) >= WordLen
      BY <1>2, <1>3, <1>4 DEF CanonicalValue
    <2> QED BY <1>6, <2>2, <2>4, <2>5, RadixFacts, WordAssumption
  <1>10. Mediated(ms, encs, dyns)
    <2>1. ASSUME NEW i \in 1..n
          PROVE  IF dyns[i] THEN DynamicMediate(ms[i], encs[i])
                            ELSE StaticMediate(ms[i], encs[i])
      BY <1>2, <1>3, <1>4, <1>5, <1>9 DEF CanonicalValue
    <2> QED BY <1>3, <2>1 DEF Mediated
  <1>11. \A i \in DOMAIN encs : dyns[i] => Len(encs[i]) >= WordLen
    BY <1>3, <1>9
  <1>12. encs \in Seq(Seq(Byte)) /\ ms \in Seq(M) /\ Len(ms) = Len(encs)
         /\ Len(Layout(encs, dyns)) < U32 + WordLen
    BY <1>3, <1>5, <1>6 DEF L
  <1>13. encode_head_tail_append(ms) = Layout(encs, dyns)
    BY <1>10, <1>11, <1>12, RowCanonical
  <1> QED
    BY <1>6, <1>7, <1>13 DEF L
=============================================================================
