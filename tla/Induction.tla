----------------------------- MODULE Induction -----------------------------
(***************************************************************************)
(* Induction in a form the provers can use: about sets, where the          *)
(* library's theorems are about operators.  To prove P of every x in Dom,  *)
(* take S == {x \in Dom : P(x)} in MeasureInduction.  Then what the proofs *)
(* by induction need to know of sequences.                                 *)
(***************************************************************************)
EXTENDS Integers, SequencesExt, SequenceTheorems, WellFoundedInduction, TLAPS

(* A set of numbers has a least one. *)
LEMMA LeastNatural ==
  ASSUME NEW T, T \subseteq Nat, T # {}
  PROVE  \E x \in T : \A y \in T : x <= y
  <1> DEFINE R == OpToRel(<, Nat)
  <1>1. IsWellFoundedOn(R, Nat)
    BY NatLessThanWellFounded
  <1>2. \A x, y \in Nat : y < x => <<y, x>> \in R
    BY DEF OpToRel
  <1> HIDE DEF R
  <1>3. PICK x \in T : \A y \in T : ~(<<y, x>> \in R)
    BY <1>1, WFMin
  <1>4. ASSUME NEW y \in T PROVE x <= y
    <2>1. ~(y < x)
      BY <1>2, <1>3
    <2>2. x \in Nat /\ y \in Nat
      OBVIOUS
    <2> QED
      BY <2>1, <2>2
  <1> QED
    BY <1>4

(* A set of numbers up to n has a greatest one. *)
LEMMA GreatestNumber ==
  ASSUME NEW n \in Nat, NEW T, T \subseteq 1..n, T # {}
  PROVE  \E x \in T : \A y \in T : y <= x
  <1> DEFINE R == {n - x : x \in T}
  <1>1. R \subseteq Nat /\ R # {}
    <2>1. ASSUME NEW x \in T
          PROVE  n - x \in Nat
      <3>1. x \in 1..n
        OBVIOUS
      <3> QED
        BY <3>1
    <2> QED
      BY <2>1
  <1> HIDE DEF R
  <1>2. PICK r \in R : \A q \in R : r <= q
    BY <1>1, LeastNatural
  <1>3. PICK x \in T : r = n - x
    BY DEF R
  <1>4. ASSUME NEW y \in T
        PROVE  y <= x
    <2>1. n - y \in R
      BY DEF R
    <2>2. n - x <= n - y
      BY <1>2, <1>3, <2>1
    <2>3. x \in 1..n /\ y \in 1..n
      OBVIOUS
    <2> QED
      BY <2>2, <2>3
  <1> QED
    BY <1>4

(* If every x is in S as soon as all of smaller measure are, all are. *)
LEMMA MeasureInduction ==
  ASSUME NEW Dom, NEW measure \in [Dom -> Nat], NEW S,
         \A x \in Dom : (\A y \in Dom : measure[y] < measure[x] => y \in S)
                          => x \in S
  PROVE  Dom \subseteq S
  <1> SUFFICES ASSUME NEW bad \in Dom, bad \notin S
               PROVE  FALSE
    OBVIOUS
  <1> DEFINE T == {measure[x] : x \in Dom \ S}
  <1>1. T \subseteq Nat /\ measure[bad] \in T
    OBVIOUS
  <1>2. PICK n \in T : \A m \in T : n <= m
    <2> HIDE DEF T
    <2> QED BY <1>1, LeastNatural
  <1>3. PICK x \in Dom \ S : n = measure[x]
    OBVIOUS
  <1>4. ASSUME NEW y \in Dom, measure[y] < measure[x]
        PROVE  y \in S
    <2> SUFFICES ASSUME y \notin S PROVE FALSE
      OBVIOUS
    <2>1. measure[y] \in T
      OBVIOUS
    <2>2. measure[x] <= measure[y]
      BY <1>2, <1>3, <2>1
    <2>3. measure[x] \in Nat /\ measure[y] \in Nat
      OBVIOUS
    <2> QED
      BY <1>4, <2>2, <2>3
  <1> QED
    BY <1>3, <1>4

(* A set of numbers with 0 and with n + 1 for each n in it has them all. *)
LEMMA NaturalInduction ==
  ASSUME NEW S, 0 \in S, \A n \in Nat : n \in S => n + 1 \in S
  PROVE  Nat \subseteq S
  <1> DEFINE measure == [n \in Nat |-> n]
  <1>1. measure \in [Nat -> Nat] /\ \A n \in Nat : measure[n] = n
    OBVIOUS
  <1> HIDE DEF measure
  <1>2. ASSUME NEW n \in Nat, \A m \in Nat : measure[m] < measure[n] => m \in S
        PROVE  n \in S
    <2>1. CASE n = 0
      BY <2>1
    <2>2. CASE n # 0
      <3>1. n - 1 \in Nat /\ n - 1 < n /\ n = (n - 1) + 1
        BY <2>2
      <3>2. n - 1 \in S
        BY <1>1, <1>2, <3>1
      <3> QED
        BY <3>1, <3>2
    <2> QED
      BY <2>1, <2>2
  <1> QED
    BY <1>1, <1>2, MeasureInduction
(* A set with the empty sequence, and with each of its sequences also the  *)
(* longer ones by one, has them all.                                       *)
LEMMA SeqInduction ==
  ASSUME NEW A, NEW S, <<>> \in S,
         \A s \in Seq(A) : \A e \in A : s \in S => Append(s, e) \in S
  PROVE  Seq(A) \subseteq S
  <1> DEFINE ofLen(n) == {s \in Seq(A) : Len(s) = n}
             T == {n \in Nat : ofLen(n) \subseteq S}
  <1>1. 0 \in T
    <2>1. ASSUME NEW s \in Seq(A), Len(s) = 0
          PROVE  s = <<>>
      BY <2>1, EmptySeq
    <2> QED
      BY <2>1
  <1>2. ASSUME NEW n \in Nat, n \in T
        PROVE  n + 1 \in T
    <2> SUFFICES ASSUME NEW s \in Seq(A), Len(s) = n + 1
                 PROVE  s \in S
      OBVIOUS
    <2>1. s # <<>>
      BY EmptySeq
    <2>2. PICK front \in Seq(A), e \in A : s = Append(front, e)
      BY <2>1, SequenceEmptyOrAppend
    <2>3. Len(front) = n
      <3>1. Len(front) \in Nat /\ Len(s) = Len(front) + 1
        BY <2>2, LenProperties, AppendProperties
      <3> QED
        BY <3>1
    <2>4. front \in S
      BY <1>2, <2>3
    <2> QED
      BY <2>2, <2>4
  <1> HIDE DEF T
  <1>3. Nat \subseteq T
    BY <1>1, <1>2, NaturalInduction
  <1>4. ASSUME NEW s \in Seq(A)
        PROVE  s \in S
    <2>1. Len(s) \in T
      BY <1>3, LenProperties
    <2> QED
      BY <2>1 DEF T
  <1> QED
    BY <1>4

(* A sequence that is not empty, without its last element. *)
LEMMA FrontOfSeq ==
  ASSUME NEW S, NEW s \in Seq(S), s # <<>>
  PROVE  /\ Front(s) \in Seq(S) /\ Last(s) \in S
         /\ Len(s) \in Nat /\ Len(Front(s)) \in Nat
         /\ Len(s) = Len(Front(s)) + 1
  <1>1. Len(s) \in Nat /\ Len(s) > 0 /\ \A i \in 1..Len(s) : s[i] \in S
    BY LenProperties, EmptySeq, ElementOfSeq
  <1> DEFINE m == Len(s) - 1
  <1>2. m \in Nat /\ (\A i \in 1..m : s[i] \in S) /\ s[Len(s)] \in S /\ Len(s) = m + 1
    BY <1>1
  <1> HIDE DEF m
  <1>3. SubSeq(s, 1, m) \in Seq(S) /\ Len(SubSeq(s, 1, m)) = m
    BY <1>2, SubSeqProperties
  <1> QED
    BY <1>1, <1>2, <1>3 DEF Front, Last, m

(* A sequence that grew by an element is split into the two again. *)
LEMMA FrontOfAppend ==
  ASSUME NEW S, NEW s \in Seq(S), NEW e \in S
  PROVE  /\ Append(s, e) \in Seq(S) /\ Append(s, e) # <<>>
         /\ Front(Append(s, e)) = s /\ Last(Append(s, e)) = e
  <1> DEFINE t == Append(s, e)
  <1>1. /\ t \in Seq(S) /\ t # <<>> /\ Len(t) = Len(s) + 1
        /\ \A i \in 1..Len(s) : t[i] = s[i]
        /\ t[Len(s) + 1] = e /\ Len(s) \in Nat
    BY AppendProperties, LenProperties
  <1> HIDE DEF t
  <1>2. Last(t) = e
    BY <1>1 DEF Last
  <1>3. Front(t) \in Seq(S) /\ Len(Front(t)) = Len(s)
    BY <1>1, FrontOfSeq
  <1>4. ASSUME NEW i \in 1..Len(s)
        PROVE  Front(t)[i] = s[i]
    <2>1. Len(t) - 1 = Len(s)
      BY <1>1
    <2>2. SubSeq(t, 1, Len(s))[i] = t[i]
      <3>1. \A j \in 1..Len(s) : t[j] \in S
        BY <1>1, ElementOfSeq
      <3> QED
        BY <1>1, <3>1, SubSeqProperties
    <2> QED
      BY <1>1, <2>1, <2>2 DEF Front
  <1>5. Front(t) = s
    BY <1>3, <1>4, SeqEqual
  <1> QED
    BY <1>1, <1>2, <1>5 DEF t

(* It has the elements it had, and that one. *)
LEMMA RangeOfAppend ==
  ASSUME NEW S, NEW s \in Seq(S), NEW e \in S
  PROVE  Range(Append(s, e)) = Range(s) \cup {e}
  <1> DEFINE t == Append(s, e)
  <1>1. /\ t \in Seq(S) /\ Len(t) = Len(s) + 1 /\ Len(s) \in Nat
        /\ \A i \in 1..Len(s) : t[i] = s[i]
        /\ t[Len(s) + 1] = e
    BY AppendProperties, LenProperties
  <1>2. DOMAIN t = 1..(Len(s) + 1) /\ DOMAIN s = 1..Len(s)
    BY <1>1, LenProperties
  <1> HIDE DEF t
  <1>3. \A i \in 1..(Len(s) + 1) : i \in 1..Len(s) \/ i = Len(s) + 1
    BY <1>1
  <1>4. Len(s) + 1 \in 1..(Len(s) + 1) /\ 1..Len(s) \subseteq 1..(Len(s) + 1)
    BY <1>1
  <1>5. Range(t) = Range(s) \cup {e}
    BY <1>1, <1>2, <1>3, <1>4 DEF Range
  <1> QED
    BY <1>5 DEF t
=============================================================================
