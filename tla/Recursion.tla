----------------------------- MODULE Recursion -----------------------------
(***************************************************************************)
(* A function defined by recursion exists, and obeys its definition: TLA+  *)
(* defines f[x \in Dom] == Def(f, x) as any function that does, if one     *)
(* does.  A module that defines such a function instantiates this one      *)
(* with its Dom and Def, and shows that Def is well founded.  It has to    *)
(* give it induction too, lemma NaturalInduction of module Induction: this *)
(* module extends none, so that its instances bring nothing else along.    *)
(***************************************************************************)
EXTENDS Integers

CONSTANTS
  Dom,          \* the domain of the function
  measure,      \* what goes down with each recursive use of the function
  Def(_, _)     \* Def(f, x), the value of the function f at x

(* Def(f, x) looks at f on arguments of a smaller measure only. *)
WellFounded ==
  /\ measure \in [Dom -> Nat]
  /\ \A f, g : \A x \in Dom :
       (\A y \in Dom : measure[y] < measure[x] => f[y] = g[y])
         => Def(f, x) = Def(g, x)

(* Induction over the numbers, in terms of sets. *)
Inductive ==
  \A S : 0 \in S /\ (\A n \in Nat : n \in S => n + 1 \in S) => Nat \subseteq S

(* The arguments of measure below n, and the function cut off there. *)
Below(n)   == {x \in Dom : measure[x] < n}
Obeys(f, n) == \A x \in Below(n) : f[x] = Def(f, x)

(* If every x is in S as soon as all of smaller measure are, all are. *)
LEMMA AllIn ==
  ASSUME Inductive, WellFounded, NEW S,
         \A x \in Dom : (\A y \in Dom : measure[y] < measure[x] => y \in S)
                          => x \in S
  PROVE  Dom \subseteq S
  <1> DEFINE T == {n \in Nat : \A x \in Dom : measure[x] < n => x \in S}
  <1>0. \A x \in Dom : measure[x] \in Nat
    BY DEF WellFounded
  <1>1. 0 \in T
    <2>1. ASSUME NEW x \in Dom
          PROVE  ~(measure[x] < 0)
      <3>1. measure[x] \in Nat
        BY <1>0
      <3> QED
        BY <3>1
    <2> QED
      BY <2>1
  <1>2. ASSUME NEW n \in Nat, n \in T
        PROVE  n + 1 \in T
    <2>1. ASSUME NEW x \in Dom, measure[x] < n + 1
          PROVE  x \in S
      <3>1. \A y \in Dom : measure[y] < measure[x] => measure[y] < n
        BY <1>0, <2>1
      <3>2. \A y \in Dom : measure[y] < measure[x] => y \in S
        BY <1>2, <3>1
      <3> QED
        BY <3>2
    <2> QED
      BY <2>1
  <1> HIDE DEF T
  <1>3. Nat \subseteq T
    BY <1>1, <1>2 DEF Inductive
  <1>4. ASSUME NEW x \in Dom
        PROVE  x \in S
    <2>1. measure[x] + 1 \in T /\ measure[x] < measure[x] + 1
      BY <1>0, <1>3
    <2> QED
      BY <2>1 DEF T
  <1> QED
    BY <1>4

(* Functions that obey the definition below n agree there. *)
LEMMA Agree ==
  ASSUME Inductive, WellFounded, NEW n \in Nat, NEW f, NEW g, Obeys(f, n), Obeys(g, n)
  PROVE  \A x \in Below(n) : f[x] = g[x]
  <1> DEFINE S == {x \in Dom : measure[x] < n => f[x] = g[x]}
  <1>1. ASSUME NEW x \in Dom,
               \A y \in Dom : measure[y] < measure[x] => y \in S
        PROVE  x \in S
    <2> SUFFICES ASSUME measure[x] < n PROVE f[x] = g[x]
      OBVIOUS
    <2>1. ASSUME NEW y \in Dom, measure[y] < measure[x]
          PROVE  f[y] = g[y]
      <3>1. measure[y] < n
        BY <2>1 DEF WellFounded
      <3> QED
        BY <1>1, <2>1, <3>1
    <2>2. Def(f, x) = Def(g, x)
      BY <2>1 DEF WellFounded
    <2>3. x \in Below(n)
      BY DEF Below
    <2> QED
      BY <2>2, <2>3 DEF Obeys
  <1> HIDE DEF S
  <1>2. Dom \subseteq S
    BY <1>1, AllIn
  <1> QED
    BY <1>2 DEF S, Below

(* Below every n, some function obeys the definition. *)
LEMMA Stage ==
  ASSUME Inductive, WellFounded
  PROVE  \A n \in Nat : \E f : Obeys(f, n)
  <1> DEFINE S == {n \in Nat : \E f : Obeys(f, n)}
  <1>0. measure \in [Dom -> Nat]
    BY DEF WellFounded
  <1>1. 0 \in S
    <2>1. \A x \in Dom : ~(measure[x] < 0)
      BY <1>0
    <2> QED
      BY <2>1 DEF Obeys, Below
  <1>2. ASSUME NEW n \in Nat, n \in S
        PROVE  n + 1 \in S
    <2>1. PICK f : Obeys(f, n)
      BY <1>2
    <2> DEFINE g == [x \in Dom |-> IF x \in Below(n) THEN f[x] ELSE Def(f, x)]
    <2>2. ASSUME NEW x \in Below(n + 1)
          PROVE  g[x] = Def(g, x)
      <3>1. x \in Dom /\ measure[x] < n + 1
        BY DEF Below
      <3>2. ASSUME NEW y \in Dom, measure[y] < measure[x]
            PROVE  f[y] = g[y]
        <4>1. y \in Below(n)
          BY <1>0, <3>1, <3>2 DEF Below
        <4> QED
          BY <4>1
      <3>3. Def(f, x) = Def(g, x)
        <4> HIDE DEF g
        <4> QED
          BY <3>1, <3>2 DEF WellFounded
      <3>4. g[x] = Def(f, x)
        BY <2>1, <3>1 DEF Obeys
      <3> QED
        BY <3>3, <3>4
    <2> HIDE DEF g
    <2>3. Obeys(g, n + 1)
      BY <2>2 DEF Obeys
    <2> QED
      BY <2>3
  <1> HIDE DEF S
  <1>3. Nat \subseteq S
    BY <1>1, <1>2 DEF Inductive
  <1> QED
    BY <1>3 DEF S

(* So there is one on all of Dom. *)
LEMMA Exists ==
  ASSUME Inductive, WellFounded
  PROVE  \E f : f = [x \in Dom |-> Def(f, x)]
  <1>0. measure \in [Dom -> Nat]
    BY DEF WellFounded
  <1> DEFINE stage == [n \in Nat |-> CHOOSE f : Obeys(f, n)]
             f == [x \in Dom |-> stage[measure[x] + 1][x]]
  <1>1. \A n \in Nat : Obeys(stage[n], n)
    BY Stage
  <1> HIDE DEF stage
  <1>2. ASSUME NEW x \in Dom
        PROVE  f[x] = Def(f, x)
    <2> DEFINE n == measure[x] + 1
               h == stage[n]
    <2>1. n \in Nat /\ Obeys(h, n) /\ x \in Below(n)
      BY <1>0, <1>1 DEF Below
    <2>2. ASSUME NEW y \in Dom, measure[y] < measure[x]
          PROVE  h[y] = f[y]
      <3> DEFINE m == measure[y] + 1
      <3>1. m \in Nat /\ Obeys(stage[m], m) /\ y \in Below(m)
        BY <1>0, <1>1 DEF Below
      <3>2. Obeys(h, m)
        <4>1. measure[x] \in Nat /\ measure[y] \in Nat
          BY <1>0
        <4>2. ASSUME NEW z \in Below(m)
              PROVE  z \in Below(n)
          <5>1. z \in Dom /\ measure[z] \in Nat /\ measure[z] < m
            BY <1>0 DEF Below
          <5>2. measure[z] < n
            BY <2>2, <4>1, <5>1
          <5> QED
            BY <5>1, <5>2 DEF Below
        <4> HIDE DEF m, h
        <4> QED
          BY <2>1, <4>2 DEF Obeys
      <3>3. stage[m][y] = h[y]
        <4> HIDE DEF m, h
        <4> QED BY <3>1, <3>2, Agree
      <3> QED
        BY <3>3
    <2>3. Def(h, x) = Def(f, x)
      <3> HIDE DEF h, f
      <3> QED BY <2>2 DEF WellFounded
    <2>4. h[x] = Def(h, x)
      BY <2>1 DEF Obeys
    <2>5. f[x] = h[x]
      OBVIOUS
    <2> QED
      BY <2>3, <2>4, <2>5
  <1>3. f = [x \in Dom |-> f[x]]
    OBVIOUS
  <1> HIDE DEF f
  <1>4. f = [x \in Dom |-> Def(f, x)]
    BY <1>2, <1>3
  <1> QED
    BY <1>4

(* The function that TLA+ takes for f[x \in Dom] == Def(f, x). *)
THEOREM Defined ==
  ASSUME Inductive, WellFounded, NEW f, f = CHOOSE g : g = [x \in Dom |-> Def(g, x)]
  PROVE  f = [x \in Dom |-> Def(f, x)]
  BY Exists
=============================================================================
