----------------------------- MODULE DecodeCost -----------------------------
(***************************************************************************)
(* How much a call of decode may build and how long it may take.  Each     *)
(* token is pushed once, by a step that reads it or by the return of a     *)
(* call that was opened for it, so a bound on tokens is one on steps.      *)
(***************************************************************************)
EXTENDS Decoder

(* A token and all that it is made of. *)
RECURSIVE weight(_)
weight(token) == 1 + Total[[i \in DOMAIN token.subs |-> weight(token.subs[i])]]

(* The elements of type t that an array can have.  Their heads are behind  *)
(* its length, and the last may be cut short; if they have no bytes at all *)
(* there are as many as the length claims, which is a u32.                 *)
room(t) == IF head_size[t] = 0 THEN U32 - 1
           ELSE 1 + (Len(data) - WordLen) \div head_size[t]

(* The tokens that a value of type t is made of, at most. *)
most[t \in ParamTypes] ==
  1 + CASE t.kind = "Array"      -> room(t.subs[1]) * most[t.subs[1]]
        [] t.kind = "FixedArray" -> t.size * most[t.subs[1]]
        [] t.kind = "Tuple"      -> Total[[i \in DOMAIN t.subs |-> most[t.subs[i]]]]
        [] OTHER                 -> 0

(* What decode builds is bounded by the types and by the data there is,    *)
(* whatever lengths the data claims, on every level of nesting and although*)
(* arrays may share their tails: a loop over the elements of an array ends *)
(* where the data does, and only one over elements without bytes goes on   *)
(* for as long as the data says.                                           *)
TokensWithinData ==
  \A k \in DOMAIN acc :
    /\ stack[k].kind = "Array" => Len(acc[k]) <= room(stack[k].elems[1])
    /\ \A i \in DOMAIN acc[k] : weight(acc[k][i]) <= most[ElemAt(stack[k], i)]
=============================================================================
