----------------------------- MODULE DecodeSpec -----------------------------
(***************************************************************************)
(* What decoding promises, stated apart from the code: one step from the   *)
(* question to the answer.  The tokens are found by position, not by       *)
(* walking over the data: the head of a value is as far from the first     *)
(* head as the types before it take, offsets count from there, and numbers *)
(* do not wrap.  A position outside of the data makes the value undefined. *)
(***************************************************************************)
EXTENDS AbiTypes, SequencesExt

CONSTANTS
  Replacement,  \* as in module Decoder
  MemoryShort   \* a vector may fail to be allocated

VARIABLES
  types, data, validate,     \* the question
  outcome,                   \* "pending", "Ok" or "Err"
  tokens                     \* the answer

Some(v)   == [defined |-> TRUE, val |-> v]
Undefined == [defined |-> FALSE, val |-> <<>>]

-----------------------------------------------------------------------------
(* A reader stands at a position of the data; offsets count from its base. *)

Reader == [data : Seq(Byte), strict : BOOLEAN, base : Nat, at : Nat]

Skip(r, n) == [r EXCEPT !.at = @ + n]

Within(r, n)  == r.at + n <= Len(r.data)
BytesAt(r, n) == SubSeq(r.data, r.at + 1, r.at + n)

IsNumber(r) == Within(r, WordLen) /\ IsZero(BytesAt(r, WordLen - 4))
NumberAt(r) == WordValue(BytesAt(r, WordLen))

(* The reader where the offset at r leads, and r with offsets from there.  *)
Target(r)  == [r EXCEPT !.at = r.base + NumberAt(r)]
Rebased(r) == [r EXCEPT !.base = r.at]

(* n bytes; a strict reader wants zeros after them, to the end of a word. *)
Payload(r, n) ==
  LET whole == WordsFor(n) * WordLen
  IN  IF r.strict
      THEN Within(r, whole) /\ IsZero(BytesAt(Skip(r, n), whole - n))
      ELSE Within(r, n)

(* The bytes behind the length at r. *)
Counted(r) ==
  IF IsNumber(r) /\ Payload(Skip(r, WordLen), NumberAt(r))
  THEN Some(BytesAt(Skip(r, WordLen), NumberAt(r))) ELSE Undefined

Lossy(s) == FlattenSeq([i \in DOMAIN s |-> IF s[i] \in InvalidUtf8
                                           THEN Replacement ELSE <<s[i]>>])

-----------------------------------------------------------------------------
(* A value of type t is found through an offset. *)
behind[t \in ParamTypes] ==
  \/ t.kind \in {"Bytes", "String", "Array"}
  \/ \E i \in DOMAIN t.subs : behind[t.subs[i]]

(* The type of the i-th component, and how many a tuple or a fixed array   *)
(* has.                                                                    *)
SubType(t, i) == t.subs[IF t.kind = "Tuple" THEN i ELSE 1]
Width(t)      == IF t.kind = "Tuple" THEN Len(t.subs) ELSE t.size

(* The heads of the first n components, if "len" has the heads of each.    *)
HeadsLen(len, t, n) ==
  IF t.kind = "Tuple" THEN Total[[i \in 1..n |-> len[t.subs[i]]]]
                      ELSE n * len[t.subs[1]]

(* The bytes that a value of type t takes among the heads. *)
head_len[t \in ParamTypes] ==
  IF behind[t] \/ t.kind \notin {"FixedArray", "Tuple"} THEN WordLen
  ELSE HeadsLen(head_len, t, Width(t))

(* The first n components of t, whose heads start at r. *)
Row(values, t, n, r) ==
  LET element(i) == values[SubType(t, i)][Skip(r, HeadsLen(head_len, t, i - 1))]
  IN  IF \E i \in 1..n : ~element(i).defined THEN Undefined
      ELSE Some([i \in 1..n |-> element(i).val])

(* The elements behind the length at r. *)
Elements(values, t, r) ==
  IF IsNumber(r)
  THEN Row(values, t, NumberAt(r), Rebased(Skip(r, WordLen))) ELSE Undefined

(* A token of type t, of the bytes or of the components in res.            *)
Leaf(t, res) == IF res.defined THEN Some(Token(t.kind, res.val, <<>>)) ELSE res
Node(t, res) == IF res.defined THEN Some(Token(t.kind, <<>>, res.val)) ELSE res

(* The bytes of a value that is one word. *)
WordAt(t, r) ==
  LET word == BytesAt(r, WordLen)
  IN  CASE t.kind = "Address" ->
             IF r.strict /\ ~IsZero(SubSeq(word, 1, AddrPad)) THEN Undefined
             ELSE Some(SubSeq(word, AddrPad + 1, WordLen))
        [] t.kind = "Bool" ->
             IF ~IsZero(SubSeq(word, 1, WordLen - 1)) THEN Undefined
             ELSE Some(<<IF word[WordLen] = 1 THEN 1 ELSE 0>>)
        [] t.kind \in {"Int", "Uint"} -> Some(word)

LossyOf(res) == IF res.defined THEN Some(Lossy(res.val)) ELSE res

(* The value of type t that starts at r: among the heads, or where its     *)
(* offset leads.                                                           *)
InHeads(values, t, r) ==
  CASE t.kind \in {"Address", "Int", "Uint", "Bool"} ->
         IF Within(r, WordLen) THEN Leaf(t, WordAt(t, r)) ELSE Undefined
    [] t.kind = "FixedBytes" ->
         IF Payload(r, t.size) THEN Leaf(t, Some(BytesAt(r, t.size))) ELSE Undefined
    [] t.kind \in {"FixedArray", "Tuple"} -> Node(t, Row(values, t, Width(t), r))

InTails(values, t, r) ==
  CASE t.kind = "Bytes"  -> Leaf(t, Counted(r))
    [] t.kind = "String" -> Leaf(t, LossyOf(Counted(r)))
    [] t.kind = "Array"  -> Node(t, Elements(values, t, r))
    [] t.kind \in {"FixedArray", "Tuple"} ->
         IF Within(r, 0) THEN Node(t, Row(values, t, Width(t), Rebased(r)))
                         ELSE Undefined

(* The value of type t whose head is at r. *)
ValueAt(values, t, r) ==
  IF ~behind[t] THEN InHeads(values, t, r)
  ELSE IF IsNumber(r) THEN InTails(values, t, Target(r)) ELSE Undefined

value[t \in ParamTypes] == [r \in Reader |-> ValueAt(value, t, r)]

(* The tokens of the data: the arguments are laid out as a static tuple is *)
(* at its start.  A strict reader wants the heads to be all of it.         *)
Decoded(ts, d, strict) ==
  LET args  == TupleT(ts)
      start == [data |-> d, strict |-> strict, base |-> 0, at |-> 0]
  IN  IF \/ d = <<>> /\ \E i \in DOMAIN ts : ~is_empty_bytes_valid_encoding(ts[i])
         \/ strict /\ HeadsLen(head_len, args, Len(ts)) # Len(d)
      THEN Undefined
      ELSE Row(value, args, Len(ts), start)

-----------------------------------------------------------------------------
Init == outcome = "pending" /\ tokens = <<>>

Answer ==
  /\ outcome = "pending" /\ outcome' \in {"Ok", "Err"}
  /\ UNCHANGED <<types, data, validate>>
  /\ \E decoded \in {Decoded(types, data, validate)} :
         \/ /\ decoded.defined
            /\ outcome' = "Ok" /\ tokens' = decoded.val
         \/ /\ ~decoded.defined \/ MemoryShort
            /\ outcome' = "Err" /\ UNCHANGED tokens

vars == <<types, data, validate, outcome, tokens>>

Spec == Init /\ [][Answer]_vars
=============================================================================
