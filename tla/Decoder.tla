------------------------------ MODULE Decoder ------------------------------
(***************************************************************************)
(* decode and decode_validate (decoder.rs): the recursive descent over     *)
(* the types, as a machine that makes one call of decode_param per step.   *)
(*                                                                         *)
(* A call that is open, on a composite type, is a frame of "stack"; the    *)
(* bottom frame is the loop of decode_impl over the types.  The slice      *)
(* "tail" that an open call reads is the data from the frame's "base" on,  *)
(* and "off" is the call's new_offset, relative to that base.  acc[k] is   *)
(* the vector of tokens that frame k has pushed so far.                    *)
(***************************************************************************)
EXTENDS AbiTypes, Results, SequencesExt

CONSTANTS
  Inputs,       \* the arguments of a call: types, and the data to decode
  AllocLimit,   \* vectors up to this capacity can always be allocated
  Replacement   \* what from_utf8_lossy writes for one of them

(* A slice is at most isize::MAX bytes long. *)
ASSUME InputsAssumption ==
  /\ Inputs \subseteq [types : Seq(ParamTypes), data : Seq(Byte)]
  /\ \A input \in Inputs : 2 * Len(input.data) < UsizeSize

ASSUME AllocAssumption == AllocLimit \in Nat

ASSUME Utf8Assumption == /\ InvalidUtf8 \subseteq Byte
                         /\ Replacement \in Seq(Byte \ InvalidUtf8)

VARIABLES
  types,        \* the argument types
  data,         \* the argument data
  validate,     \* decode_validate rather than decode
  stack,        \* the open calls, innermost last
  acc,          \* the vector of tokens of each open call
  status        \* "start", "running", or how the call ended

vars == <<types, data, validate, stack, acc, status>>

Outcomes == {"Ok", "Err", "Panic"}

FrameKinds == {"Params", "Array", "FixedArray", "Tuple"}

(* elems are the types of the elements: all of the same, the only, type in *)
(* an array; next is the number of the element that is decoded next.       *)
Frame == [kind : FrameKinds, elems : Seq(ParamTypes), dyn : BOOLEAN,
          base : Nat, off : Nat, next : Nat, count : Nat]

-----------------------------------------------------------------------------
(* The reads.  A read yields its value, or an Err, or the panic of a slice *)
(* index out of range.                                                     *)

(* &d[from..to] *)
Index(d, from, to) ==
  IF from <= to /\ to <= Len(d) THEN Ok(Slice(d, from, to)) ELSE Panic

peek(d, offset, len) ==
  IF UAdd(offset, len) > Len(d) THEN Err
  ELSE Index(d, offset, UAdd(offset, len))

peek_32_bytes(d, offset) == peek(d, offset, WordLen)

as_usize(w) ==
  IF IsZero(Slice(w, 0, WordLen - 4)) THEN Ok(WordValue(w)) ELSE Err

as_bool(w) ==
  IF IsZero(Slice(w, 0, WordLen - 1))
  THEN Ok(<<IF w[WordLen] = 1 THEN 1 ELSE 0>>)
  ELSE Err

(* as_usize(&peek_32_bytes(d, offset)?)? *)
peek_usize(d, offset) ==
  LET w == peek_32_bytes(d, offset)
  IN  IF w.status = "Ok" THEN as_usize(w.val) ELSE w

(* A mutant: the padding is not checked. *)
take_bytes_unpadded(d, offset, len, strict) == peek(d, offset, len)

(* A mutant: in strict mode the padding is cut out with the bytes. *)
take_bytes_padded(d, offset, len, strict) ==
  peek(d, offset, IF strict THEN round_up_nearest_multiple(len) ELSE len)

take_bytes(d, offset, len, strict) ==
  LET end     == UAdd(offset, len)
      pad_end == UAdd(offset, round_up_nearest_multiple(len))
      padding == Index(d, end, pad_end)
  IN  IF ~strict THEN peek(d, offset, len)
      ELSE IF pad_end > Len(d) THEN Err
      ELSE IF padding.status # "Ok" THEN padding
      ELSE IF ~IsZero(padding.val) THEN Err
      ELSE Index(d, offset, end)

(* String::from_utf8_lossy *)
from_utf8_lossy(s) ==
  FlattenSeq([i \in DOMAIN s |-> IF s[i] \in InvalidUtf8 THEN Replacement
                                                         ELSE <<s[i]>>])

-----------------------------------------------------------------------------
(* The open calls. *)

Top     == stack[Len(stack)]
View(f) == Slice(data, f.base, Len(data))

(* The type of element i of f, and of the element that f decodes next. *)
ElemAt(f, i) == IF f.kind \in {"Array", "FixedArray"} THEN f.elems[1]
                                                      ELSE f.elems[i]
Elem(f) == ElemAt(f, f.next)

(* The innermost call is in its loop, at an element of one of these kinds. *)
Decoding(kinds) == /\ status = "running"
                   /\ Top.next <= Top.count
                   /\ Elem(Top).kind \in kinds

(* frame and tokens after its element returned: tokens.push(res.token). *)
Advance(f, new_offset) == [f EXCEPT !.off = new_offset, !.next = @ + 1]

(* The innermost call pushes a token and goes on at new_offset. *)
Deliver(token, new_offset) ==
  /\ stack' = [stack EXCEPT ![Len(stack)] = Advance(@, new_offset)]
  /\ acc'   = [acc EXCEPT ![Len(stack)] = Append(@, token)]
  /\ UNCHANGED <<types, data, validate, status>>

(* The ? operator drops every open call at once, and so does a panic. *)
Return(outcome) ==
  /\ status' = outcome
  /\ stack'  = <<>>
  /\ acc'    = <<>>
  /\ UNCHANGED <<types, data, validate>>

(* A mutant: the call pushes onto the vector of its caller. *)
Open_shared(f) ==
  /\ stack' = Append(stack, f)
  /\ UNCHANGED <<types, data, validate, acc, status>>

(* A call of decode_param on a composite type, with a vector of its own. *)
Open(f) ==
  /\ stack' = Append(stack, f)
  /\ acc'   = Append(acc, <<>>)
  /\ UNCHANGED <<types, data, validate, status>>

(* A decode_param that opens no call: push what it read, or fail. *)
Take(kind, res) ==
  \/ /\ res.status = "Ok"
     /\ Deliver(Token(kind, res.val, <<>>), UAdd(Top.off, WordLen))
  \/ /\ res.status # "Ok"
     /\ Return(res.status)

(* try_reserve_exact(count) and the loop over the elements of f. *)
TryOpen(f) ==
  \/ Open(f)
  \/ f.count > AllocLimit /\ Return("Err")

-----------------------------------------------------------------------------
(* decode_impl, up to its loop. *)

RootFrame == [kind |-> "Params", elems |-> types, dyn |-> FALSE,
              base |-> 0, off |-> 0, next |-> 1, count |-> Len(types)]

NothingToDecode ==
  /\ data = <<>>
  /\ \E i \in DOMAIN types : ~is_empty_bytes_valid_encoding(types[i])

Start ==
  /\ status = "start"
  /\ \/ /\ NothingToDecode
        /\ Return("Err")
     \/ /\ ~NothingToDecode
        /\ status' = "running"
        /\ stack'  = <<RootFrame>>
        /\ acc'    = << <<>> >>
        /\ UNCHANGED <<types, data, validate>>
     \/ /\ ~NothingToDecode
        /\ Len(types) > AllocLimit
        /\ Return("Err")

-----------------------------------------------------------------------------
(* decode_param, one action for each arm of its match. *)

decode_address(d, offset) ==
  LET w == peek_32_bytes(d, offset)
  IN  IF w.status # "Ok" THEN w
      ELSE IF validate /\ ~IsZero(Slice(w.val, 0, AddrPad)) THEN Err
      ELSE Ok(Slice(w.val, AddrPad, WordLen))

DecodeAddress ==
  /\ Decoding({"Address"})
  /\ Take("Address", decode_address(View(Top), Top.off))

(* A mutant: the arm of Uint was copied from the arm of Int. *)
DecodeInt_copied ==
  /\ Decoding({"Int", "Uint"})
  /\ Take("Int", peek_32_bytes(View(Top), Top.off))

DecodeInt ==
  /\ Decoding({"Int", "Uint"})
  /\ Take(Elem(Top).kind, peek_32_bytes(View(Top), Top.off))

decode_bool(d, offset) ==
  LET w == peek_32_bytes(d, offset)
  IN  IF w.status = "Ok" THEN as_bool(w.val) ELSE w

DecodeBool ==
  /\ Decoding({"Bool"})
  /\ Take("Bool", decode_bool(View(Top), Top.off))

(* Whatever its length, the value is taken to fill one word. *)
DecodeFixedBytes ==
  /\ Decoding({"FixedBytes"})
  /\ Take("FixedBytes",
          take_bytes(View(Top), Top.off, Elem(Top).size, validate))

decode_bytes(d, offset) ==
  LET dynamic_offset == peek_usize(d, offset)
      len            == peek_usize(d, dynamic_offset.val)
  IN  IF dynamic_offset.status # "Ok" THEN dynamic_offset
      ELSE IF len.status # "Ok" THEN len
      ELSE take_bytes(d, UAdd(dynamic_offset.val, WordLen), len.val, validate)

DecodeBytes ==
  /\ Decoding({"Bytes"})
  /\ Take("Bytes", decode_bytes(View(Top), Top.off))

lossy_string(res) ==
  IF res.status = "Ok" THEN Ok(from_utf8_lossy(res.val)) ELSE res

DecodeString ==
  /\ Decoding({"String"})
  /\ \E bytes \in {decode_bytes(View(Top), Top.off)} :
       Take("String", lossy_string(bytes))

(* The head of an array: where its tail is, and how many elements it has.  *)
(* A panic is the slice &data[tail_offset..].                              *)
open_array(d, offset) ==
  LET len_offset  == peek_usize(d, offset)
      len         == peek_usize(d, len_offset.val)
      tail_offset == UAdd(len_offset.val, WordLen)
  IN  IF len_offset.status # "Ok" THEN len_offset
      ELSE IF len.status # "Ok" THEN len
      ELSE IF tail_offset > Len(d) THEN Panic
      ELSE Ok([base |-> tail_offset, count |-> len.val])

DecodeArray ==
  /\ Decoding({"Array"})
  /\ LET res == open_array(View(Top), Top.off)
     IN  \/ /\ res.status = "Ok"
            /\ TryOpen([kind  |-> "Array", elems |-> Elem(Top).subs,
                        dyn   |-> TRUE,
                        base  |-> Top.base + res.val.base, off |-> 0,
                        next  |-> 1, count |-> res.val.count])
         \/ /\ res.status # "Ok"
            /\ Return(res.status)

(* A mutant: &data[offset..] without the test that guards it. *)
open_tail_unchecked(d, offset) ==
  LET tail_offset == peek_usize(d, offset)
  IN  IF tail_offset.status = "Ok" /\ tail_offset.val > Len(d) THEN Panic
      ELSE tail_offset

(* The offset word of a dynamic fixed array or tuple. *)
open_tail(d, offset) ==
  LET tail_offset == peek_usize(d, offset)
  IN  IF tail_offset.status = "Ok" /\ tail_offset.val > Len(d) THEN Err
      ELSE tail_offset

(* A mutant: the loop runs over 0..=len. *)
ComponentFrame_inclusive(t, dyn, base, off) ==
  [kind |-> t.kind, elems |-> t.subs, dyn |-> dyn, base |-> base, off |-> off,
   next |-> 1,
   count |-> 1 + (IF t.kind = "Tuple" THEN Len(t.subs) ELSE t.size)]

(* The call on the elements of t, whose bytes start off after base. *)
ComponentFrame(t, dyn, base, off) ==
  [kind |-> t.kind, elems |-> t.subs, dyn |-> dyn, base |-> base, off |-> off,
   next |-> 1, count |-> IF t.kind = "Tuple" THEN Len(t.subs) ELSE t.size]

(* Only a fixed array reserves with try_reserve_exact. *)
OpenComponents(f) ==
  \/ f.kind = "FixedArray" /\ TryOpen(f)
  \/ f.kind = "Tuple" /\ Open(f)

DecodeStaticComponents ==
  /\ Decoding({"FixedArray", "Tuple"})
  /\ Elem(Top) \notin DynamicTypes
  /\ OpenComponents(ComponentFrame(Elem(Top), FALSE, Top.base, Top.off))

DecodeDynamicComponents ==
  /\ Decoding({"FixedArray", "Tuple"})
  /\ Elem(Top) \in DynamicTypes
  /\ LET res == open_tail(View(Top), Top.off)
     IN  \/ /\ res.status = "Ok"
            /\ OpenComponents(ComponentFrame(Elem(Top), TRUE,
                                             Top.base + res.val, 0))
         \/ /\ res.status # "Ok"
            /\ Return(res.status)

(* A mutant: a call on a dynamic type returns the offset in its own tail. *)
NewOffset_tail(f, parent) == f.off

(* The new_offset that a call on f's type returns to its caller. *)
NewOffset(f, parent) == IF f.dyn THEN UAdd(parent.off, WordLen) ELSE f.off

(* The loop over the elements is done: the call returns their vector. *)
Leave ==
  LET n == Len(stack)
  IN  /\ status = "running" /\ n > 1
      /\ Top.next > Top.count
      /\ stack' = [i \in 1..(n - 1) |->
                     IF i < n - 1 THEN stack[i]
                     ELSE Advance(stack[i], NewOffset(Top, stack[i]))]
      /\ acc'   = [i \in 1..(n - 1) |->
                     IF i < n - 1 THEN acc[i]
                     ELSE Append(acc[i], Token(Top.kind, <<>>, acc[n]))]
      /\ UNCHANGED <<types, data, validate, status>>

(* The end of decode_impl; acc[1] is the vector it returns. *)
Finish ==
  /\ status = "running" /\ Len(stack) = 1
  /\ Top.next > Top.count
  /\ \/ /\ validate => Top.off = Len(data)
        /\ status' = "Ok"
        /\ UNCHANGED <<types, data, validate, stack, acc>>
     \/ /\ validate /\ Top.off # Len(data)
        /\ Return("Err")

-----------------------------------------------------------------------------
Init ==
  /\ \E input \in Inputs : types = input.types /\ data = input.data
  /\ validate \in BOOLEAN
  /\ stack = <<>> /\ acc = <<>>
  /\ status = "start"

Next ==
  \/ Start
  \/ DecodeAddress \/ DecodeInt \/ DecodeBool
  \/ DecodeFixedBytes \/ DecodeBytes \/ DecodeString
  \/ DecodeArray \/ DecodeStaticComponents \/ DecodeDynamicComponents
  \/ Leave \/ Finish

Spec == Init /\ [][Next]_vars

-----------------------------------------------------------------------------
(* The variables have their types, and each open call has one vector. *)
TypeOK ==
  /\ types \in Seq(ParamTypes)
  /\ data \in Seq(Byte)
  /\ validate \in BOOLEAN
  /\ stack \in Seq(Frame)
  /\ DOMAIN acc = DOMAIN stack
  /\ acc = [k \in DOMAIN stack |-> acc[k]]
  /\ status \in {"start", "running"} \cup Outcomes

(* An open call reads inside the data and inside its types: its base lies  *)
(* in the data, its offset runs at most one word past its tail (FixedBytes *)
(* advances by a word whatever it read), and it has an element type for    *)
(* every element it still decodes.                                         *)
FrameOK(f) ==
  /\ f.base <= Len(data)
  /\ f.off <= Len(data) - f.base + WordLen
  /\ f.next \in 1..(f.count + 1)
  /\ IF f.kind \in {"Array", "FixedArray"} THEN Len(f.elems) = 1
                                           ELSE Len(f.elems) = f.count

(* f was called by g: g waits in its loop, a static callee reads the slice *)
(* of its caller, and a dynamic one was reached through a word of it.      *)
CalledBy(f, g) ==
  /\ f.kind # "Params"
  /\ g.next <= g.count
  /\ IF f.dyn THEN g.off + WordLen <= Len(data) - g.base
              ELSE f.base = g.base

(* The open calls stay inside the data and hang together: what decode's    *)
(* slicing relies on and never tests again after a call has returned.      *)
StackOK ==
  /\ status = "running" => stack # <<>>
  /\ status \in {"start", "Err", "Panic"} => stack = <<>>
  /\ \A k \in DOMAIN stack : FrameOK(stack[k])
  /\ \A k \in DOMAIN stack : k > 1 => CalledBy(stack[k], stack[k - 1])
  /\ stack # <<>> => stack[1].kind = "Params"

(* usize has room for every sum of two lengths the decoder forms. *)
Wide ==
  /\ 2 * (U32 + 2 * WordLen) <= UsizeSize
  /\ \A t \in ParamTypes :
       t.kind = "FixedBytes" => 2 * (t.size + 2 * WordLen) <= UsizeSize

(* No data whatever makes decode or decode_validate panic: every slice the *)
(* code takes is in range (CHANGELOG 16.0.0 promises it for arrays).       *)
NoPanic == status # "Panic"

(* The bytes that a type takes in the head of its parent. *)
head_size[t \in ParamTypes] ==
  IF t \in DynamicTypes \/ t.kind \notin {"FixedArray", "Tuple"} THEN WordLen
  ELSE IF t.kind = "FixedArray" THEN t.size * head_size[t.subs[1]]
  ELSE Total[[i \in DOMAIN t.subs |-> head_size[t.subs[i]]]]

HeadsBefore(f) ==
  IF f.kind \in {"Array", "FixedArray"}
  THEN (f.next - 1) * head_size[f.elems[1]]
  ELSE Total[[i \in 1..(f.next - 1) |-> head_size[f.elems[i]]]]

(* Every open call stands exactly at the head of its next element, so what *)
(* decode reads where depends on the types only: a call that returns the   *)
(* wrong new_offset would misread everything after it.                     *)
CursorAtHead ==
  \A k \in DOMAIN stack :
    stack[k].off = HeadsBefore(stack[k])
                     + (IF k = 1 \/ stack[k].dyn THEN 0 ELSE stack[k - 1].off)

(* decode follows its types: the open call on a component is on the type   *)
(* that its caller has come to, and the vector of every call holds one     *)
(* token of the right variant for each element it has passed.              *)
FollowsTypes ==
  /\ stack # <<>> => stack[1].elems = types
  /\ \A k \in DOMAIN stack :
       /\ k > 1 => /\ stack[k].elems = Elem(stack[k - 1]).subs
                   /\ stack[k].kind = Elem(stack[k - 1]).kind
       /\ Len(acc[k]) = stack[k].next - 1
       /\ \A i \in DOMAIN acc[k] : acc[k][i].kind = ElemAt(stack[k], i).kind
=============================================================================
