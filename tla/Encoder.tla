------------------------------ MODULE Encoder ------------------------------
(***************************************************************************)
(* encode (encoder.rs).  A token becomes a Mediate, which knows how many   *)
(* bytes its head and its tail will take; encode_head_tail_append writes   *)
(* the heads, each dynamic one an offset computed from those lengths, and  *)
(* then the tails.  Lengths and offsets are u32 and wrap in a release      *)
(* build.  The append functions are modelled by the bytes they append.     *)
(***************************************************************************)
EXTENDS AbiTokens, SequencesExt

AsU32(n)     == n % U32
U32Add(a, b) == AsU32(a + b)
U32Mul(a, b) == AsU32(a * b)
U32Sum(lens) == AsU32(Total[lens])

fixed_bytes_len(bytes) == AsU32(WordsFor(Len(bytes)))
pad_bytes_len(bytes)   == U32Add(fixed_bytes_len(bytes), 1)

(* A mutant: the last word is padded on its left. *)
fixed_bytes_append_left(bytes) ==
  Zeros(WordsFor(Len(bytes)) * WordLen - Len(bytes)) \o bytes

fixed_bytes_append(bytes) ==
  bytes \o Zeros(WordsFor(Len(bytes)) * WordLen - Len(bytes))

pad_bytes_append(bytes) ==
  pad_u32(AsU32(Len(bytes))) \o fixed_bytes_append(bytes)

encode_token_append(token) ==
  CASE token.kind = "Address"             -> Zeros(AddrPad) \o token.val
    [] token.kind \in {"Bytes", "String"} -> pad_bytes_append(token.val)
    [] token.kind = "FixedBytes"          -> fixed_bytes_append(token.val)
    [] token.kind \in {"Int", "Uint"}     -> token.val
    [] token.kind = "Bool"                -> Zeros(WordLen - 1) \o token.val

-----------------------------------------------------------------------------
(* A Mediate, by what its methods return: the predicted lengths, and what  *)
(* is appended.  One with an offset appends that for a head.               *)

Mediate(offset, head_len, tail_len, head, tail) ==
  [offset |-> offset, head_len |-> head_len, tail_len |-> tail_len,
   head |-> head, tail |-> tail]

head_append(m, suffix_offset) == IF m.offset THEN pad_u32(suffix_offset) ELSE m.head

(* A mutant: every argument has a head of one word. *)
heads_len_words(ms) == U32Mul(WordLen, Len(ms))

heads_len(ms) == U32Sum([i \in DOMAIN ms |-> ms[i].head_len])
tails_len(ms) == U32Sum([i \in DOMAIN ms |-> ms[i].tail_len])

encode_head_tail_append(ms) ==
  LET offset(i) == U32Add(heads_len(ms), tails_len(SubSeq(ms, 1, i - 1)))
  IN  FlattenSeq([i \in DOMAIN ms |-> head_append(ms[i], offset(i))])
        \o FlattenSeq([i \in DOMAIN ms |-> ms[i].tail])

Raw(len, token) ==
  Mediate(FALSE, U32Mul(WordLen, len), 0, encode_token_append(token), <<>>)

RawArray(ms) ==
  Mediate(FALSE, heads_len(ms), 0,
          FlattenSeq([i \in DOMAIN ms |-> head_append(ms[i], 0)]), <<>>)

Prefixed(len, token) ==
  Mediate(TRUE, WordLen, U32Mul(WordLen, len), <<>>, encode_token_append(token))

PrefixedArray(ms) ==
  Mediate(TRUE, WordLen, U32Add(heads_len(ms), tails_len(ms)), <<>>,
          encode_head_tail_append(ms))

(* A mutant: the length word of an array is not counted. *)
PrefixedArrayWithLength_uncounted(ms) ==
  Mediate(TRUE, WordLen, U32Add(heads_len(ms), tails_len(ms)), <<>>,
          pad_u32(AsU32(Len(ms))) \o encode_head_tail_append(ms))

PrefixedArrayWithLength(ms) ==
  Mediate(TRUE, WordLen, U32Add(WordLen, U32Add(heads_len(ms), tails_len(ms))), <<>>,
          pad_u32(AsU32(Len(ms))) \o encode_head_tail_append(ms))

mediate_token[token \in Tokens] ==
  LET ms == [i \in DOMAIN token.subs |-> mediate_token[token.subs[i]]]
  IN  CASE token.kind \in {"Address", "Int", "Uint", "Bool"} -> Raw(1, token)
        [] token.kind = "FixedBytes" -> Raw(fixed_bytes_len(token.val), token)
        [] token.kind \in {"Bytes", "String"} ->
             Prefixed(pad_bytes_len(token.val), token)
        [] token.kind = "Array" -> PrefixedArrayWithLength(ms)
        [] token.kind \in {"FixedArray", "Tuple"} ->
             IF token_is_dynamic[token] THEN PrefixedArray(ms) ELSE RawArray(ms)

encode(tokens) ==
  encode_head_tail_append([i \in DOMAIN tokens |-> mediate_token[tokens[i]]])
=============================================================================
