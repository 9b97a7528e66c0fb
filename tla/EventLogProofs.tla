--------------------------- MODULE EventLogProofs ---------------------------
(***************************************************************************)
(* The proofs about event logs: no log makes parse_log panic, what it      *)
(* returns is what the positions of the topics and of the data define, an  *)
(* emitted log is parsed to its values, a log that parse_log_validate      *)
(* accepts is an emission, and a filter selects the logs it is made for.   *)
(*                                                                         *)
(* The invariant LInv joins the type correctness of the calls of the       *)
(* decoder (PInv), the session that the event and the log are of, and what *)
(* the decoder has read of them so far (Reading); FInv is the part of it   *)
(* that filters need.  The theorems assume Wide, that usize has room for   *)
(* the sum of two u32 lengths, and, where Err has to mean something about  *)
(* the log, Roomy, that no reservation fails.                              *)
(***************************************************************************)
EXTENDS EventLog, EncodingProofs

-----------------------------------------------------------------------------
(* The parameters of an event. *)

(* The right side of the definition of split. *)
SplitDef(f, params) ==
  IF params = <<>> THEN [indexed \in BOOLEAN |-> <<>>]
  ELSE [f[Front(params)] EXCEPT ![Last(params).indexed] = Append(@, Last(params))]

NumberOf == [params \in Seq(EventParam) |-> Len(params)]

Splits == INSTANCE Recursion WITH
  Dom <- Seq(EventParam), measure <- NumberOf, Def <- SplitDef

(* split obeys its definition. *)
LEMMA SplitEquation ==
  \A params \in Seq(EventParam) : split[params] = SplitDef(split, params)
  <1>1. Splits!WellFounded
    <2>1. NumberOf \in [Seq(EventParam) -> Nat]
      BY LenProperties DEF NumberOf
    <2>2. ASSUME NEW f, NEW g, NEW params \in Seq(EventParam),
                 \A others \in Seq(EventParam) :
                   NumberOf[others] < NumberOf[params] => f[others] = g[others]
          PROVE  SplitDef(f, params) = SplitDef(g, params)
      <3>1. CASE params = <<>>
        BY <3>1 DEF SplitDef
      <3>2. CASE params # <<>>
        <4>1. Front(params) \in Seq(EventParam) /\ NumberOf[Front(params)] < NumberOf[params]
          <5>1. /\ Front(params) \in Seq(EventParam)
                /\ Len(params) \in Nat /\ Len(Front(params)) \in Nat
                /\ Len(params) = Len(Front(params)) + 1
            BY <3>2, FrontOfSeq
          <5> QED
            BY <5>1 DEF NumberOf
        <4>2. f[Front(params)] = g[Front(params)]
          BY <2>2, <4>1
        <4> QED
          BY <3>2, <4>2 DEF SplitDef
      <3> QED
        BY <3>1, <3>2
    <2> QED
      BY <2>1, <2>2 DEF Splits!WellFounded
  <1>2. split = CHOOSE f : f = [params \in Seq(EventParam) |-> SplitDef(f, params)]
    BY DEF split, SplitDef
  <1>3. split = [params \in Seq(EventParam) |-> SplitDef(split, params)]
    BY <1>1, <1>2, NaturalInduction, Splits!Defined DEF Splits!Inductive
  <1> QED
    BY <1>3

(* A parameter more is one more of its part. *)
LEMMA SplitGrows ==
  /\ split[<<>>] = [indexed \in BOOLEAN |-> <<>>]
  /\ \A params \in Seq(EventParam) : \A p \in EventParam :
       split[Append(params, p)] =
         [split[params] EXCEPT ![p.indexed] = Append(@, p)]
  <1>1. split[<<>>] = [indexed \in BOOLEAN |-> <<>>]
    <2>1. <<>> \in Seq(EventParam)
      BY EmptySeq
    <2> QED
      BY <2>1, SplitEquation DEF SplitDef
  <1>2. ASSUME NEW params \in Seq(EventParam), NEW p \in EventParam
        PROVE  split[Append(params, p)] =
                 [split[params] EXCEPT ![p.indexed] = Append(@, p)]
    <2> DEFINE more == Append(params, p)
    <2>1. more \in Seq(EventParam) /\ more # <<>> /\ Front(more) = params /\ Last(more) = p
      BY FrontOfAppend
    <2> HIDE DEF more
    <2>2. split[more] = SplitDef(split, more)
      BY <2>1, SplitEquation
    <2>3. SplitDef(split, more) = [split[params] EXCEPT ![p.indexed] = Append(@, p)]
      BY <2>1 DEF SplitDef
    <2> QED
      BY <2>2, <2>3 DEF more
  <1> QED
    BY <1>1, <1>2

(* split sorts the parameters: none is lost, none is in the wrong part. *)
LEMMA SplitParts ==
  ASSUME NEW params \in Seq(EventParam)
  PROVE  /\ split[params] \in [BOOLEAN -> Seq(EventParam)]
         /\ \A indexed \in BOOLEAN :
              Range(split[params][indexed]) = {p \in Range(params) : p.indexed = indexed}
  <1> DEFINE Sorted(ps) ==
               /\ split[ps] \in [BOOLEAN -> Seq(EventParam)]
               /\ \A indexed \in BOOLEAN :
                    Range(split[ps][indexed]) = {p \in Range(ps) : p.indexed = indexed}
             S == {ps \in Seq(EventParam) : Sorted(ps)}
  <1>1. <<>> \in S
    <2>1. <<>> \in Seq(EventParam) /\ Range(<<>>) = {}
      BY EmptySeq DEF Range
    <2>2. \A indexed \in BOOLEAN : split[<<>>][indexed] = <<>>
      BY SplitGrows
    <2>3. split[<<>>] \in [BOOLEAN -> Seq(EventParam)]
      BY <2>1, SplitGrows
    <2> QED
      BY <2>1, <2>2, <2>3
  <1>2. ASSUME NEW ps \in Seq(EventParam), NEW p \in EventParam, ps \in S
        PROVE  Append(ps, p) \in S
    <2> DEFINE more == Append(ps, p)
               old  == split[ps]
    <2>1. Sorted(ps)
      BY <1>2
    <2>2. more \in Seq(EventParam) /\ Range(more) = Range(ps) \cup {p}
      BY FrontOfAppend, RangeOfAppend
    <2>3. split[more] = [old EXCEPT ![p.indexed] = Append(@, p)]
      BY SplitGrows
    <2>4. p.indexed \in BOOLEAN /\ old \in [BOOLEAN -> Seq(EventParam)]
      BY <2>1 DEF EventParam
    <2> HIDE DEF more, old
    <2>5. /\ split[more] \in [BOOLEAN -> Seq(EventParam)]
          /\ split[more][p.indexed] = Append(old[p.indexed], p)
          /\ \A indexed \in BOOLEAN : indexed # p.indexed => split[more][indexed] = old[indexed]
      <3>1. Append(old[p.indexed], p) \in Seq(EventParam)
        BY <2>4, AppendProperties
      <3> QED
        BY <2>3, <2>4, <3>1
    <2>6. ASSUME NEW indexed \in BOOLEAN
          PROVE  Range(split[more][indexed]) = {q \in Range(more) : q.indexed = indexed}
      <3>1. Range(old[indexed]) = {q \in Range(ps) : q.indexed = indexed}
        BY <2>1 DEF old
      <3>2. CASE indexed = p.indexed
        <4>1. Range(Append(old[indexed], p)) = Range(old[indexed]) \cup {p}
          BY <2>4, RangeOfAppend
        <4> QED
          BY <2>2, <2>5, <3>1, <3>2, <4>1
      <3>3. CASE indexed # p.indexed
        BY <2>2, <2>5, <3>1, <3>3
      <3> QED
        BY <3>2, <3>3
    <2>7. Sorted(more)
      BY <2>5, <2>6
    <2> QED
      BY <2>2, <2>7 DEF more
  <1>3. Seq(EventParam) \subseteq S
    <2> HIDE DEF S
    <2> QED BY <1>1, <1>2, SeqInduction
  <1> QED
    BY <1>3

-----------------------------------------------------------------------------
(* The topics end to end. *)

(* The right side of the definition of flat. *)
FlatDef(f, words) == IF words = <<>> THEN <<>> ELSE f[Front(words)] \o Last(words)

WordsOf == [words \in Seq(Hash) |-> Len(words)]

Flattened == INSTANCE Recursion WITH
  Dom <- Seq(Hash), measure <- WordsOf, Def <- FlatDef

(* flat obeys its definition. *)
LEMMA FlatEquation == \A words \in Seq(Hash) : flat[words] = FlatDef(flat, words)
  <1>1. Flattened!WellFounded
    <2>1. WordsOf \in [Seq(Hash) -> Nat]
      BY LenProperties DEF WordsOf
    <2>2. ASSUME NEW f, NEW g, NEW words \in Seq(Hash),
                 \A others \in Seq(Hash) :
                   WordsOf[others] < WordsOf[words] => f[others] = g[others]
          PROVE  FlatDef(f, words) = FlatDef(g, words)
      <3>1. CASE words = <<>>
        BY <3>1 DEF FlatDef
      <3>2. CASE words # <<>>
        <4>1. Front(words) \in Seq(Hash) /\ WordsOf[Front(words)] < WordsOf[words]
          <5>1. /\ Front(words) \in Seq(Hash)
                /\ Len(words) \in Nat /\ Len(Front(words)) \in Nat
                /\ Len(words) = Len(Front(words)) + 1
            BY <3>2, FrontOfSeq
          <5> QED
            BY <5>1 DEF WordsOf
        <4>2. f[Front(words)] = g[Front(words)]
          BY <2>2, <4>1
        <4> QED
          BY <3>2, <4>2 DEF FlatDef
      <3> QED
        BY <3>1, <3>2
    <2> QED
      BY <2>1, <2>2 DEF Flattened!WellFounded
  <1>2. flat = CHOOSE f : f = [words \in Seq(Hash) |-> FlatDef(f, words)]
    BY DEF flat, FlatDef
  <1>3. flat = [words \in Seq(Hash) |-> FlatDef(flat, words)]
    BY <1>1, <1>2, NaturalInduction, Flattened!Defined DEF Flattened!Inductive
  <1> QED
    BY <1>3

(* Words make bytes, a word of them each. *)
LEMMA FlatBytes ==
  ASSUME NEW words \in Seq(Hash)
  PROVE  flat[words] \in Seq(Byte) /\ Len(flat[words]) = WordLen * Len(words)
  <1> DEFINE S == {ws \in Seq(Hash) : /\ flat[ws] \in Seq(Byte)
                                      /\ Len(flat[ws]) = WordLen * Len(ws)}
  <1>0. WordLen \in Nat
    BY WordAssumption
  <1>1. <<>> \in S
    <2>1. <<>> \in Seq(Hash) /\ <<>> \in Seq(Byte) /\ Len(<<>>) = 0
      BY EmptySeq
    <2>2. flat[<<>>] = <<>>
      BY <2>1, FlatEquation DEF FlatDef
    <2>3. WordLen * 0 = 0
      BY <1>0
    <2>4. flat[<<>>] \in Seq(Byte) /\ Len(flat[<<>>]) = WordLen * Len(<<>>)
      BY <2>1, <2>2, <2>3
    <2> QED
      BY <2>1, <2>4
  <1>2. ASSUME NEW ws \in Seq(Hash), NEW w \in Hash, ws \in S
        PROVE  Append(ws, w) \in S
    <2> DEFINE more == Append(ws, w)
    <2>1. /\ more \in Seq(Hash) /\ more # <<>> /\ Front(more) = ws /\ Last(more) = w
          /\ Len(more) = Len(ws) + 1 /\ Len(ws) \in Nat
      BY FrontOfAppend, AppendProperties, LenProperties
    <2> HIDE DEF more
    <2>2. flat[more] = flat[ws] \o w
      BY <2>1, FlatEquation DEF FlatDef
    <2>3. w \in Seq(Byte) /\ Len(w) = WordLen
      BY <1>0 DEF Hash
    <2>4. flat[ws] \in Seq(Byte) /\ Len(flat[ws]) = WordLen * Len(ws)
      BY <1>2
    <2>5. flat[ws] \o w \in Seq(Byte) /\ Len(flat[ws] \o w) = WordLen * Len(ws) + WordLen
      BY <2>3, <2>4, ConcatProperties
    <2>6. WordLen * Len(ws) + WordLen = WordLen * (Len(ws) + 1)
      BY <1>0, <2>1
    <2> QED
      BY <2>1, <2>2, <2>5, <2>6 DEF more
  <1>3. Seq(Hash) \subseteq S
    <2> HIDE DEF S
    <2> QED BY <1>1, <1>2, SeqInduction
  <1> QED
    BY <1>3

-----------------------------------------------------------------------------
(* One call of the decoder. *)

(* A call that returned Ok had come to the end of its types. *)
Concluded == status = "Ok" => Len(stack) = 1 /\ Top.next > Top.count

(* v has a token of its kind for each of these types. *)
IsRead(v, ts) == /\ v = [i \in 1..Len(ts) |-> v[i]]
                 /\ \A i \in 1..Len(ts) : v[i].kind = ts[i].kind

(* The invariants of the decoder hold before a call has begun. *)
LEMMA CallBegins ==
  ASSUME NEW ts \in Seq(ParamTypes), NEW d \in Seq(Byte), 2 * Len(d) < UsizeSize,
         validate \in BOOLEAN, CallDecode(ts, d)
  PROVE  TInv' /\ Concluded'
  <1>1. /\ types' \in Seq(ParamTypes) /\ data' \in Seq(Byte) /\ 2 * Len(data') < UsizeSize
        /\ validate' \in BOOLEAN /\ stack' = <<>> /\ acc' = <<>> /\ status' = "start"
    BY DEF CallDecode
  <1>2. stack' \in Seq(Frame) /\ DOMAIN stack' = {}
    BY <1>1, EmptySeq
  <1>3. acc' = [k \in DOMAIN stack' |-> acc[k]'] /\ DOMAIN acc' = {}
    BY <1>1, <1>2
  <1>4. TypeOK'
    BY <1>1, <1>2, <1>3 DEF TypeOK
  <1>5. StackOK' /\ NoPanic' /\ DataFits' /\ TypedCalls' /\ Concluded'
    BY <1>1, <1>2 DEF StackOK, NoPanic, DataFits, TypedCalls, Concluded
  <1> QED
    BY <1>4, <1>5 DEF TInv, IInv

(* They hold after each of its steps. *)
LEMMA CallGoesOn ==
  ASSUME Wide, TInv, Concluded, [Next]_vars
  PROVE  TInv' /\ Concluded'
  <1>1. TInv' /\ IInv
    BY StepTyped DEF TInv
  <1>2. ASSUME status' = "Ok"
        PROVE  Completing \/ (status = "Ok" /\ UNCHANGED stack)
    <2>1. CASE Beginning       BY <1>2, <2>1 DEF Beginning
    <2>2. CASE Failing         BY <1>2, <2>2 DEF Failing, Return
    <2>3. CASE Pushing         BY <1>2, <2>3 DEF Pushing, Deliver
    <2>4. CASE Opening         BY <1>2, <2>4 DEF Opening, Open
    <2>5. CASE Leave           BY <1>2, <2>5 DEF Leave
    <2>6. CASE UNCHANGED vars  BY <1>2, <2>6 DEF vars
    <2> QED
      BY <1>1, <2>1, <2>2, <2>3, <2>4, <2>5, <2>6, StepShape
  <1>3. Concluded'
    BY <1>2 DEF Concluded, Completing, Top
  <1> QED
    BY <1>1, <1>3

(* What it returns are tokens of its types. *)
LEMMA CallReturns ==
  ASSUME TInv, Concluded, status = "Ok"
  PROVE  IsRead(acc[1], types) /\ types \in Seq(ParamTypes)
  <1>1. Len(stack) = 1 /\ Top.next > Top.count /\ Top = stack[1] /\ 1 \in DOMAIN stack
    <2>1. stack \in Seq(Frame)
      BY DEF TInv, IInv, TypeOK
    <2>2. Len(stack) = 1 /\ Top.next > Top.count
      BY DEF Concluded
    <2>3. DOMAIN stack = 1..1
      BY <2>1, <2>2, LenProperties
    <2>4. Top = stack[1]
      BY <2>2 DEF Top
    <2> QED
      BY <2>2, <2>3, <2>4
  <1> DEFINE f == stack[1]
  <1>2. f \in Frame /\ FrameOK(f) /\ f.kind = "Params" /\ f.elems = types
        /\ FilledBy(f, acc[1]) /\ types \in Seq(ParamTypes)
    <2>1. stack \in Seq(Frame) /\ StackOK /\ TypedCalls /\ types \in Seq(ParamTypes)
      BY DEF TInv, IInv, TypeOK
    <2>2. stack[1] \in Frame /\ stack # <<>>
      BY <1>1, <2>1, ElementOfSeq, LenProperties
    <2>3. FrameOK(stack[1]) /\ stack[1].kind = "Params"
      BY <1>1, <2>1, <2>2 DEF StackOK
    <2>4. stack[1].elems = types /\ FilledBy(stack[1], acc[1])
      BY <1>1, <2>1, <2>2 DEF TypedCalls
    <2> QED
      BY <2>1, <2>2, <2>3, <2>4
  <1> HIDE DEF f
  <1>3. f.next \in Nat /\ f.count \in Nat /\ Len(types) = f.count
    BY <1>2, FrameFields DEF FrameOK
  <1>4. f.next - 1 = Len(types)
    BY <1>1, <1>2, <1>3 DEF FrameOK, f
  <1>5. \A i : ElemAt(f, i) = types[i]
    BY <1>2 DEF ElemAt
  <1> QED
    BY <1>2, <1>4, <1>5 DEF FilledBy, IsRead


-----------------------------------------------------------------------------
(* The tokens get their names back. *)

(* The kind of the token that parse_log returns for a parameter. *)
Shown(p) == IF p.indexed /\ ~IsValue(p.kind) THEN "FixedBytes" ELSE p.kind.kind

(* The types of the topics and of the data are types in play. *)
LEMMA TypesRead ==
  ASSUME event.inputs \in Seq(EventParam)
  PROVE  /\ topic_types(event) \in Seq(ParamTypes) /\ data_types(event) \in Seq(ParamTypes)
         /\ Len(topic_types(event)) = Len(indexed_params(event, TRUE))
         /\ Len(data_types(event)) = Len(indexed_params(event, FALSE))
  <1> DEFINE ins  == indexed_params(event, TRUE)
             outs == indexed_params(event, FALSE)
  <1>1. ins \in Seq(EventParam) /\ outs \in Seq(EventParam)
    BY SplitParts DEF indexed_params
  <1>2. /\ Len(ins) \in Nat /\ DOMAIN ins = 1..Len(ins)
        /\ Len(outs) \in Nat /\ DOMAIN outs = 1..Len(outs)
    BY <1>1, LenProperties
  <1>5. topic_types(event) = [i \in 1..Len(ins) |-> convert_topic_param_type(ins[i].kind)]
    BY <1>2 DEF topic_types
  <1>6. data_types(event) = [i \in 1..Len(outs) |-> outs[i].kind]
    BY <1>2 DEF data_types, KindsOf
  <1> HIDE DEF ins, outs
  <1>3. \A i \in 1..Len(ins) : ins[i].kind \in ParamTypes
    <2>1. \A i \in 1..Len(ins) : ins[i] \in EventParam
      BY <1>1, ElementOfSeq
    <2> QED
      BY <2>1 DEF EventParam
  <1>4. \A i \in 1..Len(outs) : outs[i].kind \in ParamTypes
    <2>1. \A i \in 1..Len(outs) : outs[i] \in EventParam
      BY <1>1, ElementOfSeq
    <2> QED
      BY <2>1 DEF EventParam
  <1>7. \A i \in 1..Len(ins) : convert_topic_param_type(ins[i].kind) \in ParamTypes
    BY <1>3, TopicAssumption DEF convert_topic_param_type
  <1>8. /\ topic_types(event) \in Seq(ParamTypes) /\ data_types(event) \in Seq(ParamTypes)
        /\ Len(topic_types(event)) = Len(ins) /\ Len(data_types(event)) = Len(outs)
    BY <1>2, <1>4, <1>5, <1>6, <1>7
  <1> QED
    BY <1>8 DEF ins, outs

(* A token that was read for a parameter has the kind that is shown. *)
LEMMA TopicShown ==
  ASSUME event.inputs \in Seq(EventParam),
         NEW i \in DOMAIN indexed_params(event, TRUE)
  PROVE  topic_types(event)[i].kind = Shown(indexed_params(event, TRUE)[i])
  <1> DEFINE ins == indexed_params(event, TRUE)
             p   == ins[i]
  <1>1. ins \in Seq(EventParam) /\ Range(ins) = {q \in Range(event.inputs) : q.indexed = TRUE}
    BY SplitParts DEF indexed_params
  <1>2. p \in EventParam /\ p \in Range(ins)
    BY <1>1, ElementOfSeq, LenProperties DEF Range
  <1>3. p.indexed /\ p.kind.kind \in Kinds
    BY <1>1, <1>2, ParamTypesAssumption DEF EventParam
  <1>4. topic_types(event)[i] = convert_topic_param_type(p.kind)
    BY DEF topic_types
  <1>5. FixedBytesT(WordLen).kind = "FixedBytes"
    BY DEF FixedBytesT, ParamType
  <1> HIDE DEF p, ins
  <1>6. convert_topic_param_type(p.kind).kind = Shown(p)
    BY <1>3, <1>5 DEF convert_topic_param_type, Shown, IsValue, Kinds
  <1> QED
    BY <1>4, <1>6 DEF p, ins

(* So has one that was read from the data. *)
LEMMA DataShown ==
  ASSUME event.inputs \in Seq(EventParam),
         NEW i \in DOMAIN indexed_params(event, FALSE)
  PROVE  data_types(event)[i].kind = Shown(indexed_params(event, FALSE)[i])
  <1> DEFINE outs == indexed_params(event, FALSE)
             p    == outs[i]
  <1>1. outs \in Seq(EventParam) /\ Range(outs) = {q \in Range(event.inputs) : q.indexed = FALSE}
    BY SplitParts DEF indexed_params
  <1>2. p \in Range(outs)
    BY <1>1, LenProperties DEF Range
  <1>3. ~p.indexed
    BY <1>1, <1>2
  <1>4. data_types(event)[i] = p.kind
    BY DEF data_types, KindsOf
  <1> QED
    BY <1>3, <1>4 DEF Shown

(* names and tokens, paired, give each of params a token of the kind that  *)
(* is shown.                                                               *)
Paired(pairs, params) ==
  /\ pairs = [i \in 1..Len(pairs) |-> pairs[i]] /\ Len(pairs) \in Nat
  /\ \A i \in DOMAIN params : \E k \in DOMAIN pairs : pairs[k][1] = params[i].name
  /\ \A k \in DOMAIN pairs : \E i \in DOMAIN params :
       pairs[k][1] = params[i].name /\ pairs[k][2].kind = Shown(params[i])

(* The pairs of one of the two zips. *)
LEMMA ZipPaired ==
  ASSUME NEW params \in Seq(EventParam), NEW ts, Len(ts) = Len(params),
         \A i \in DOMAIN params : ts[i].kind = Shown(params[i]),
         NEW v, IsRead(v, ts)
  PROVE  Paired(named(params, v), params)
  <1>1. Len(params) \in Nat /\ DOMAIN params = 1..Len(params)
    BY LenProperties
  <1>2. v = [i \in 1..Len(params) |-> v[i]] /\ \A i \in 1..Len(params) : v[i].kind = Shown(params[i])
    BY <1>1 DEF IsRead
  <1>3. DOMAIN v = 1..Len(params)
    BY <1>2
  <1> DEFINE n == Len(params)
             pairs == [i \in 1..n |-> <<params[i].name, v[i]>>]
  <1>4. named(params, v) = pairs
    BY <1>1, <1>3 DEF named
  <1>5. Len(pairs) = n /\ DOMAIN pairs = 1..n
    BY <1>1
  <1>6. \A i \in 1..n : pairs[i][1] = params[i].name /\ pairs[i][2] = v[i]
    OBVIOUS
  <1> HIDE DEF pairs
  <1>7. pairs = [i \in 1..Len(pairs) |-> pairs[i]]
    BY <1>5 DEF pairs
  <1> HIDE DEF n
  <1>8. n \in Nat /\ DOMAIN params = 1..n /\ \A i \in 1..n : v[i].kind = Shown(params[i])
    BY <1>1, <1>2 DEF n
  <1>9. Paired(pairs, params)
    BY <1>5, <1>6, <1>7, <1>8 DEF Paired
  <1> QED
    BY <1>4, <1>9

(* Both zips, one behind the other. *)
LEMMA ChainPaired ==
  ASSUME event.inputs \in Seq(EventParam),
         NEW p1, NEW p2,
         Paired(p1, indexed_params(event, TRUE)), Paired(p2, indexed_params(event, FALSE))
  PROVE  Paired(p1 \o p2, event.inputs)
  <1> DEFINE part(b) == indexed_params(event, b)
             n == Len(p1)
             m == Len(p2)
             all == p1 \o p2
  <1>1. \A b \in BOOLEAN : part(b) \in Seq(EventParam)
                           /\ Range(part(b)) = {p \in Range(event.inputs) : p.indexed = b}
    BY SplitParts DEF indexed_params
  <1>2. /\ p1 = [i \in 1..n |-> p1[i]] /\ p2 = [i \in 1..m |-> p2[i]]
        /\ n \in Nat /\ m \in Nat
    BY DEF Paired
  <1>3. DOMAIN p1 = 1..n /\ DOMAIN p2 = 1..m
    BY <1>2
  <1>4. all = [k \in 1..(n + m) |-> IF k <= n THEN p1[k] ELSE p2[k - n]]
    <2> DEFINE T == {p1[i] : i \in 1..n} \cup {p2[i] : i \in 1..m}
    <2>1. p1 \in Seq(T) /\ p2 \in Seq(T)
      BY <1>2, IsASeq
    <2> HIDE DEF T
    <2>2. /\ all \in Seq(T) /\ Len(all) = n + m
          /\ \A k \in 1..(n + m) : all[k] = IF k <= n THEN p1[k] ELSE p2[k - n]
      BY <2>1, ConcatProperties
    <2> HIDE DEF all, n, m
    <2>3. all = [k \in 1..(n + m) |-> all[k]]
      BY <2>2
    <2> QED
      BY <2>2, <2>3
  <1>5. Len(all) = n + m /\ DOMAIN all = 1..(n + m)
    BY <1>2, <1>4
  <1>6. \A k \in 1..n : k \in 1..(n + m) /\ all[k] = p1[k]
    BY <1>2, <1>4
  <1>7. \A k \in 1..m : n + k \in 1..(n + m) /\ all[n + k] = p2[k]
    <2> SUFFICES ASSUME NEW k \in 1..m
                 PROVE  n + k \in 1..(n + m) /\ all[n + k] = p2[k]
      OBVIOUS
    <2>1. n + k \in 1..(n + m) /\ ~(n + k <= n) /\ (n + k) - n = k
      BY <1>2
    <2> QED
      BY <1>4, <2>1
  <1>8. \A k \in 1..(n + m) : k \in 1..n \/ (k - n \in 1..m /\ k = n + (k - n))
    BY <1>2
  <1> HIDE DEF all, n, m
  <1>9. ASSUME NEW i \in DOMAIN event.inputs
        PROVE  \E k \in DOMAIN all : all[k][1] = event.inputs[i].name
    <2> DEFINE p == event.inputs[i]
    <2>1. p \in EventParam /\ p \in Range(event.inputs)
      BY ElementOfSeq, LenProperties DEF Range
    <2>0. p = event.inputs[i]
      OBVIOUS
    <2> HIDE DEF p
    <2>2. p.indexed \in BOOLEAN /\ p \in Range(part(p.indexed))
      BY <1>1, <2>1 DEF EventParam
    <2>3. PICK j \in DOMAIN part(p.indexed) : part(p.indexed)[j] = p
      BY <2>2 DEF Range
    <2>4. CASE p.indexed = TRUE
      <3>0. j \in DOMAIN indexed_params(event, TRUE) /\ indexed_params(event, TRUE)[j] = p
        BY <2>3, <2>4
      <3>1. PICK k \in DOMAIN p1 : p1[k][1] = p.name
        BY <3>0 DEF Paired
      <3> QED
        BY <1>3, <1>5, <1>6, <2>0, <3>1
    <2>5. CASE p.indexed = FALSE
      <3>0. j \in DOMAIN indexed_params(event, FALSE) /\ indexed_params(event, FALSE)[j] = p
        BY <2>3, <2>5
      <3>1. PICK k \in DOMAIN p2 : p2[k][1] = p.name
        BY <3>0 DEF Paired
      <3> QED
        BY <1>3, <1>5, <1>7, <2>0, <3>1
    <2> QED
      BY <2>0, <2>2, <2>4, <2>5
  <1>10. ASSUME NEW b \in BOOLEAN, NEW j \in DOMAIN part(b)
         PROVE  \E i \in DOMAIN event.inputs : event.inputs[i] = part(b)[j]
    <2>1. part(b)[j] \in Range(part(b))
      BY DEF Range
    <2> QED
      BY <1>1, <2>1 DEF Range
  <1>11. ASSUME NEW k \in DOMAIN all
         PROVE  \E i \in DOMAIN event.inputs :
                  all[k][1] = event.inputs[i].name /\ all[k][2].kind = Shown(event.inputs[i])
    <2>1. CASE k \in 1..n
      <3>1. all[k] = p1[k] /\ k \in DOMAIN p1
        BY <1>3, <1>6, <2>1
      <3>2. PICK j \in DOMAIN part(TRUE) : p1[k][1] = part(TRUE)[j].name
                                           /\ p1[k][2].kind = Shown(part(TRUE)[j])
        BY <3>1 DEF Paired
      <3>3. PICK i \in DOMAIN event.inputs : event.inputs[i] = part(TRUE)[j]
        BY <1>10
      <3> QED
        BY <3>1, <3>2, <3>3
    <2>2. CASE k - n \in 1..m /\ k = n + (k - n)
      <3>1. all[k] = p2[k - n] /\ k - n \in DOMAIN p2
        BY <1>3, <1>7, <2>2
      <3>2. PICK j \in DOMAIN part(FALSE) : p2[k - n][1] = part(FALSE)[j].name
                                            /\ p2[k - n][2].kind = Shown(part(FALSE)[j])
        BY <3>1 DEF Paired
      <3>3. PICK i \in DOMAIN event.inputs : event.inputs[i] = part(FALSE)[j]
        BY <1>10
      <3> QED
        BY <3>1, <3>2, <3>3
    <2> QED
      BY <1>5, <1>8, <2>1, <2>2
  <1>12. all = [i \in 1..Len(all) |-> all[i]] /\ Len(all) \in Nat
    BY <1>2, <1>4, <1>5
  <1> QED
    BY <1>9, <1>11, <1>12 DEF Paired, all


(* Every parameter whose name is in the pairs gets a token of that name. *)
LEMMA ParamsFound ==
  ASSUME event.inputs \in Seq(EventParam),
         NEW pairs, pairs = [k \in 1..Len(pairs) |-> pairs[k]], Len(pairs) \in Nat,
         \A i \in DOMAIN event.inputs :
           \E k \in DOMAIN pairs : pairs[k][1] = event.inputs[i].name
  PROVE  LET inputs == event.inputs
             tokens == named_tokens(pairs)
         IN  /\ decoded_params(event, tokens) =
                  Ok([i \in DOMAIN inputs |-> LogParam(inputs[i].name, tokens[inputs[i].name])])
             /\ \A i \in DOMAIN inputs : \E k \in DOMAIN pairs :
                  pairs[k][1] = inputs[i].name /\ tokens[inputs[i].name] = pairs[k][2]
  <1> DEFINE inputs == event.inputs
             tokens == named_tokens(pairs)
             Of(name) == {k \in DOMAIN pairs : pairs[k][1] = name}
  <1>1. DOMAIN tokens = {pairs[k][1] : k \in DOMAIN pairs}
    BY DEF named_tokens
  <1>2. DOMAIN pairs = 1..Len(pairs)
    OBVIOUS
  <1>3. ASSUME NEW i \in DOMAIN inputs
        PROVE  inputs[i].name \in DOMAIN tokens
    BY <1>1
  <1>4. ASSUME NEW i \in DOMAIN inputs
        PROVE  \E k \in Of(inputs[i].name) : tokens[inputs[i].name] = pairs[k][2]
    <2> DEFINE name == inputs[i].name
               IsLast(k) == /\ pairs[k][1] = name
                            /\ \A j \in DOMAIN pairs : pairs[j][1] = name => j <= k
               last == CHOOSE k \in DOMAIN pairs : IsLast(k)
    <2>1. Of(name) # {} /\ Of(name) \subseteq 1..Len(pairs)
      BY <1>2
    <2>2. PICK k \in Of(name) : \A j \in Of(name) : j <= k
      <3> DEFINE T == Of(name)
      <3> HIDE DEF T
      <3> QED BY <1>2, <2>1, GreatestNumber DEF T
    <2>3. \E k2 \in DOMAIN pairs : IsLast(k2)
      BY <2>2
    <2>4. last \in DOMAIN pairs /\ IsLast(last)
      BY <2>3
    <2>5. tokens[name] = pairs[last][2]
      BY <1>1, <1>3 DEF named_tokens
    <2> HIDE DEF last
    <2> QED
      BY <2>4, <2>5
  <1>5. decoded_params(event, tokens) =
          Ok([i \in DOMAIN inputs |-> LogParam(inputs[i].name, tokens[inputs[i].name])])
    BY <1>3 DEF decoded_params
  <1> HIDE DEF tokens
  <1> QED
    BY <1>4, <1>5 DEF tokens

(* The parameters that are put together from both zips: none is missing,   *)
(* and those of distinct names are of their kinds.                         *)
LEMMA ParamsNamed ==
  ASSUME event.inputs \in Seq(EventParam), NEW pairs, Paired(pairs, event.inputs)
  PROVE  LET res == decoded_params(event, named_tokens(pairs))
         IN  /\ res.status = "Ok" /\ Len(res.val) = Len(event.inputs)
             /\ DOMAIN res.val = DOMAIN event.inputs
             /\ \A i \in DOMAIN event.inputs : res.val[i].name = event.inputs[i].name
             /\ DistinctNames =>
                  \A i \in DOMAIN event.inputs :
                    res.val[i].value.kind = Shown(event.inputs[i])
  <1> DEFINE inputs == event.inputs
             tokens == named_tokens(pairs)
             val    == [i \in DOMAIN inputs |-> LogParam(inputs[i].name, tokens[inputs[i].name])]
  <1>1. /\ decoded_params(event, tokens) = Ok(val)
        /\ \A i \in DOMAIN inputs : \E k \in DOMAIN pairs :
             pairs[k][1] = inputs[i].name /\ tokens[inputs[i].name] = pairs[k][2]
    <2>1. /\ pairs = [k \in 1..Len(pairs) |-> pairs[k]] /\ Len(pairs) \in Nat
          /\ \A i \in DOMAIN event.inputs :
               \E k \in DOMAIN pairs : pairs[k][1] = event.inputs[i].name
      BY DEF Paired
    <2> QED
      BY <2>1, ParamsFound, Zenon
  <1>2. DOMAIN inputs = 1..Len(inputs) /\ Len(inputs) \in Nat
    BY LenProperties
  <1>3. DOMAIN val = DOMAIN inputs /\ Len(val) = Len(inputs)
    BY <1>2
  <1>4. \A i \in DOMAIN inputs : val[i].name = inputs[i].name
                                 /\ val[i].value = tokens[inputs[i].name]
    BY DEF LogParam
  <1>5. ASSUME DistinctNames, NEW i \in DOMAIN inputs
        PROVE  val[i].value.kind = Shown(inputs[i])
    <2>1. PICK k \in DOMAIN pairs :
            pairs[k][1] = inputs[i].name /\ tokens[inputs[i].name] = pairs[k][2]
      BY <1>1
    <2>2. PICK j \in DOMAIN inputs :
            pairs[k][1] = inputs[j].name /\ pairs[k][2].kind = Shown(inputs[j])
      BY DEF Paired
    <2>3. j = i
      BY <1>5, <2>1, <2>2 DEF DistinctNames
    <2> QED
      BY <1>4, <2>1, <2>2, <2>3
  <1> DEFINE res == decoded_params(event, tokens)
  <1> HIDE DEF val
  <1>6. res.status = "Ok" /\ res.val = val
    BY <1>1 DEF Ok
  <1> HIDE DEF res
  <1>7. /\ res.status = "Ok" /\ Len(res.val) = Len(inputs) /\ DOMAIN res.val = DOMAIN inputs
        /\ \A i \in DOMAIN inputs : res.val[i].name = inputs[i].name
        /\ DistinctNames => \A i \in DOMAIN inputs : res.val[i].value.kind = Shown(inputs[i])
    BY <1>3, <1>4, <1>5, <1>6
  <1> QED
    BY <1>7 DEF res

-----------------------------------------------------------------------------
(* The invariant: the decoder is in a call on the types that the event     *)
(* tells, and the topics were accounted for before the data is decoded.    *)

CallOK ==
  /\ event.inputs \in Seq(EventParam) /\ event.anonymous \in BOOLEAN
  /\ log.topics \in Seq(Hash) /\ 2 * (WordLen * Len(log.topics)) < UsizeSize
  /\ log.data \in Seq(Byte) /\ 2 * Len(log.data) < UsizeSize
  /\ validate \in BOOLEAN

TopicsRead ==
  /\ IsRead(topic_tokens, topic_types(event))
  /\ Len(log.topics) = to_skip(event) + Len(indexed_params(event, TRUE))

PInv ==
  /\ CallOK
  /\ phase \in {"log", "topics", "data", "done"}
  /\ phase # "done" => parsed = NoResult
  /\ phase \in {"topics", "data"} => TInv /\ Concluded
  /\ phase = "topics" => types = topic_types(event)
  /\ phase = "data" => types = data_types(event) /\ TopicsRead
  /\ phase = "done" => ParseNeverPanics /\ ParamsFollowInputs

(* The bytes of the topics that are read are a slice. *)
LEMMA TopicsFlat ==
  ASSUME CallOK, OwnSignature
  PROVE  /\ flat_topics(event, log) \in Seq(Byte)
         /\ 2 * Len(flat_topics(event, log)) < UsizeSize
         /\ to_skip(event) \in {0, 1} /\ to_skip(event) <= Len(log.topics)
  <1> DEFINE skip == to_skip(event)
             n    == Len(log.topics)
             rest == SubSeq(log.topics, skip + 1, n)
  <1>1. n \in Nat /\ log.topics \in Seq(Hash) /\ 2 * (WordLen * n) < UsizeSize
    BY LenProperties DEF CallOK
  <1>2. skip \in {0, 1} /\ skip <= n
    <2>1. ~event.anonymous => n > 0
      BY <1>1, EmptySeq DEF OwnSignature
    <2> QED
      BY <1>1, <2>1 DEF to_skip, CallOK
  <1> HIDE DEF skip
  <1>3. rest \in Seq(Hash) /\ Len(rest) <= n
    <2>1. \A i \in (skip + 1)..n : log.topics[i] \in Hash
      BY <1>1, <1>2, ElementOfSeq
    <2>2. skip + 1 \in Int /\ n \in Int /\ \A i \in (skip + 1)..n : i \in 1..n
      BY <1>1, <1>2
    <2> HIDE DEF n
    <2>3. rest \in Seq(Hash) /\ Len(rest) = IF skip + 1 <= n THEN n - (skip + 1) + 1 ELSE 0
      BY <1>1, <1>2, <2>1, <2>2, SubSeqProperties
    <2> QED
      BY <1>1, <1>2, <2>3
  <1> HIDE DEF rest
  <1>4. flat[rest] \in Seq(Byte) /\ Len(flat[rest]) = WordLen * Len(rest) /\ Len(rest) \in Nat
    BY <1>3, FlatBytes, LenProperties
  <1> HIDE DEF n
  <1>5. WordLen * Len(rest) <= WordLen * n
    <2>1. WordLen \in Nat /\ n - Len(rest) \in Nat
      BY <1>1, <1>3, <1>4, WordAssumption
    <2>2. WordLen * (n - Len(rest)) \in Nat
      BY <2>1
    <2>3. WordLen * (n - Len(rest)) = WordLen * n - WordLen * Len(rest)
      BY <1>1, <1>4, <2>1
    <2>4. WordLen * n \in Nat /\ WordLen * Len(rest) \in Nat
      BY <1>1, <1>4, <2>1
    <2> QED
      BY <2>2, <2>3, <2>4
  <1>6. 2 * Len(flat[rest]) < UsizeSize
    <2>1. WordLen * n \in Nat /\ WordLen * Len(rest) \in Nat /\ UsizeSize \in Nat
      BY <1>1, <1>4, WordAssumption, RadixFacts
    <2> QED
      BY <1>1, <1>4, <1>5, <2>1
  <1>7. flat_topics(event, log) = flat[rest]
    BY DEF flat_topics, rest, n, skip
  <1> QED
    BY <1>2, <1>4, <1>6, <1>7 DEF skip, n


-----------------------------------------------------------------------------
(* Each step keeps it. *)

(* Nothing has happened when parse_log is called. *)
LEMMA ParserStarts == ParserInit => PInv
  <1> SUFFICES ASSUME ParserInit PROVE PInv
    OBVIOUS
  <1>1. CallOK
    BY SessionsAssumption DEF ParserInit, CallOK
  <1> QED
    BY <1>1 DEF ParserInit, PInv

(* A call that ends with an Err. *)
LEMMA FailKeeps ==
  ASSUME PInv, Fail("Err")
  PROVE  PInv'
  <1>1. /\ parsed'.status = "Err" /\ phase' = "done"
        /\ UNCHANGED <<event, log, validate>>
    BY DEF Fail, vars
  <1>2. CallOK'
    BY <1>1 DEF PInv, CallOK
  <1>3. ParseNeverPanics' /\ ParamsFollowInputs'
    BY <1>1 DEF ParseNeverPanics, ParamsFollowInputs
  <1> QED
    BY <1>1, <1>2, <1>3 DEF PInv

(* A decoder that has not returned Ok has returned Err. *)
LEMMA OnlyErr ==
  ASSUME PInv, phase \in {"topics", "data"}, status \in Outcomes, status # "Ok"
  PROVE  status = "Err"
  BY DEF PInv, TInv, IInv, NoPanic, Outcomes

(* The topics are decoded. *)
LEMMA ParseLogKeeps ==
  ASSUME PInv, ParseLog
  PROVE  PInv'
  <1>1. CASE ~OwnSignature /\ Fail("Err")
    BY <1>1, FailKeeps
  <1>2. CASE /\ OwnSignature
             /\ CallDecode(topic_types(event), flat_topics(event, log))
             /\ phase' = "topics"
             /\ UNCHANGED <<event, log, topic_tokens, parsed>>
    <2>1. CallOK /\ event.inputs \in Seq(EventParam) /\ validate \in BOOLEAN
          /\ parsed = NoResult
      BY DEF PInv, CallOK, ParseLog
    <2>2. TInv' /\ Concluded'
      BY <1>2, <2>1, CallBegins, TypesRead, TopicsFlat
    <2>3. types' = topic_types(event) /\ validate' = validate
      BY <1>2 DEF CallDecode
    <2>4. CallOK'
      BY <1>2, <2>1, <2>3 DEF CallOK
    <2>5. (types = topic_types(event))'
      BY <1>2, <2>3
    <2> QED
      BY <1>2, <2>1, <2>2, <2>4, <2>5 DEF PInv
  <1> QED
    BY <1>1, <1>2 DEF ParseLog

(* The decoder goes on. *)
LEMMA DecoderStepKeeps ==
  ASSUME Wide, PInv, phase \in {"topics", "data"}, [Next]_vars, UNCHANGED logVars
  PROVE  PInv'
  <1>1. TInv' /\ Concluded'
    BY CallGoesOn DEF PInv
  <1>2. UNCHANGED <<event, log, phase, topic_tokens, parsed>>
    BY DEF logVars
  <1>3. types' = types /\ validate' = validate
    <2>1. CASE Next
      BY <2>1, SameQuestion
    <2>2. CASE UNCHANGED vars
      BY <2>2 DEF vars
    <2> QED
      BY <2>1, <2>2
  <1>4. CallOK'
    BY <1>2, <1>3 DEF PInv, CallOK
  <1>5. phase = "topics" => (types = topic_types(event))'
    BY <1>2, <1>3 DEF PInv
  <1>6. phase = "data" => (types = data_types(event))' /\ TopicsRead'
    BY <1>2, <1>3 DEF PInv, TopicsRead
  <1> QED
    BY <1>1, <1>2, <1>4, <1>5, <1>6 DEF PInv

(* The topics are accounted for, and the data is decoded. *)
LEMMA DecodeTopicsKeeps ==
  ASSUME PInv, DecodeTopics
  PROVE  PInv'
  <1>0. phase = "topics" /\ status \in Outcomes
    BY DEF DecodeTopics
  <1>1. CASE status # "Ok" /\ Fail(status)
    BY <1>0, <1>1, OnlyErr, FailKeeps
  <1>2. CASE status = "Ok" /\ ~Accounted(acc[1]) /\ Fail("Err")
    BY <1>2, FailKeeps
  <1>3. CASE /\ status = "Ok" /\ Accounted(acc[1])
             /\ topic_tokens' = acc[1]
             /\ CallDecode(data_types(event), log.data)
             /\ phase' = "data"
             /\ UNCHANGED <<event, log, parsed>>
    <2>1. /\ CallOK /\ event.inputs \in Seq(EventParam) /\ validate \in BOOLEAN
          /\ log.data \in Seq(Byte) /\ 2 * Len(log.data) < UsizeSize
          /\ parsed = NoResult /\ TInv /\ Concluded /\ types = topic_types(event)
      BY <1>0 DEF PInv, CallOK
    <2>2. TInv' /\ Concluded'
      BY <1>3, <2>1, CallBegins, TypesRead
    <2>3. types' = data_types(event) /\ validate' = validate
      BY <1>3 DEF CallDecode
    <2>4. CallOK'
      BY <1>3, <2>1, <2>3 DEF CallOK
    <2>5. IsRead(acc[1], topic_types(event))
      BY <1>3, <2>1, CallReturns
    <2>6. Len(log.topics) = to_skip(event) + Len(indexed_params(event, TRUE))
      <3>1. Len(acc[1]) = Len(topic_types(event))
        <4>1. Len(topic_types(event)) \in Nat
          BY <2>1, TypesRead, LenProperties
        <4> QED
          BY <2>5, <4>1 DEF IsRead
      <3>2. Len(topic_types(event)) = Len(indexed_params(event, TRUE))
        BY <2>1, TypesRead
      <3>3. Len(log.topics) \in Nat /\ to_skip(event) \in {0, 1}
        BY <2>1, LenProperties DEF CallOK, to_skip
      <3>4. Len(indexed_params(event, TRUE)) = Len(log.topics) - to_skip(event)
        BY <1>3, <3>1, <3>2 DEF Accounted
      <3> DEFINE n == Len(log.topics)
                 s == to_skip(event)
                 i == Len(indexed_params(event, TRUE))
      <3>5. n \in Nat /\ (s = 0 \/ s = 1) /\ i = n - s
        BY <3>3, <3>4
      <3> HIDE DEF n, s, i
      <3>6. n = s + i
        BY <3>5
      <3> QED
        BY <3>6 DEF n, s, i
    <2>7. (types = data_types(event))' /\ TopicsRead'
      BY <1>3, <2>3, <2>5, <2>6 DEF TopicsRead
    <2> QED
      BY <1>3, <2>1, <2>2, <2>4, <2>7 DEF PInv
  <1> QED
    BY <1>1, <1>2, <1>3 DEF DecodeTopics

(* The tokens are put together by name. *)
LEMMA DecodeDataKeeps ==
  ASSUME PInv, DecodeData
  PROVE  PInv'
  <1>0. phase = "data" /\ status \in Outcomes
    BY DEF DecodeData
  <1>1. CASE status # "Ok" /\ Fail(status)
    BY <1>0, <1>1, OnlyErr, FailKeeps
  <1> DEFINE ins  == indexed_params(event, TRUE)
             outs == indexed_params(event, FALSE)
             pairs == named(ins, topic_tokens) \o named(outs, acc[1])
  <1>2. CASE /\ status = "Ok"
             /\ parsed' = decoded_params(event, named_tokens(pairs))
             /\ phase' = "done"
             /\ UNCHANGED <<vars, event, log, topic_tokens>>
    <2>1. /\ CallOK /\ event.inputs \in Seq(EventParam) /\ TInv /\ Concluded
          /\ types = data_types(event) /\ TopicsRead
      BY <1>0 DEF PInv, CallOK
    <2>2. ins \in Seq(EventParam) /\ outs \in Seq(EventParam)
      BY <2>1, SplitParts DEF indexed_params
    <2>3. Paired(named(ins, topic_tokens), ins)
      <3>1. IsRead(topic_tokens, topic_types(event))
        BY <2>1 DEF TopicsRead
      <3>2. Len(topic_types(event)) = Len(ins)
        BY <2>1, TypesRead
      <3>3. \A i \in DOMAIN ins : topic_types(event)[i].kind = Shown(ins[i])
        BY <2>1, TopicShown
      <3> HIDE DEF ins
      <3> QED
        BY <2>2, <3>1, <3>2, <3>3, ZipPaired
    <2>4. Paired(named(outs, acc[1]), outs)
      <3>1. IsRead(acc[1], data_types(event))
        BY <1>2, <2>1, CallReturns
      <3>2. Len(data_types(event)) = Len(outs)
        BY <2>1, TypesRead
      <3>3. \A i \in DOMAIN outs : data_types(event)[i].kind = Shown(outs[i])
        BY <2>1, DataShown
      <3> HIDE DEF outs
      <3> QED
        BY <2>2, <3>1, <3>2, <3>3, ZipPaired
    <2>5. Paired(pairs, event.inputs)
      BY <2>1, <2>3, <2>4, ChainPaired
    <2>6. event' = event /\ log' = log /\ validate' = validate
      BY <1>2 DEF vars
    <2>7. CallOK'
      BY <2>1, <2>6 DEF CallOK
    <2> HIDE DEF pairs
    <2>8. /\ parsed'.status = "Ok" /\ Len(parsed'.val) = Len(event.inputs)
          /\ DOMAIN parsed'.val = DOMAIN event.inputs
          /\ \A i \in DOMAIN event.inputs : parsed'.val[i].name = event.inputs[i].name
          /\ DistinctNames =>
               \A i \in DOMAIN event.inputs :
                 parsed'.val[i].value.kind = Shown(event.inputs[i])
      BY <1>2, <2>1, <2>5, ParamsNamed
    <2>9. ParseNeverPanics'
      BY <2>8 DEF ParseNeverPanics
    <2>10. ParamsFollowInputs'
      <3>1. DistinctNames' => DistinctNames
        BY <2>6 DEF DistinctNames
      <3>2. Len(log.topics) = to_skip(event) + Len(indexed_params(event, TRUE))
        BY <2>1 DEF TopicsRead
      <3>3. (to_skip(event) + Len(indexed_params(event, TRUE)))'
              = to_skip(event) + Len(indexed_params(event, TRUE))
        BY <2>6
      <3> QED
        BY <2>6, <2>8, <3>1, <3>2, <3>3 DEF ParamsFollowInputs, Shown
    <2> QED
      BY <1>2, <2>7, <2>9, <2>10 DEF PInv
  <1> QED
    BY <1>1, <1>2 DEF DecodeData

(* Every step does, in a call of parse_log on any log. *)
LEMMA StepParses == ASSUME Wide, PInv, [ParserNext]_parserVars PROVE PInv'
  <1>1. CASE ParseLog
    BY <1>1, ParseLogKeeps
  <1>2. CASE DecoderStep
    BY <1>2, DecoderStepKeeps DEF DecoderStep
  <1>3. CASE DecodeTopics
    BY <1>3, DecodeTopicsKeeps
  <1>4. CASE DecodeData
    BY <1>4, DecodeDataKeeps
  <1>5. CASE UNCHANGED parserVars
    <2>1. UNCHANGED vars /\ UNCHANGED logVars
      BY <1>5 DEF parserVars
    <2>2. CASE phase \in {"topics", "data"}
      BY <2>1, <2>2, DecoderStepKeeps
    <2>3. CASE phase \notin {"topics", "data"}
      BY <2>1, <2>3 DEF PInv, CallOK, logVars, vars, ParseNeverPanics, ParamsFollowInputs,
                        DistinctNames
    <2> QED
      BY <2>2, <2>3
  <1> QED
    BY <1>1, <1>2, <1>3, <1>4, <1>5 DEF ParserNext

(* PInv holds throughout. *)
LEMMA InductiveParser == ASSUME Wide PROVE ParserSpec => []PInv
  <1>1. PInv /\ [ParserNext]_parserVars => PInv'
    BY StepParses
  <1> QED
    BY <1>1, ParserStarts, PTL DEF ParserSpec

(* No log makes parse_log or parse_log_validate panic, whatever the event: *)
(* each name that is looked up among the decoded tokens is there, and the  *)
(* decoder panics neither on the topics end to end nor on the data.        *)
THEOREM LogNeverPanics == ASSUME Wide PROVE ParserSpec => []ParseNeverPanics
  <1>1. PInv => ParseNeverPanics
    BY DEF PInv, ParseNeverPanics, NoResult
  <1> QED
    BY <1>1, InductiveParser, PTL

(* What they return has one value for each parameter of the event, in the  *)
(* order of their declaration, of the parameter's kind, or bytes for a     *)
(* reference type in a topic; and every topic was read.                    *)
THEOREM ParsedFollowsInputs == ASSUME Wide PROVE ParserSpec => []ParamsFollowInputs
  <1>1. PInv => ParamsFollowInputs
    <2>1. PInv /\ phase # "done" => parsed.status = "none"
      BY DEF PInv, NoResult
    <2>2. PInv /\ phase = "done" => ParamsFollowInputs
      BY DEF PInv
    <2> QED
      BY <2>1, <2>2 DEF ParamsFollowInputs
  <1> QED
    BY <1>1, InductiveParser, PTL

-----------------------------------------------------------------------------
(* Rows laid end to end. *)

(* FlattenSeq is a value of a function that goes on from row to row. *)
LEMMA FlattenIs ==
  ASSUME NEW ss, NEW n \in Nat, n = Len(ss)
  PROVE  \E f : IsFlatten(f, ss, n) /\ FlattenSeq(ss) = IF n = 0 THEN ss ELSE f[n]
  <1> DEFINE f == CHOOSE g : IsFlatten(g, ss, Len(ss))
  <1>1. IsFlatten(f, ss, n)
    BY FlattenExists
  <1>2. FlattenSeq(ss) = IF Len(ss) = 0 THEN ss ELSE f[Len(ss)]
    BY DEF FlattenSeq, IsFlatten
  <1> HIDE DEF f
  <1> QED
    BY <1>1, <1>2

(* The values of that function only depend on the rows up to them. *)
LEMMA FlattenAgrees ==
  ASSUME NEW n \in Nat, NEW m \in Nat, n <= m, NEW ss, NEW tt,
         \A i \in 1..n : ss[i] = tt[i],
         NEW f, NEW g, IsFlatten(f, ss, n), IsFlatten(g, tt, m)
  PROVE  \A k \in 1..n : f[k] = g[k]
  <1> DEFINE S == {k \in Nat : k \in 1..n => f[k] = g[k]}
  <1>0. /\ \A i \in 1..n : f[i] = IF i = 1 THEN ss[i] ELSE f[i - 1] \o ss[i]
        /\ \A i \in 1..m : g[i] = IF i = 1 THEN tt[i] ELSE g[i - 1] \o tt[i]
    BY DEF IsFlatten
  <1>1. 0 \in S
    OBVIOUS
  <1>2. ASSUME NEW k \in Nat, k \in S
        PROVE  k + 1 \in S
    <2> SUFFICES ASSUME k + 1 \in 1..n PROVE f[k + 1] = g[k + 1]
      OBVIOUS
    <2> DEFINE i == k + 1
    <2>1. i \in 1..n /\ i \in 1..m /\ i - 1 = k
      OBVIOUS
    <2> HIDE DEF i
    <2>2. /\ f[i] = IF i = 1 THEN ss[i] ELSE f[i - 1] \o ss[i]
          /\ g[i] = IF i = 1 THEN tt[i] ELSE g[i - 1] \o tt[i]
          /\ ss[i] = tt[i]
      BY <1>0, <2>1
    <2>3. i # 1 => f[i - 1] = g[i - 1]
      <3>1. i # 1 => k \in 1..n
        BY <2>1
      <3> QED
        BY <1>2, <2>1, <3>1
    <2>4. f[i] = g[i]
      BY <2>2, <2>3
    <2> QED
      BY <2>4 DEF i
  <1> HIDE DEF S
  <1>3. Nat \subseteq S
    BY <1>1, <1>2, NaturalInduction
  <1> QED
    BY <1>3 DEF S

(* A row more comes behind the others. *)
LEMMA FlattenGrows ==
  ASSUME NEW S, NEW n \in Nat, NEW h, \A i \in 1..(n + 1) : h[i] \in Seq(S)
  PROVE  FlattenSeq([i \in 1..(n + 1) |-> h[i]])
           = FlattenSeq([i \in 1..n |-> h[i]]) \o h[n + 1]
  <1> DEFINE m  == n + 1
             ss == [i \in 1..n |-> h[i]]
             tt == [i \in 1..m |-> h[i]]
  <1>1. m \in Nat /\ m # 0 /\ n <= m /\ m - 1 = n /\ m \in 1..m /\ n = Len(ss) /\ m = Len(tt)
    OBVIOUS
  <1>2. /\ \A i \in 1..n : ss[i] = tt[i]
        /\ tt[m] = h[m] /\ h[m] \in Seq(S)
    OBVIOUS
  <1>3. n = 0 => ss = <<>>
    OBVIOUS
  <1> HIDE DEF m, ss, tt
  <1>4. PICK f : IsFlatten(f, ss, n) /\ FlattenSeq(ss) = IF n = 0 THEN ss ELSE f[n]
    BY <1>1, FlattenIs
  <1>5. PICK g : IsFlatten(g, tt, m) /\ FlattenSeq(tt) = IF m = 0 THEN tt ELSE g[m]
    BY <1>1, FlattenIs
  <1>6. g[m] = IF m = 1 THEN tt[m] ELSE g[m - 1] \o tt[m]
    BY <1>1, <1>5 DEF IsFlatten
  <1>7. CASE n = 0
    <2>1. m = 1
      BY <1>7 DEF m
    <2>2. FlattenSeq(tt) = h[m] /\ FlattenSeq(ss) = <<>>
      BY <1>1, <1>2, <1>3, <1>4, <1>5, <1>6, <1>7, <2>1
    <2>3. <<>> \o h[m] = h[m]
      <3> DEFINE row == h[m]
      <3>1. row \in Seq(S)
        BY <1>2
      <3> HIDE DEF row
      <3>2. <<>> \o row = row
        BY <3>1, ConcatEmptySeq
      <3> QED
        BY <3>2 DEF row
    <2>4. FlattenSeq(tt) = FlattenSeq(ss) \o h[m]
      BY <2>2, <2>3
    <2> QED
      BY <2>4 DEF m, ss, tt
  <1>8. CASE n # 0
    <2>1. m # 1 /\ n \in 1..n
      BY <1>1, <1>8
    <2>2. f[n] = g[n]
      <3>1. m \in Nat /\ n <= m /\ \A i \in 1..n : ss[i] = tt[i]
        BY <1>1, <1>2
      <3>2. IsFlatten(f, ss, n) /\ IsFlatten(g, tt, m)
        BY <1>4, <1>5
      <3>3. \A k \in 1..n : f[k] = g[k]
        BY <3>1, <3>2, FlattenAgrees, SMTT(30)
      <3> QED
        BY <2>1, <3>3
    <2>3. FlattenSeq(tt) = g[n] \o h[m] /\ FlattenSeq(ss) = f[n]
      BY <1>1, <1>2, <1>4, <1>5, <1>6, <1>8, <2>1
    <2>4. FlattenSeq(tt) = FlattenSeq(ss) \o h[m]
      BY <2>2, <2>3
    <2> QED
      BY <2>4 DEF m, ss, tt
  <1> QED
    BY <1>7, <1>8

(* No rows make no sequence. *)
LEMMA FlattenNone == ASSUME NEW h PROVE FlattenSeq([i \in 1..0 |-> h[i]]) = <<>>
  <1>1. [i \in 1..0 |-> h[i]] = <<>> /\ Len(<<>>) = 0
    OBVIOUS
  <1> QED
    BY <1>1 DEF FlattenSeq

(* flat lays words end to end as FlattenSeq does. *)
LEMMA FlatIsFlattened == \A words \in Seq(Hash) : flat[words] = FlattenSeq(words)
  <1> DEFINE S == {ws \in Seq(Hash) : flat[ws] = FlattenSeq(ws)}
  <1>1. <<>> \in S
    <2>1. <<>> \in Seq(Hash) /\ Len(<<>>) = 0
      BY EmptySeq
    <2>2. flat[<<>>] = <<>>
      BY <2>1, FlatEquation DEF FlatDef
    <2>3. FlattenSeq(<<>>) = <<>>
      BY <2>1 DEF FlattenSeq
    <2> QED
      BY <2>1, <2>2, <2>3
  <1>2. ASSUME NEW ws \in Seq(Hash), NEW w \in Hash, ws \in S
        PROVE  Append(ws, w) \in S
    <2> DEFINE more == Append(ws, w)
               n    == Len(ws)
    <2>1. /\ more \in Seq(Hash) /\ more # <<>> /\ Front(more) = ws /\ Last(more) = w
          /\ Len(more) = n + 1 /\ n \in Nat
          /\ \A i \in 1..n : more[i] = ws[i]
          /\ more[n + 1] = w
      BY FrontOfAppend, AppendProperties, LenProperties
    <2>2. DOMAIN more = 1..(n + 1) /\ DOMAIN ws = 1..n /\ ws = [i \in DOMAIN ws |-> ws[i]]
      BY <2>1, LenProperties, SeqDef
    <2> HIDE DEF more
    <2>3. more = [i \in DOMAIN more |-> more[i]]
      BY <2>1, SeqDef
    <2>4. \A i \in 1..(n + 1) : more[i] \in Seq(Byte)
      <3>1. \A i \in 1..(n + 1) : more[i] \in Hash
        BY <2>1, ElementOfSeq
      <3> QED
        BY <3>1, WordAssumption DEF Hash
    <2> HIDE DEF n
    <2>5. more = [i \in 1..(n + 1) |-> more[i]] /\ ws = [i \in 1..n |-> more[i]]
      BY <2>1, <2>2, <2>3
    <2>6. FlattenSeq([i \in 1..(n + 1) |-> more[i]])
            = FlattenSeq([i \in 1..n |-> more[i]]) \o more[n + 1]
      BY <2>1, <2>4, FlattenGrows
    <2>7. FlattenSeq(more) = FlattenSeq(ws) \o w
      BY <2>1, <2>5, <2>6
    <2>8. flat[more] = flat[ws] \o w
      BY <2>1, FlatEquation DEF FlatDef
    <2>9. flat[ws] = FlattenSeq(ws)
      BY <1>2
    <2> QED
      BY <2>1, <2>7, <2>8, <2>9 DEF more
  <1>3. Seq(Hash) \subseteq S
    <2> HIDE DEF S
    <2> QED BY <1>1, <1>2, SeqInduction
  <1> QED
    BY <1>3


-----------------------------------------------------------------------------
(* The places of the indexed parameters, and of the others. *)

PlacesIn(params, indexed) ==
  FlattenSeq([i \in DOMAIN params |->
                IF params[i].indexed = indexed THEN <<i>> ELSE <<>>])

(* A parameter more is at the last place. *)
LEMMA PlacesGrow ==
  ASSUME NEW params \in Seq(EventParam), NEW p \in EventParam, NEW indexed,
         PlacesIn(params, indexed) \in Seq(Nat)
  PROVE  PlacesIn(Append(params, p), indexed)
           = IF p.indexed = indexed THEN Append(PlacesIn(params, indexed), Len(params) + 1)
             ELSE PlacesIn(params, indexed)
  <1> DEFINE more == Append(params, p)
             n    == Len(params)
             h    == [i \in 1..(n + 1) |->
                        IF more[i].indexed = indexed THEN <<i>> ELSE <<>>]
             old  == PlacesIn(params, indexed)
  <1>1. /\ more \in Seq(EventParam) /\ Len(more) = n + 1 /\ n \in Nat
        /\ \A i \in 1..n : more[i] = params[i]
        /\ more[n + 1] = p
    BY AppendProperties, LenProperties
  <1>2. DOMAIN more = 1..(n + 1) /\ DOMAIN params = 1..n
    BY <1>1, LenProperties
  <1> HIDE DEF more, n
  <1>3. \A i \in 1..(n + 1) : h[i] \in Seq(Nat)
    <2>1. \A i \in 1..(n + 1) : <<i>> \in Seq(Nat) /\ <<>> \in Seq(Nat)
      BY <1>1
    <2> QED
      BY <2>1
  <1>4. /\ PlacesIn(more, indexed) = FlattenSeq([i \in 1..(n + 1) |-> h[i]])
        /\ old = FlattenSeq([i \in 1..n |-> h[i]])
    <2>1. [i \in 1..(n + 1) |-> h[i]]
            = [i \in DOMAIN more |-> IF more[i].indexed = indexed THEN <<i>> ELSE <<>>]
      BY <1>2
    <2>2. [i \in 1..n |-> h[i]]
            = [i \in DOMAIN params |-> IF params[i].indexed = indexed THEN <<i>> ELSE <<>>]
      BY <1>1, <1>2
    <2> HIDE DEF h
    <2> QED
      BY <2>1, <2>2 DEF PlacesIn
  <1>5. h[n + 1] = IF p.indexed = indexed THEN <<n + 1>> ELSE <<>>
    BY <1>1
  <1> HIDE DEF h
  <1>6. PlacesIn(more, indexed) = old \o h[n + 1]
    BY <1>1, <1>3, <1>4, FlattenGrows
  <1> HIDE DEF old
  <1>7. old \o <<n + 1>> = Append(old, n + 1) /\ old \o <<>> = old
    <2>1. old \in Seq(Nat) /\ n + 1 \in Nat
      BY <1>1 DEF old
    <2> QED
      BY <2>1, AppendIsConcat, ConcatEmptySeq
  <1> QED
    BY <1>5, <1>6, <1>7 DEF old, more, n

(* The k-th place is the one of the k-th parameter of its part. *)
Placed(params, indexed) ==
  LET places == PlacesIn(params, indexed)
      part   == split[params][indexed]
  IN  /\ places \in Seq(Nat) /\ part \in Seq(EventParam) /\ Len(places) = Len(part)
      /\ \A k \in 1..Len(part) : /\ places[k] \in 1..Len(params)
                                 /\ params[places[k]] = part[k]
                                 /\ part[k].indexed = indexed
      /\ \A j, k \in 1..Len(part) : places[j] = places[k] => j = k
      /\ \A i \in 1..Len(params) : params[i].indexed = indexed =>
           \E k \in 1..Len(part) : places[k] = i

(* A parameter more keeps the places. *)
LEMMA PlacedGrows ==
  ASSUME NEW params \in Seq(EventParam), NEW p \in EventParam, NEW indexed \in BOOLEAN,
         Placed(params, indexed)
  PROVE  Placed(Append(params, p), indexed)
  <1> DEFINE more   == Append(params, p)
             n      == Len(params)
             old    == PlacesIn(params, indexed)
             places == PlacesIn(more, indexed)
             was    == split[params][indexed]
             part   == split[more][indexed]
             m      == Len(was)
  <1>1. /\ more \in Seq(EventParam) /\ Len(more) = n + 1 /\ n \in Nat
        /\ \A i \in 1..n : more[i] = params[i]
        /\ more[n + 1] = p
    BY AppendProperties, LenProperties
  <1>2. /\ old \in Seq(Nat) /\ was \in Seq(EventParam) /\ Len(old) = m /\ m \in Nat
        /\ \A k \in 1..m : /\ old[k] \in 1..n /\ params[old[k]] = was[k]
                           /\ was[k].indexed = indexed
        /\ \A j, k \in 1..m : old[j] = old[k] => j = k
        /\ \A i \in 1..n : params[i].indexed = indexed => \E k \in 1..m : old[k] = i
    BY LenProperties DEF Placed
  <1>3. places = IF p.indexed = indexed THEN Append(old, n + 1) ELSE old
    BY <1>2, PlacesGrow
  <1>4. part = IF p.indexed = indexed THEN Append(was, p) ELSE was
    <2>1. split[more] = [split[params] EXCEPT ![p.indexed] = Append(@, p)]
      BY SplitGrows
    <2>2. split[params] \in [BOOLEAN -> Seq(EventParam)] /\ p.indexed \in BOOLEAN
      BY SplitParts DEF EventParam
    <2> QED
      BY <2>1, <2>2
  <1> HIDE DEF more, n, old, places, was, part, m
  <1>5. CASE p.indexed # indexed
    <2>1. places = old /\ part = was
      BY <1>3, <1>4, <1>5
    <2>2. ASSUME NEW k \in 1..m
          PROVE  old[k] \in 1..(n + 1) /\ more[old[k]] = was[k]
      <3>1. PICK j \in 1..n : j = old[k] /\ params[j] = was[k]
        BY <1>2
      <3>2. more[j] = params[j] /\ j \in 1..(n + 1)
        BY <1>1
      <3> QED
        BY <3>1, <3>2
    <2>3. ASSUME NEW i \in 1..(n + 1), more[i].indexed = indexed
          PROVE  \E k \in 1..m : old[k] = i
      <3>1. i \in 1..n /\ params[i].indexed = indexed
        BY <1>1, <1>5, <2>3
      <3> QED
        BY <1>2, <3>1
    <2>4. Placed(more, indexed)
      BY <1>1, <1>2, <2>1, <2>2, <2>3 DEF Placed, places, part, m
    <2> QED
      BY <2>4 DEF more
  <1>6. CASE p.indexed = indexed
    <2>1. /\ places \in Seq(Nat) /\ Len(places) = m + 1
          /\ \A k \in 1..m : places[k] = old[k]
          /\ places[m + 1] = n + 1
      <3>1. places = Append(old, n + 1) /\ n + 1 \in Nat
        BY <1>1, <1>3, <1>6
      <3> QED
        BY <1>2, <3>1, AppendProperties
    <2>2. /\ part \in Seq(EventParam) /\ Len(part) = m + 1
          /\ \A k \in 1..m : part[k] = was[k]
          /\ part[m + 1] = p
      <3>1. part = Append(was, p)
        BY <1>4, <1>6
      <3>2. Len(was) = m
        BY DEF m
      <3> QED
        BY <1>2, <3>1, <3>2, AppendProperties
    <2>3. \A k \in 1..(m + 1) : k = m + 1 \/ k \in 1..m
      BY <1>2
    <2>4. ASSUME NEW k \in 1..(m + 1)
          PROVE  /\ places[k] \in 1..(n + 1) /\ more[places[k]] = part[k]
                 /\ part[k].indexed = indexed
                 /\ k # m + 1 => places[k] # n + 1
      <3>1. CASE k \in 1..m
        <4>1. /\ places[k] = old[k] /\ part[k] = was[k] /\ was[k].indexed = indexed
          BY <1>2, <2>1, <2>2, <3>1
        <4>2. PICK j \in 1..n : j = old[k] /\ params[j] = was[k]
          BY <1>2, <3>1
        <4>3. more[j] = params[j] /\ j \in 1..(n + 1) /\ j # n + 1
          BY <1>1
        <4> QED
          BY <4>1, <4>2, <4>3
      <3>2. CASE k = m + 1
        BY <1>1, <1>2, <1>6, <2>1, <2>2, <3>2
      <3> QED
        BY <2>3, <3>1, <3>2
    <2>5. ASSUME NEW j \in 1..(m + 1), NEW k \in 1..(m + 1), places[j] = places[k]
          PROVE  j = k
      <3>1. CASE j = m + 1 \/ k = m + 1
        BY <1>2, <2>1, <2>4, <2>5, <3>1
      <3>2. CASE j # m + 1 /\ k # m + 1
        BY <1>2, <2>1, <2>3, <2>5, <3>2
      <3> QED
        BY <3>1, <3>2
    <2>6. ASSUME NEW i \in 1..(n + 1), more[i].indexed = indexed
          PROVE  \E k \in 1..(m + 1) : places[k] = i
      <3>1. CASE i = n + 1
        BY <1>2, <2>1, <3>1
      <3>2. CASE i # n + 1
        <4>1. i \in 1..n /\ params[i].indexed = indexed
          BY <1>1, <2>6, <3>2
        <4>2. PICK k \in 1..m : old[k] = i
          BY <1>2, <4>1
        <4> QED
          BY <1>2, <2>1, <4>2
      <3> QED
        BY <3>1, <3>2
    <2>7. Placed(more, indexed)
      BY <1>1, <2>1, <2>2, <2>4, <2>5, <2>6 DEF Placed, places, part
    <2> QED
      BY <2>7 DEF more
  <1> QED
    BY <1>5, <1>6

(* The places of all parameters are in order. *)
LEMMA AllPlaced ==
  ASSUME NEW indexed \in BOOLEAN
  PROVE  \A params \in Seq(EventParam) : Placed(params, indexed)
  <1> DEFINE S == {params \in Seq(EventParam) : Placed(params, indexed)}
  <1>1. <<>> \in S
    <2>1. PlacesIn(<<>>, indexed) = <<>>
      <3>1. DOMAIN <<>> = 1..0
        OBVIOUS
      <3> DEFINE h == [i \in 1..0 |-> 0]
      <3>2. [i \in DOMAIN <<>> |-> IF <<>>[i].indexed = indexed THEN <<i>> ELSE <<>>]
              = [i \in 1..0 |-> h[i]]
        BY <3>1
      <3>3. FlattenSeq([i \in 1..0 |-> h[i]]) = <<>>
        BY FlattenNone
      <3> HIDE DEF h
      <3> QED
        BY <3>2, <3>3 DEF PlacesIn
    <2>2. split[<<>>][indexed] = <<>>
      BY SplitGrows
    <2>3. <<>> \in Seq(EventParam) /\ <<>> \in Seq(Nat) /\ Len(<<>>) = 0
      BY EmptySeq
    <2>4. \A k : ~(k \in 1..0)
      OBVIOUS
    <2> QED
      BY <2>1, <2>2, <2>3, <2>4 DEF Placed
  <1>2. ASSUME NEW params \in Seq(EventParam), NEW p \in EventParam, params \in S
        PROVE  Append(params, p) \in S
    <2>1. Append(params, p) \in Seq(EventParam)
      BY AppendProperties
    <2> QED
      BY <1>2, <2>1, PlacedGrows
  <1>3. Seq(EventParam) \subseteq S
    <2> HIDE DEF S
    <2> QED BY <1>1, <1>2, SeqInduction
  <1> QED
    BY <1>3

(* What the places of an event's parameters are. *)
LEMMA PlacesMatch ==
  ASSUME event.inputs \in Seq(EventParam), NEW indexed \in BOOLEAN
  PROVE  LET inputs == event.inputs
             places == Places(event, indexed)
             part   == indexed_params(event, indexed)
         IN  /\ places \in Seq(Nat) /\ Len(places) = Len(part) /\ Len(part) \in Nat
             /\ DOMAIN places = 1..Len(part) /\ DOMAIN part = 1..Len(part)
             /\ \A k \in 1..Len(part) : /\ places[k] \in DOMAIN inputs
                                        /\ inputs[places[k]] = part[k]
                                        /\ part[k].indexed = indexed
                                        /\ part[k] \in EventParam
             /\ \A j, k \in 1..Len(part) : places[j] = places[k] => j = k
             /\ \A i \in DOMAIN inputs : inputs[i].indexed = indexed =>
                  \E k \in 1..Len(part) : places[k] = i
  <1>1. Placed(event.inputs, indexed)
    BY AllPlaced
  <1>2. Places(event, indexed) = PlacesIn(event.inputs, indexed)
    BY DEF Places, PlacesIn
  <1>3. indexed_params(event, indexed) = split[event.inputs][indexed]
    BY DEF indexed_params
  <1>4. DOMAIN event.inputs = 1..Len(event.inputs)
    BY LenProperties
  <1> DEFINE part == split[event.inputs][indexed]
  <1>5. /\ part \in Seq(EventParam) /\ Len(part) \in Nat /\ DOMAIN part = 1..Len(part)
        /\ \A k \in 1..Len(part) : part[k] \in EventParam
    BY <1>1, LenProperties, ElementOfSeq DEF Placed
  <1>6. DOMAIN PlacesIn(event.inputs, indexed) = 1..Len(part)
    BY <1>1, LenProperties DEF Placed
  <1> QED
    BY <1>1, <1>2, <1>3, <1>4, <1>5, <1>6 DEF Placed


-----------------------------------------------------------------------------
(* Values of static types, one behind the other. *)

(* Their encoding is that of each of them, without offsets and tails. *)
LEMMA StaticCall ==
  ASSUME NEW tokens \in Seq(Tokens), NEW ts \in Seq(ParamTypes), Len(tokens) = Len(ts),
         \A i \in DOMAIN ts : is_value[ts[i]][tokens[i]],
         \A i \in DOMAIN ts : ts[i] \notin DynamicTypes
  PROVE  /\ EncAll(tokens, ts) = FlattenSeq(CallParts(tokens, ts))
         /\ CallParts(tokens, ts) \in Seq(Seq(Byte))
         /\ Len(CallParts(tokens, ts)) = Len(ts)
  <1> DEFINE encs  == CallParts(tokens, ts)
             dyns  == CallDyns(ts)
             n     == Len(ts)
             heads == HeadsOf(encs, dyns)
             tails == TailsOf(encs, dyns)
  <1>1. EncAll(tokens, ts) = Layout(encs, dyns) /\ Encodes(Abstract!TupleT(ts), n, tokens, encs, dyns)
    <2>1. /\ EncAll(tokens, ts) = Layout(CallParts(tokens, ts), CallDyns(ts))
          /\ Encodes(Abstract!TupleT(ts), Len(ts), tokens, CallParts(tokens, ts), CallDyns(ts))
      BY OfCalls
    <2> QED BY <2>1
  <1>2. \A i \in 1..n : ~dyns[i]
    BY LenProperties DEF CallDyns
  <1> HIDE DEF encs, dyns, n
  <1>3. encs \in Seq(Seq(Byte)) /\ Len(encs) = n /\ n \in Nat
    BY <1>1 DEF Encodes
  <1>4. /\ heads \in Seq(Seq(Byte)) /\ tails \in Seq(Seq(Byte))
        /\ Len(heads) = n /\ Len(tails) = n
        /\ \A i \in 1..n : ~dyns[i] => tails[i] = <<>> /\ heads[i] = encs[i]
        /\ Layout(encs, dyns) = FlattenSeq(heads) \o FlattenSeq(tails)
    <2>1. /\ heads \in Seq(Seq(Byte)) /\ tails \in Seq(Seq(Byte))
          /\ Len(heads) = Len(encs) /\ Len(tails) = Len(encs)
      BY <1>3, LayoutParts, Zenon
    <2>2. Layout(encs, dyns) = FlattenSeq(heads) \o FlattenSeq(tails)
      BY <1>3, LayoutParts, Zenon
    <2>3. ASSUME NEW i \in 1..Len(encs), ~dyns[i]
          PROVE  tails[i] = <<>> /\ heads[i] = encs[i]
      BY <1>3, <2>3 DEF HeadsOf, TailsOf
    <2> HIDE DEF heads, tails
    <2> QED
      BY <1>3, <2>1, <2>2, <2>3
  <1> HIDE DEF heads, tails
  <1>5. heads = encs
    <2>1. Len(heads) = Len(encs) /\ \A i \in 1..Len(heads) : heads[i] = encs[i]
      BY <1>2, <1>3, <1>4
    <2>2. heads \in Seq(Seq(Byte)) /\ encs \in Seq(Seq(Byte))
      BY <1>3, <1>4
    <2> QED
      BY <2>1, <2>2, SeqEqual
  <1>6. FlattenSeq(tails) = <<>>
    <2>1. \A i \in 1..Len(tails) : tails[i] = <<>>
      BY <1>2, <1>4
    <2> QED
      BY <1>4, <2>1, NoLen
  <1>7. FlattenSeq(encs) \o <<>> = FlattenSeq(encs)
    <2>1. FlattenSeq(encs) \in Seq(Byte)
      BY <1>3, FlattenFacts
    <2> QED
      BY <2>1, ConcatEmptySeq
  <1>8. EncAll(tokens, ts) = FlattenSeq(encs)
    BY <1>1, <1>4, <1>5, <1>6, <1>7
  <1> QED
    BY <1>3, <1>8 DEF encs, n

(* Parts of the same lengths are known from what they make together. *)
LEMMA PartsKnown ==
  ASSUME NEW a \in Seq(Seq(Byte)), NEW b \in Seq(Seq(Byte)), Len(a) = Len(b),
         \A i \in 1..Len(a) : Len(a[i]) = Len(b[i]),
         FlattenSeq(a) = FlattenSeq(b)
  PROVE  a = b
  <1> DEFINE n == Len(a)
             F == FlattenSeq(a)
  <1>1. /\ n \in Nat /\ Len(b) = n
        /\ \A i \in 1..n : a[i] \in Seq(Byte) /\ b[i] \in Seq(Byte)
    BY LenProperties, ElementOfSeq
  <1>2. \A i \in 1..n : Holds(F, LenTo(a, i - 1), a[i]) /\ Holds(F, LenTo(b, i - 1), b[i])
    <2>1. \A i \in 1..Len(a) : Holds(FlattenSeq(a), LenTo(a, i - 1), a[i])
      BY FlattenFacts
    <2>2. \A i \in 1..Len(b) : Holds(FlattenSeq(b), LenTo(b, i - 1), b[i])
      BY FlattenFacts
    <2> QED
      BY <2>1, <2>2
  <1>3. ASSUME NEW i \in 1..n
        PROVE  a[i] = b[i]
    <2>1. LenTo(a, i - 1) = LenTo(b, i - 1)
      <3>1. \A j \in 1..(i - 1) : Len(a[j]) = Len(b[j])
        BY <1>1
      <3> QED
        BY <3>1, SameLenTo
    <2>2. Len(a[i]) = Len(b[i])
      OBVIOUS
    <2> DEFINE p == LenTo(a, i - 1)
    <2>3. Holds(F, p, a[i]) /\ Holds(F, p, b[i])
      BY <1>2, <2>1
    <2> HIDE DEF p, F
    <2>4. \A j \in 1..Len(a[i]) : a[i][j] = b[i][j]
      BY <2>2, <2>3 DEF Holds
    <2> QED
      BY <1>1, <2>2, <2>4, SeqEqual
  <1> HIDE DEF n
  <1>4. \A i \in 1..Len(a) : a[i] = b[i]
    BY <1>3 DEF n
  <1> QED
    BY <1>4, SeqEqual

(* A hash is as many bytes as a word. *)
LEMMA HashBytes ==
  ASSUME NEW w \in Hash
  PROVE  w \in Seq(Byte) /\ Len(w) = WordLen /\ w # <<>>
  <1>1. w \in Seq(Byte) /\ Len(w) = WordLen
    BY WordAssumption, LenProperties DEF Hash
  <1> QED
    BY <1>1, WordAssumption, EmptySeq

(* The types that topics are read as. *)
OneWord(t) == t.kind \in {"Address", "Int", "Uint", "Bool", "FixedBytes"}

(* Their values are words. *)
LEMMA OneWordValues ==
  ASSUME NEW t \in ParamTypes, OneWord(t), NEW token \in Tokens, is_value[t][token]
  PROVE  /\ enc[t][token] \in Seq(Byte) /\ Len(enc[t][token]) = WordLen
         /\ t \notin DynamicTypes
  <1>1. CanonicalValue(t, token) /\ Len(enc[t][token]) = WordLen
    BY CanonicalWord DEF OneWord
  <1>2. t \notin DynamicTypes
    BY IsDynamic DEF OneWord, DynamicTypes
  <1> QED
    BY <1>1, <1>2 DEF CanonicalValue

(* The encoding of one of them is its word. *)
LEMMA OneWordCall ==
  ASSUME NEW t \in ParamTypes, OneWord(t), NEW c \in Tokens, is_value[t][c]
  PROVE  EncAll(<<c>>, <<t>>) = enc[t][c]
  <1> DEFINE tokens == <<c>>
             ts     == <<t>>
             d      == enc[t][c]
             h      == [i \in 1..(0 + 1) |-> d]
  <1>1. /\ tokens \in Seq(Tokens) /\ Len(tokens) = 1 /\ DOMAIN tokens = 1..1
        /\ ts \in Seq(ParamTypes) /\ Len(ts) = 1 /\ DOMAIN ts = 1..1
        /\ tokens[1] = c /\ ts[1] = t
    OBVIOUS
  <1>2. d \in Seq(Byte) /\ t \notin DynamicTypes
    BY OneWordValues
  <1> HIDE DEF ts, tokens
  <1>3. (\A i \in DOMAIN ts : is_value[ts[i]][tokens[i]])
        /\ \A i \in DOMAIN ts : ts[i] \notin DynamicTypes
    BY <1>1, <1>2
  <1>4. EncAll(tokens, ts) = FlattenSeq(CallParts(tokens, ts))
    BY <1>1, <1>3, StaticCall
  <1>5. CallParts(tokens, ts) = h
    BY <1>1 DEF CallParts
  <1>6. FlattenSeq([i \in 1..(0 + 1) |-> h[i]]) = FlattenSeq([i \in 1..0 |-> h[i]]) \o h[0 + 1]
    <2>1. \A i \in 1..(0 + 1) : h[i] \in Seq(Byte)
      BY <1>2
    <2> HIDE DEF h
    <2> QED
      BY <2>1, FlattenGrows
  <1>7. FlattenSeq([i \in 1..0 |-> h[i]]) = <<>>
    <2> HIDE DEF h
    <2> QED BY FlattenNone
  <1>8. [i \in 1..(0 + 1) |-> h[i]] = h /\ h[0 + 1] = d
    OBVIOUS
  <1>9. <<>> \o d = d
    BY <1>2, ConcatEmptySeq
  <1> HIDE DEF h, d
  <1>10. FlattenSeq(h) = d
    BY <1>6, <1>7, <1>8, <1>9
  <1> QED
    BY <1>4, <1>5, <1>10 DEF tokens, ts, d

(* A token of them is found again in its word, so no other has this word. *)
LEMMA WordsDiffer ==
  ASSUME NEW t \in ParamTypes, OneWord(t),
         NEW a \in Tokens, Settled(t, a), NEW b \in Tokens, Settled(t, b),
         enc[t][a] = enc[t][b]
  PROVE  a = b
  <1> DEFINE ts == <<t>>
  <1>1. ts \in Seq(ParamTypes) /\ Len(ts) = 1 /\ DOMAIN ts = 1..1 /\ ts[1] = t
    OBVIOUS
  <1>2. ASSUME NEW c \in Tokens, Settled(t, c)
        PROVE  Abstract!Decoded(ts, enc[t][c], FALSE) = Abstract!Some(<<c>>)
    <2> DEFINE tokens == <<c>>
    <2>1. /\ tokens \in Seq(Tokens) /\ Len(tokens) = 1 /\ DOMAIN tokens = 1..1
          /\ tokens[1] = c
      OBVIOUS
    <2>2. is_value[t][c] /\ as_read[t][c] = c
      BY <1>2 DEF Settled
    <2>3. /\ enc[t][c] \in Seq(Byte) /\ Len(enc[t][c]) = WordLen /\ t \notin DynamicTypes
      BY <2>2, OneWordValues
    <2> DEFINE d == enc[t][c]
    <2> HIDE DEF ts, tokens
    <2>4. (\A i \in DOMAIN ts : is_value[ts[i]][tokens[i]])
          /\ \A i \in DOMAIN ts : ts[i] \notin DynamicTypes
      BY <1>1, <2>1, <2>2, <2>3
    <2>5. EncAll(tokens, ts) = d
      BY <2>2, OneWordCall DEF tokens, ts, d
    <2>6. d # <<>> /\ Len(d) < U32 + WordLen
      BY <2>3, WordAssumption, RadixFacts, EmptySeq
    <2>7. Abstract!Decoded(ts, d, FALSE)
            = Abstract!Some([i \in DOMAIN tokens |-> as_read[ts[i]][tokens[i]]])
      <3> HIDE DEF d
      <3> QED
        BY <1>1, <2>1, <2>4, <2>5, <2>6, DecodedIsMeant
    <2>8. [i \in DOMAIN tokens |-> as_read[ts[i]][tokens[i]]] = <<c>>
      <3>1. \A i \in DOMAIN tokens : as_read[ts[i]][tokens[i]] = c
        BY <1>1, <2>1, <2>2
      <3>2. [i \in DOMAIN tokens |-> as_read[ts[i]][tokens[i]]] = [i \in 1..1 |-> c]
        BY <2>1, <3>1
      <3> QED
        BY <3>2
    <2> QED
      BY <2>7, <2>8
  <1> HIDE DEF ts
  <1>3. Abstract!Some(<<a>>) = Abstract!Some(<<b>>)
    BY <1>2
  <1> QED
    BY <1>3 DEF Abstract!Some


-----------------------------------------------------------------------------
(* What parse_log returns, said in one step. *)

(* No reservation fails, so that Err tells something about the log. *)
Roomy ==
  /\ ~MayRunOut
  /\ \A s \in Sessions : \A indexed \in BOOLEAN :
       Len(indexed_params(s.event, indexed)) <= AllocLimit

(* What the positions of the topics and of the data define. *)
TopicsIn == Abstract!Decoded(topic_types(event), flat_topics(event, log), validate)
DataIn   == Abstract!Decoded(data_types(event), log.data, validate)

Readable ==
  OwnSignature /\ TopicsIn.defined /\ Accounted(TopicsIn.val) /\ DataIn.defined

ParsedAtOnce ==
  IF Readable
  THEN decoded_params(event, named_tokens(
         named(indexed_params(event, TRUE), TopicsIn.val)
           \o named(indexed_params(event, FALSE), DataIn.val)))
  ELSE Err

(* The phases of parse_log come to it. *)
Reading ==
  /\ phase \in {"topics", "data"} => VInv /\ Answered /\ OwnSignature
  /\ phase = "topics" => types = topic_types(event) /\ data = flat_topics(event, log)
  /\ phase = "data" => /\ types = data_types(event) /\ data = log.data
                       /\ TopicsIn.defined /\ Accounted(TopicsIn.val)
                       /\ topic_tokens = TopicsIn.val
  /\ phase = "done" => parsed = ParsedAtOnce

Sized == \A indexed \in BOOLEAN : Len(indexed_params(event, indexed)) <= AllocLimit

OfSession == \E s \in Sessions : /\ event = s.event /\ log = s.log
                                 /\ raw = s.raw /\ origin = s.origin

LInv ==
  /\ PInv
  /\ OfSession
  /\ filter # NoResult => filter = topic_filter(event, raw)
  /\ Reading

(* It depends on the event and the log only. *)
LEMMA AtOnceStays ==
  ASSUME UNCHANGED <<event, log, validate>>
  PROVE  /\ ParsedAtOnce' = ParsedAtOnce /\ TopicsIn' = TopicsIn /\ DataIn' = DataIn
         /\ OwnSignature' <=> OwnSignature
         /\ Accounted(TopicsIn.val)' <=> Accounted(TopicsIn.val)
  <1>1. TopicsIn' = TopicsIn /\ DataIn' = DataIn
    BY DEF TopicsIn, DataIn
  <1>2. OwnSignature' <=> OwnSignature
    BY DEF OwnSignature
  <1>3. Accounted(TopicsIn.val)' <=> Accounted(TopicsIn.val)
    BY <1>1 DEF Accounted
  <1>4. ParsedAtOnce' = ParsedAtOnce
    BY <1>1, <1>2, <1>3 DEF ParsedAtOnce, Readable
  <1> QED
    BY <1>1, <1>2, <1>3, <1>4

(* A log of another event is an error; that of this one is decoded. *)
LEMMA ParseLogReads ==
  ASSUME Roomy, Sized, CallOK, ParseLog
  PROVE  Reading'
  <1>1. CASE ~OwnSignature /\ Fail("Err")
    <2>1. UNCHANGED <<event, log, validate>> /\ phase' = "done" /\ parsed' = Err
      BY <1>1 DEF Fail, vars, Err
    <2>2. ParsedAtOnce = Err
      BY <1>1 DEF ParsedAtOnce, Readable
    <2>3. parsed' = ParsedAtOnce'
      BY <2>1, <2>2, AtOnceStays
    <2> QED
      BY <2>1, <2>3 DEF Reading
  <1>2. CASE OwnSignature /\ ~Fail("Err")
    <2>1. /\ CallDecode(topic_types(event), flat_topics(event, log))
          /\ phase' = "topics" /\ UNCHANGED <<event, log>>
      BY <1>2 DEF ParseLog
    <2>2. UNCHANGED <<event, log, validate>>
      BY <2>1 DEF CallDecode
    <2> DEFINE ts == topic_types(event)
               d  == flat_topics(event, log)
    <2>3. /\ types' = ts /\ data' = d /\ validate' = validate
          /\ stack' = <<>> /\ acc' = <<>> /\ status' = "start"
      BY <2>1 DEF CallDecode
    <2>4. ts \in Seq(ParamTypes) /\ Len(ts) <= AllocLimit
      BY TypesRead DEF CallOK, Sized
    <2>5. d \in Seq(Byte) /\ 2 * Len(d) < UsizeSize
      BY <1>2, TopicsFlat
    <2> HIDE DEF ts, d
    <2>6. VInv' /\ Answered'
      BY <2>3, <2>4, <2>5, CallStarts DEF CallOK
    <2>7. types' = topic_types(event)' /\ data' = flat_topics(event, log)'
      BY <2>2, <2>3 DEF ts, d
    <2>8. OwnSignature'
      BY <1>2, <2>2, AtOnceStays
    <2> QED
      BY <2>1, <2>6, <2>7, <2>8 DEF Reading
  <1>3. CASE OwnSignature /\ Fail("Err")
    <2>1. OwnSignature /\ phase' = "topics"
      BY <1>3 DEF ParseLog
    <2> QED
      BY <1>3, <2>1 DEF Fail
  <1> QED
    BY <1>1, <1>2, <1>3 DEF ParseLog

(* The decoder answers. *)
LEMMA DecoderStepReads ==
  ASSUME Wide, Roomy, Reading, DecoderStep
  PROVE  Reading'
  <1>1. phase \in {"topics", "data"} /\ Next /\ UNCHANGED logVars /\ VInv /\ Answered
        /\ OwnSignature
    BY DEF DecoderStep, Reading
  <1>2. VInv' /\ Answered' /\ UNCHANGED <<types, data, validate>>
    BY <1>1, CallContinues DEF Roomy
  <1>3. UNCHANGED <<event, log, validate, phase, topic_tokens>>
    BY <1>1, <1>2 DEF logVars
  <1>4. OwnSignature' /\ TopicsIn' = TopicsIn
        /\ (Accounted(TopicsIn.val)' <=> Accounted(TopicsIn.val))
    BY <1>1, <1>3, AtOnceStays
  <1>5. topic_types(event)' = topic_types(event) /\ data_types(event)' = data_types(event)
        /\ flat_topics(event, log)' = flat_topics(event, log)
    BY <1>3
  <1> QED
    BY <1>1, <1>2, <1>3, <1>4, <1>5 DEF Reading

(* What it says of the topics decides on the data. *)
LEMMA DecodeTopicsReads ==
  ASSUME Roomy, Sized, PInv, Reading, DecodeTopics
  PROVE  Reading'
  <1>1. /\ phase = "topics" /\ status \in Outcomes /\ Answered /\ OwnSignature
        /\ types = topic_types(event) /\ data = flat_topics(event, log)
    BY DEF DecodeTopics, Reading
  <1>2. /\ status = "Ok" => TopicsIn.defined /\ TopicsIn.val = acc[1]
        /\ status = "Err" => ~TopicsIn.defined
    BY <1>1 DEF Answered, TopicsIn
  <1>3. CASE status # "Ok"
    <2>1. status = "Err"
      BY <1>1, <1>3, OnlyErr
    <2>2. Fail("Err")
      BY <1>3, <2>1 DEF DecodeTopics
    <2>3. UNCHANGED <<event, log, validate>> /\ phase' = "done" /\ parsed' = Err
      BY <2>2 DEF Fail, vars, Err
    <2>4. ParsedAtOnce = Err
      BY <1>2, <2>1 DEF ParsedAtOnce, Readable
    <2>5. parsed' = ParsedAtOnce'
      BY <2>3, <2>4, AtOnceStays
    <2> QED
      BY <2>3, <2>5 DEF Reading
  <1>4. CASE status = "Ok" /\ ~Accounted(acc[1])
    <2>1. Fail("Err")
      BY <1>4 DEF DecodeTopics
    <2>2. UNCHANGED <<event, log, validate>> /\ phase' = "done" /\ parsed' = Err
      BY <2>1 DEF Fail, vars, Err
    <2>3. ParsedAtOnce = Err
      BY <1>2, <1>4 DEF ParsedAtOnce, Readable
    <2>4. parsed' = ParsedAtOnce'
      BY <2>2, <2>3, AtOnceStays
    <2> QED
      BY <2>2, <2>4 DEF Reading
  <1>5. CASE status = "Ok" /\ Accounted(acc[1])
    <2>1. /\ topic_tokens' = acc[1] /\ CallDecode(data_types(event), log.data)
          /\ phase' = "data" /\ UNCHANGED <<event, log>>
      BY <1>5 DEF DecodeTopics
    <2> DEFINE ts == data_types(event)
    <2>2. /\ types' = ts /\ data' = log.data /\ validate' = validate
          /\ stack' = <<>> /\ acc' = <<>> /\ status' = "start"
      BY <2>1 DEF CallDecode
    <2>3. CallOK
      BY DEF PInv
    <2>4. ts \in Seq(ParamTypes) /\ Len(ts) <= AllocLimit
      BY <2>3, TypesRead DEF CallOK, Sized
    <2>5. log.data \in Seq(Byte) /\ 2 * Len(log.data) < UsizeSize
      BY <2>3 DEF CallOK
    <2> HIDE DEF ts
    <2>6. VInv' /\ Answered'
      BY <2>2, <2>3, <2>4, <2>5, CallStarts DEF CallOK
    <2>7. UNCHANGED <<event, log, validate>>
      BY <2>1, <2>2
    <2>8. OwnSignature' /\ TopicsIn' = TopicsIn
          /\ (Accounted(TopicsIn.val)' <=> Accounted(TopicsIn.val))
      BY <1>1, <2>7, AtOnceStays
    <2>9. types' = data_types(event)' /\ data' = log.data'
      BY <2>2, <2>7 DEF ts
    <2> QED
      BY <1>2, <1>5, <2>1, <2>6, <2>8, <2>9 DEF Reading
  <1> QED
    BY <1>3, <1>4, <1>5

(* What it says of the data decides on the result. *)
LEMMA DecodeDataReads ==
  ASSUME PInv, Reading, DecodeData
  PROVE  Reading'
  <1>1. /\ phase = "data" /\ status \in Outcomes /\ Answered /\ OwnSignature
        /\ types = data_types(event) /\ data = log.data
        /\ TopicsIn.defined /\ Accounted(TopicsIn.val) /\ topic_tokens = TopicsIn.val
    BY DEF DecodeData, Reading
  <1>2. /\ status = "Ok" => DataIn.defined /\ DataIn.val = acc[1]
        /\ status = "Err" => ~DataIn.defined
    BY <1>1 DEF Answered, DataIn
  <1>3. CASE status # "Ok"
    <2>1. status = "Err"
      BY <1>1, <1>3, OnlyErr
    <2>2. Fail("Err")
      BY <1>3, <2>1 DEF DecodeData
    <2>3. UNCHANGED <<event, log, validate>> /\ phase' = "done" /\ parsed' = Err
      BY <2>2 DEF Fail, vars, Err
    <2>4. ParsedAtOnce = Err
      BY <1>2, <2>1 DEF ParsedAtOnce, Readable
    <2>5. parsed' = ParsedAtOnce'
      BY <2>3, <2>4, AtOnceStays
    <2> QED
      BY <2>3, <2>5 DEF Reading
  <1>4. CASE status = "Ok"
    <2>1. /\ parsed' = decoded_params(event, named_tokens(
                         named(indexed_params(event, TRUE), topic_tokens)
                           \o named(indexed_params(event, FALSE), acc[1])))
          /\ phase' = "done" /\ UNCHANGED <<vars, event, log>>
      BY <1>4 DEF DecodeData
    <2>2. UNCHANGED <<event, log, validate>>
      BY <2>1 DEF vars
    <2>3. parsed' = ParsedAtOnce
      BY <1>1, <1>2, <1>4, <2>1 DEF ParsedAtOnce, Readable
    <2>4. parsed' = ParsedAtOnce'
      BY <2>2, <2>3, AtOnceStays
    <2> QED
      BY <2>1, <2>4 DEF Reading
  <1> QED
    BY <1>3, <1>4

(* The user's session begins with the invariant. *)
LEMMA UserStarts == EventInit => LInv
  <1> SUFFICES ASSUME EventInit PROVE LInv
    OBVIOUS
  <1>1. ParserInit
    BY DEF EventInit, ParserInit
  <1>2. PInv
    BY <1>1, ParserStarts
  <1>3. OfSession /\ filter = NoResult /\ phase = "log"
    BY DEF EventInit, OfSession
  <1> QED
    BY <1>2, <1>3 DEF LInv, Reading

(* Where the parser does nothing, nothing is lost. *)
LEMMA ParserWaits ==
  ASSUME Wide, Roomy, PInv, Reading, UNCHANGED parserVars
  PROVE  PInv' /\ Reading' /\ UNCHANGED <<event, log>>
  <1>1. UNCHANGED <<vars, event, log, phase, topic_tokens, parsed>>
    BY DEF parserVars, logVars
  <1>2. PInv'
    BY StepParses
  <1>3. UNCHANGED <<types, data, validate>>
    BY <1>1 DEF vars
  <1>4. /\ ParsedAtOnce' = ParsedAtOnce /\ TopicsIn' = TopicsIn
        /\ OwnSignature' <=> OwnSignature
        /\ Accounted(TopicsIn.val)' <=> Accounted(TopicsIn.val)
    BY <1>1, <1>3, AtOnceStays
  <1>5. phase \in {"topics", "data"} => VInv' /\ Answered'
    <2>1. phase \in {"topics", "data"} => VInv /\ Answered /\ [Next]_vars
      BY <1>1 DEF Reading
    <2> QED
      BY <2>1, CallContinues DEF Roomy
  <1> QED
    BY <1>1, <1>2, <1>3, <1>4, <1>5 DEF Reading

(* Each step keeps it. *)
LEMMA UserSteps ==
  ASSUME Wide, Roomy, LInv, [EventNext]_everything
  PROVE  LInv'
  <1>1. PInv /\ OfSession /\ Reading /\ CallOK /\ Sized
    <2>1. PInv /\ OfSession /\ Reading
      BY DEF LInv
    <2> QED
      BY <2>1 DEF PInv, OfSession, Roomy, Sized
  <1>2. CASE Filter
    <2>1. filter' = topic_filter(event, raw) /\ UNCHANGED <<parserVars, raw, origin>>
      BY <1>2 DEF Filter
    <2>2. PInv' /\ Reading' /\ UNCHANGED <<event, log>>
      BY <1>1, <2>1, ParserWaits
    <2>3. filter' = topic_filter(event, raw)' /\ OfSession'
      BY <1>1, <2>1, <2>2 DEF OfSession
    <2> QED
      BY <2>2, <2>3 DEF LInv
  <1>3. CASE Parse
    <2>1. ParserNext /\ UNCHANGED <<raw, origin, filter>>
      BY <1>3 DEF Parse
    <2>2. PInv'
      BY <1>1, <2>1, StepParses
    <2>3. UNCHANGED <<event, log>>
      BY <2>1 DEF ParserNext, ParseLog, DecoderStep, DecodeTopics, DecodeData, Fail, logVars
    <2>4. Reading'
      BY <1>1, <2>1, ParseLogReads, DecoderStepReads, DecodeTopicsReads, DecodeDataReads
         DEF ParserNext
    <2>5. OfSession'
      BY <1>1, <2>1, <2>3 DEF OfSession
    <2>6. (filter # NoResult => filter = topic_filter(event, raw))'
      BY <2>1, <2>3 DEF LInv, NoResult
    <2> QED
      BY <2>2, <2>4, <2>5, <2>6 DEF LInv
  <1>4. CASE UNCHANGED everything
    <2>1. UNCHANGED <<parserVars, raw, origin, filter>>
      BY <1>4 DEF everything
    <2>2. PInv' /\ Reading' /\ UNCHANGED <<event, log>>
      BY <1>1, <2>1, ParserWaits
    <2>3. OfSession' /\ (filter # NoResult => filter = topic_filter(event, raw))'
      BY <1>1, <2>1, <2>2 DEF OfSession, LInv, NoResult
    <2> QED
      BY <2>2, <2>3 DEF LInv
  <1> QED
    BY <1>2, <1>3, <1>4 DEF EventNext

(* So it holds throughout. *)
LEMMA InductiveUser == ASSUME Wide, Roomy PROVE EventSpec => []LInv
  <1>1. EventInit => LInv
    BY UserStarts
  <1>2. ASSUME LInv, [EventNext]_everything PROVE LInv'
    BY <1>2, UserSteps
  <1> QED
    BY <1>1, <1>2, PTL DEF EventSpec

(* What parse_log returns is what the positions of the topics and of the   *)
(* data define, looked up by name, and Err where they define nothing, the  *)
(* signature is another's or a topic is left over.                         *)
THEOREM ParsesAtOnce ==
  ASSUME Wide, Roomy
  PROVE  EventSpec => [](phase = "done" => parsed = ParsedAtOnce)
  <1>1. EventSpec => []LInv
    BY InductiveUser
  <1>2. LInv => (phase = "done" => parsed = ParsedAtOnce)
    BY DEF LInv, Reading
  <1> QED
    BY <1>1, <1>2, PTL


-----------------------------------------------------------------------------
(* How the values of a log become those of its parameters. *)

(* T are what V says of the indexed parameters, D what of the others. *)
SplitOf(T, D, V) ==
  /\ DOMAIN T = 1..Len(indexed_params(event, TRUE))
  /\ DOMAIN D = 1..Len(indexed_params(event, FALSE))
  /\ \A k \in DOMAIN T : V[Places(event, TRUE)[k]] = T[k]
  /\ \A k \in DOMAIN D : V[Places(event, FALSE)[k]] = D[k]

(* Any values of the two parts are those of some values of the parameters. *)
LEMMA PartsJoin ==
  ASSUME event.inputs \in Seq(EventParam),
         NEW T, DOMAIN T = 1..Len(indexed_params(event, TRUE)),
         NEW D, DOMAIN D = 1..Len(indexed_params(event, FALSE))
  PROVE  \E V : SplitOf(T, D, V)
  <1> DEFINE inputs == event.inputs
             ins  == Places(event, TRUE)
             outs == Places(event, FALSE)
             m    == Len(indexed_params(event, TRUE))
             q    == Len(indexed_params(event, FALSE))
  <1>1. /\ \A k \in 1..m : ins[k] \in DOMAIN inputs /\ inputs[ins[k]].indexed = TRUE
        /\ \A j, k \in 1..m : ins[j] = ins[k] => j = k
    BY PlacesMatch
  <1>2. /\ \A k \in 1..q : outs[k] \in DOMAIN inputs /\ inputs[outs[k]].indexed = FALSE
        /\ \A j, k \in 1..q : outs[j] = outs[k] => j = k
    <2> DEFINE no == FALSE
    <2>1. no \in BOOLEAN /\ no = FALSE
      OBVIOUS
    <2> HIDE DEF no
    <2>2. LET places == Places(event, no)
              part   == indexed_params(event, no)
          IN  /\ \A k \in 1..Len(part) : /\ places[k] \in DOMAIN inputs
                                         /\ inputs[places[k]].indexed = no
              /\ \A j, k \in 1..Len(part) : places[j] = places[k] => j = k
      BY <2>1, PlacesMatch
    <2> QED
      BY <2>1, <2>2
  <1> DEFINE V == [i \in DOMAIN inputs |->
                     IF inputs[i].indexed THEN T[CHOOSE k \in 1..m : ins[k] = i]
                                          ELSE D[CHOOSE k \in 1..q : outs[k] = i]]
  <1>3. ASSUME NEW k \in 1..m
        PROVE  V[ins[k]] = T[k]
    <2>1. (CHOOSE j \in 1..m : ins[j] = ins[k]) = k
      BY <1>1
    <2> QED
      BY <1>1, <2>1
  <1>4. ASSUME NEW k \in 1..q
        PROVE  V[outs[k]] = D[k]
    <2>1. (CHOOSE j \in 1..q : outs[j] = outs[k]) = k
      BY <1>2
    <2> QED
      BY <1>2, <2>1
  <1> HIDE DEF V
  <1> QED
    BY <1>3, <1>4 DEF SplitOf

(* Distinct names lead every parameter to its own value. *)
LEMMA LookedUp ==
  ASSUME event.inputs \in Seq(EventParam), DistinctNames,
         NEW T, NEW D, NEW V, SplitOf(T, D, V)
  PROVE  decoded_params(event, named_tokens(named(indexed_params(event, TRUE), T)
                                              \o named(indexed_params(event, FALSE), D)))
           = Ok([i \in DOMAIN event.inputs |-> LogParam(event.inputs[i].name, V[i])])
  <1> DEFINE inputs == event.inputs
             ind  == indexed_params(event, TRUE)
             oth  == indexed_params(event, FALSE)
             ins  == Places(event, TRUE)
             outs == Places(event, FALSE)
             m    == Len(ind)
             q    == Len(oth)
             p1   == named(ind, T)
             p2   == named(oth, D)
             all  == p1 \o p2
             tokens == named_tokens(all)
  <1>1. /\ m \in Nat /\ DOMAIN ind = 1..m
        /\ \A k \in 1..m : ins[k] \in DOMAIN inputs /\ inputs[ins[k]] = ind[k]
        /\ \A i \in DOMAIN inputs : inputs[i].indexed = TRUE => \E k \in 1..m : ins[k] = i
    BY PlacesMatch
  <1>2. /\ q \in Nat /\ DOMAIN oth = 1..q
        /\ \A k \in 1..q : outs[k] \in DOMAIN inputs /\ inputs[outs[k]] = oth[k]
        /\ \A i \in DOMAIN inputs : inputs[i].indexed = FALSE => \E k \in 1..q : outs[k] = i
    BY PlacesMatch
  <1>3. p1 = [k \in 1..m |-> <<ind[k].name, T[k]>>] /\ p2 = [k \in 1..q |-> <<oth[k].name, D[k]>>]
    BY <1>1, <1>2 DEF SplitOf, named
  <1>4. /\ \A k \in 1..m : T[k] = V[ins[k]]
        /\ \A k \in 1..q : D[k] = V[outs[k]]
    BY DEF SplitOf
  <1> HIDE DEF ind, oth, ins, outs, m, q, p1, p2
  <1>5. /\ Len(all) = m + q /\ all = [k \in 1..Len(all) |-> all[k]]
        /\ \A k \in 1..(m + q) : all[k] = IF k <= m THEN p1[k] ELSE p2[k - m]
    <2> DEFINE S == {p1[i] : i \in 1..m} \cup {p2[i] : i \in 1..q}
    <2>1. /\ p1 = [k \in 1..m |-> p1[k]] /\ p2 = [k \in 1..q |-> p2[k]]
          /\ Len(p1) = m /\ Len(p2) = q
      BY <1>1, <1>2, <1>3
    <2>2. (\A i \in 1..m : p1[i] \in S) /\ (\A i \in 1..q : p2[i] \in S)
      OBVIOUS
    <2> HIDE DEF S
    <2>3. p1 \in Seq(S)
      BY <1>1, <2>1, <2>2
    <2>4. p2 \in Seq(S)
      BY <1>2, <2>1, <2>2
    <2>5. /\ all \in Seq(S) /\ Len(all) = m + q
          /\ \A k \in 1..(m + q) : all[k] = IF k <= m THEN p1[k] ELSE p2[k - m]
      <3>1. /\ all \in Seq(S) /\ Len(all) = Len(p1) + Len(p2)
            /\ \A k \in 1..(Len(p1) + Len(p2)) :
                 all[k] = IF k <= Len(p1) THEN p1[k] ELSE p2[k - Len(p1)]
        BY <2>3, <2>4, ConcatProperties, Zenon
      <3> HIDE DEF all
      <3> QED
        BY <2>1, <3>1
    <2> HIDE DEF all
    <2>6. all = [k \in 1..Len(all) |-> all[k]]
      BY <2>5
    <2> QED
      BY <2>5, <2>6
  <1> HIDE DEF all
  <1>6. DOMAIN all = 1..(m + q)
    BY <1>5
  <1>7. ASSUME NEW k \in DOMAIN all
        PROVE  \E i \in DOMAIN inputs : all[k][1] = inputs[i].name /\ all[k][2] = V[i]
    <2>1. CASE k \in 1..m
      <3>1. all[k] = p1[k]
        BY <1>1, <1>5, <1>6, <2>1
      <3>2. p1[k] = <<ind[k].name, T[k]>> /\ ins[k] \in DOMAIN inputs
            /\ inputs[ins[k]] = ind[k] /\ T[k] = V[ins[k]]
        BY <1>1, <1>3, <1>4, <2>1
      <3> QED
        BY <3>1, <3>2
    <2>2. CASE k - m \in 1..q /\ ~(k <= m)
      <3>1. all[k] = p2[k - m]
        BY <1>5, <1>6, <2>2
      <3> DEFINE j == k - m
      <3> HIDE DEF j
      <3>2. p2[j] = <<oth[j].name, D[j]>> /\ outs[j] \in DOMAIN inputs
            /\ inputs[outs[j]] = oth[j] /\ D[j] = V[outs[j]]
        <4>1. j \in 1..q
          BY <2>2 DEF j
        <4> QED
          BY <1>2, <1>3, <1>4, <4>1
      <3> QED
        BY <3>1, <3>2 DEF j
    <2>3. k \in 1..m \/ (k - m \in 1..q /\ ~(k <= m))
      BY <1>1, <1>2, <1>6
    <2> QED
      BY <2>1, <2>2, <2>3
  <1>8. ASSUME NEW i \in DOMAIN inputs
        PROVE  \E k \in DOMAIN all : all[k][1] = inputs[i].name
    <2>1. inputs[i].indexed \in BOOLEAN
      <3>1. inputs[i] \in EventParam
        BY ElementOfSeq, LenProperties
      <3> QED
        BY <3>1 DEF EventParam
    <2>2. CASE inputs[i].indexed = TRUE
      <3>1. PICK k \in 1..m : ins[k] = i
        BY <1>1, <2>2
      <3>2. all[k] = p1[k] /\ k \in DOMAIN all
        BY <1>1, <1>2, <1>5, <1>6
      <3>3. p1[k][1] = inputs[i].name
        BY <1>1, <1>3, <3>1
      <3> QED
        BY <3>2, <3>3
    <2>3. CASE inputs[i].indexed = FALSE
      <3>1. PICK k \in 1..q : outs[k] = i
        BY <1>2, <2>3
      <3>2. m + k \in 1..(m + q) /\ ~(m + k <= m) /\ (m + k) - m = k
        BY <1>1, <1>2
      <3>3. all[m + k] = p2[k]
        BY <1>5, <3>2
      <3>4. p2[k][1] = inputs[i].name
        BY <1>2, <1>3, <3>1
      <3> QED
        BY <1>6, <3>2, <3>3, <3>4
    <2> QED
      BY <2>1, <2>2, <2>3
  <1>9. /\ decoded_params(event, tokens) =
             Ok([i \in DOMAIN inputs |-> LogParam(inputs[i].name, tokens[inputs[i].name])])
        /\ \A i \in DOMAIN inputs : \E k \in DOMAIN all :
             all[k][1] = inputs[i].name /\ tokens[inputs[i].name] = all[k][2]
    <2>1. Len(all) \in Nat
      BY <1>1, <1>2, <1>5
    <2> QED
      BY <1>5, <1>8, <2>1, ParamsFound, Zenon
  <1> HIDE DEF tokens
  <1>10. \A i \in DOMAIN inputs : tokens[inputs[i].name] = V[i]
    <2> TAKE i \in DOMAIN inputs
    <2>1. PICK k \in DOMAIN all :
            all[k][1] = inputs[i].name /\ tokens[inputs[i].name] = all[k][2]
      BY <1>9
    <2>2. PICK j \in DOMAIN inputs : all[k][1] = inputs[j].name /\ all[k][2] = V[j]
      BY <1>7
    <2>3. j = i
      BY <2>1, <2>2 DEF DistinctNames
    <2> QED
      BY <2>1, <2>2, <2>3
  <1>11. [i \in DOMAIN inputs |-> LogParam(inputs[i].name, tokens[inputs[i].name])]
           = [i \in DOMAIN inputs |-> LogParam(inputs[i].name, V[i])]
    BY <1>10
  <1>12. decoded_params(event, tokens)
           = Ok([i \in DOMAIN inputs |-> LogParam(inputs[i].name, V[i])])
    BY <1>9, <1>11
  <1> QED
    BY <1>12 DEF tokens, all, p1, p2, ind, oth


-----------------------------------------------------------------------------
(* The topics of a log, and those of an emitted one. *)

(* The topics behind the signature. *)
Words == SubSeq(log.topics, to_skip(event) + 1, Len(log.topics))

LEMMA WordsOfTopics ==
  ASSUME CallOK, OwnSignature
  PROVE  /\ Words \in Seq(Hash) /\ Words \in Seq(Seq(Byte)) /\ Len(Words) \in Nat
         /\ to_skip(event) = (IF event.anonymous THEN 0 ELSE 1)
         /\ Len(log.topics) = to_skip(event) + Len(Words)
         /\ \A k \in 1..Len(Words) : Words[k] = log.topics[to_skip(event) + k]
         /\ flat_topics(event, log) = FlattenSeq(Words)
         /\ Len(flat_topics(event, log)) = WordLen * Len(Words)
  <1> DEFINE skip == to_skip(event)
             n    == Len(log.topics)
  <1>1. n \in Nat /\ log.topics \in Seq(Hash) /\ skip \in {0, 1} /\ skip <= n
    BY TopicsFlat, LenProperties DEF CallOK
  <1>2. skip = (IF event.anonymous THEN 0 ELSE 1)
    BY DEF to_skip
  <1> HIDE DEF skip
  <1>3. /\ Words \in Seq(Hash) /\ Len(Words) = n - skip
        /\ \A k \in 1..(n - skip) : Words[k] = log.topics[skip + k]
    <2>1. \A i \in (skip + 1)..n : log.topics[i] \in Hash
      BY <1>1, ElementOfSeq
    <2>2. skip + 1 \in Int /\ n \in Int /\ \A i \in (skip + 1)..n : i \in 1..n
      BY <1>1
    <2>3. Words = SubSeq(log.topics, skip + 1, n)
      BY DEF Words, skip
    <2> HIDE DEF n
    <2>4. /\ Words \in Seq(Hash)
          /\ Len(Words) = IF skip + 1 <= n THEN n - (skip + 1) + 1 ELSE 0
          /\ \A i \in 1..(n - (skip + 1) + 1) : Words[i] = log.topics[skip + 1 + i - 1]
      BY <1>1, <2>1, <2>2, <2>3, SubSeqProperties
    <2>5. n - (skip + 1) + 1 = n - skip
          /\ \A i \in 1..(n - skip) : skip + 1 + i - 1 = skip + i
      BY <1>1
    <2> QED
      BY <1>1, <2>4, <2>5
  <1>4. flat_topics(event, log) = flat[Words]
    BY DEF flat_topics, Words
  <1>5. flat[Words] = FlattenSeq(Words) /\ Len(flat[Words]) = WordLen * Len(Words)
    BY <1>3, FlatIsFlattened, FlatBytes
  <1>6. Words \in Seq(Seq(Byte))
    <2>1. Hash \subseteq Seq(Byte)
      BY HashBytes
    <2> QED
      BY <1>3, <2>1
  <1>7. Len(Words) \in Nat /\ n = skip + Len(Words)
    BY <1>1, <1>3
  <1> QED
    BY <1>2, <1>3, <1>4, <1>5, <1>6, <1>7 DEF skip

(* A hash in a topic, as it is read. *)
LEMMA HashRead ==
  ASSUME NEW w \in Hash
  PROVE  LET t     == FixedBytesT(WordLen)
             token == Token("FixedBytes", w, <<>>)
         IN  token \in Tokens /\ OneWord(t) /\ Settled(t, token) /\ enc[t][token] = w
  <1> DEFINE t     == FixedBytesT(WordLen)
             token == Token("FixedBytes", w, <<>>)
  <1>1. w \in Seq(Byte) /\ Len(w) = WordLen /\ WordLen \in Nat /\ WordLen > 4
    BY HashBytes, WordAssumption
  <1>2. t \in ParamTypes /\ t.kind = "FixedBytes" /\ t.size = WordLen
    BY TopicAssumption DEF FixedBytesT, ParamType
  <1>3. token.kind = "FixedBytes" /\ token.val = w /\ token.subs = <<>>
        /\ token = [kind |-> "FixedBytes", val |-> w, subs |-> <<>>]
    BY DEF Token
  <1>4. token \in Tokens
    <2>1. Tokens = TokensDef(TokensTo, Depth)
      BY DepthAssumption, TokensToEquation DEF Tokens
    <2>2. <<>> \in (IF Depth = 0 THEN {<<>>} ELSE Seq(TokensTo[Depth - 1]))
      BY EmptySeq
    <2>3. "FixedBytes" \in Kinds
      BY DEF Kinds
    <2> QED
      BY <1>1, <1>3, <2>1, <2>2, <2>3 DEF TokensDef
  <1> HIDE DEF t, token
  <1>5. Settled(t, token)
    <2>1. Shaped(t, token)
      BY <1>1, <1>2, <1>3 DEF Shaped
    <2>2. token = Token(t.kind, w, <<>>) /\ (t.kind = "FixedBytes" => Len(w) = t.size)
      BY <1>1, <1>2 DEF token
    <2> QED
      BY <1>2, <1>4, <2>1, <2>2, SettledLeaf
  <1>6. enc[t][token] = w
    <2>1. enc[t][token] = EncBody(enc, t, token)
      BY <1>2, <1>4, EncEquation, Zenon DEF EncDef
    <2>2. enc[t][token] = w \o Zeros(WordsFor(WordLen) * WordLen - Len(w))
      BY <1>2, <1>3, <2>1, Zenon DEF EncBody
    <2>3. WordsFor(WordLen) * WordLen - Len(w) = 0
      <3>1. WordLen \in 1..WordLen
        BY <1>1
      <3>2. WordsFor(WordLen) = 1
        BY <1>1, <3>1, WordsForFacts, Zenon
      <3> QED
        BY <1>1, <3>2
    <2>4. Zeros(0) = <<>> /\ w \o <<>> = w
      <3>1. Zeros(0) \in Seq(Byte) /\ Len(Zeros(0)) = 0
        BY ZerosFacts
      <3>2. Zeros(0) = <<>>
        BY <3>1, EmptySeq
      <3> QED
        BY <1>1, <3>2, ConcatEmptySeq
    <2> QED
      BY <2>2, <2>3, <2>4
  <1>7. OneWord(t)
    BY <1>2 DEF OneWord
  <1> QED
    BY <1>4, <1>5, <1>6, <1>7 DEF t, token

Emitted == OfSession /\ CallOK /\ origin.emitted

(* What is known of an emitted log. *)
LEMMA EmittedFacts ==
  ASSUME Emitted
  PROVE  LET inputs == event.inputs
             values == origin.values
         IN  /\ inputs \in Seq(EventParam) /\ values \in Seq(Tokens)
             /\ Len(values) = Len(inputs) /\ DOMAIN values = DOMAIN inputs
             /\ \A i \in DOMAIN inputs :
                  /\ inputs[i] \in EventParam /\ inputs[i].kind \in ParamTypes
                  /\ values[i] \in Tokens /\ Settled(inputs[i].kind, values[i])
             /\ log = Emission(event, values)
  <1>1. PICK s \in Sessions : event = s.event /\ log = s.log /\ origin = s.origin
    BY DEF Emitted, OfSession
  <1>2. /\ origin.values \in Seq(Tokens) /\ Len(origin.values) = Len(event.inputs)
        /\ \A i \in DOMAIN event.inputs : Settled(event.inputs[i].kind, origin.values[i])
        /\ log = Emission(event, origin.values)
    BY <1>1, EmittedAssumption DEF Emitted
  <1>3. event.inputs \in Seq(EventParam)
    BY DEF Emitted, CallOK
  <1>4. DOMAIN origin.values = DOMAIN event.inputs
    BY <1>2, <1>3, LenProperties
  <1>5. ASSUME NEW i \in DOMAIN event.inputs
        PROVE  /\ event.inputs[i] \in EventParam /\ event.inputs[i].kind \in ParamTypes
               /\ origin.values[i] \in Tokens
    <2>1. event.inputs[i] \in EventParam
      BY <1>3, ElementOfSeq, LenProperties
    <2>2. origin.values[i] \in Tokens
      BY <1>2, <1>4, ElementOfSeq, LenProperties
    <2> QED
      BY <2>1, <2>2 DEF EventParam
  <1> QED
    BY <1>2, <1>3, <1>4, <1>5

(* Its topics are those of the indexed parameters, in their order. *)
LEMMA EmittedTopics ==
  ASSUME Emitted
  PROVE  LET ind == indexed_params(event, TRUE)
             ins == Places(event, TRUE)
         IN  /\ OwnSignature /\ Len(Words) = Len(ind)
             /\ \A k \in 1..Len(ind) :
                  Words[k] = TopicOf(origin.values[ins[k]], ind[k].kind)
  <1> DEFINE inputs == event.inputs
             values == origin.values
             ind  == indexed_params(event, TRUE)
             ins  == Places(event, TRUE)
             m    == Len(ind)
             head == IF event.anonymous THEN <<>>
                     ELSE <<Signature(event.name, Kind(event))>>
             row  == [k \in DOMAIN ins |-> TopicOf(values[ins[k]], Kind(event)[ins[k]])]
             h    == Len(head)
  <1>1. log = Emission(event, values) /\ event.inputs \in Seq(EventParam)
    BY EmittedFacts
  <1>2. log.topics = head \o row
    BY <1>1 DEF Emission
  <1>3. /\ m \in Nat /\ DOMAIN ins = 1..m
        /\ \A k \in 1..m : ins[k] \in DOMAIN inputs /\ inputs[ins[k]] = ind[k]
    BY <1>1, PlacesMatch
  <1>4. Kind(event) = KindsOf(inputs)
    BY DEF Kind, KindsOf
  <1>5. \A k \in 1..m : row[k] = TopicOf(values[ins[k]], ind[k].kind)
    BY <1>3 DEF Kind
  <1> DEFINE r(k) == TopicOf(values[ins[k]], Kind(event)[ins[k]])
  <1>6. row = [k \in 1..m |-> row[k]] /\ Len(row) = m
    <2>1. row = [k \in 1..m |-> r(k)]
      BY <1>3
    <2> HIDE DEF row, r, ins, m
    <2> QED
      BY <1>3, <2>1
  <1>7. /\ h = (IF event.anonymous THEN 0 ELSE 1) /\ head = [k \in 1..h |-> head[k]]
        /\ ~event.anonymous => head[1] = signature(event)
    <2>1. event.anonymous \in BOOLEAN
      BY DEF Emitted, CallOK
    <2> QED
      BY <1>4, <2>1 DEF signature
  <1> HIDE DEF head, row
  <1>8. h \in Nat /\ m \in Nat
    <2>1. h = 0 \/ h = 1
      BY <1>7
    <2> HIDE DEF h, m
    <2> QED
      BY <1>3, <2>1
  <1> HIDE DEF m, ind, ins
  <1>9. /\ Len(log.topics) = h + m
        /\ \A k \in 1..(h + m) : log.topics[k] = IF k <= h THEN head[k] ELSE row[k - h]
    <2> DEFINE S == {head[i] : i \in 1..h} \cup {row[i] : i \in 1..m}
    <2>1. (\A i \in 1..h : head[i] \in S) /\ (\A i \in 1..m : row[i] \in S)
      OBVIOUS
    <2>6. Len(head) = h
      OBVIOUS
    <2> HIDE DEF S, h
    <2>2. head \in Seq(S)
      BY <1>7, <1>8, <2>1
    <2>3. row \in Seq(S)
      BY <1>6, <1>8, <2>1
    <2> DEFINE both == head \o row
    <2>4. /\ Len(both) = Len(head) + Len(row)
          /\ \A k \in 1..(Len(head) + Len(row)) :
               both[k] = IF k <= Len(head) THEN head[k] ELSE row[k - Len(head)]
      BY <2>2, <2>3, ConcatProperties, Zenon
    <2> HIDE DEF both
    <2>5. log.topics = both
      BY <1>2 DEF both
    <2> QED
      BY <1>6, <2>4, <2>5, <2>6
  <1> HIDE DEF h
  <1>10. OwnSignature
    <2>1. event.anonymous \in BOOLEAN
      BY DEF Emitted, CallOK
    <2>2. CASE ~event.anonymous
      <3>1. h = 1 /\ head[1] = signature(event)
        BY <1>7, <2>2
      <3>2. 1 \in 1..(h + m) /\ 1 <= h
        BY <1>8, <3>1
      <3>3. log.topics[1] = signature(event)
        BY <1>9, <3>1, <3>2
      <3>4. Len(log.topics) # 0
        BY <1>9, <1>8, <3>1
      <3> QED
        BY <3>3, <3>4 DEF OwnSignature
    <2> QED
      BY <2>1, <2>2 DEF OwnSignature
  <1>11. /\ Len(log.topics) = to_skip(event) + Len(Words) /\ Len(Words) \in Nat
         /\ \A k \in 1..Len(Words) : Words[k] = log.topics[to_skip(event) + k]
         /\ to_skip(event) = h
    BY <1>7, <1>10, WordsOfTopics DEF Emitted
  <1>12. Len(Words) = m
    BY <1>9, <1>11, <1>8
  <1>13. ASSUME NEW k \in 1..m
         PROVE  Words[k] = row[k]
    <2>1. h + k \in 1..(h + m) /\ ~(h + k <= h) /\ (h + k) - h = k
      BY <1>8
    <2>2. log.topics[h + k] = row[k]
      BY <1>9, <2>1
    <2> QED
      BY <1>11, <1>12, <2>2
  <1>14. \A k \in 1..m : Words[k] = TopicOf(values[ins[k]], ind[k].kind)
    BY <1>5, <1>13
  <1> QED
    BY <1>10, <1>12, <1>14 DEF m, ind, ins

(* Each of them is read as what remains of its value. *)
LEMMA SeenTopic ==
  ASSUME Emitted, NEW k \in 1..Len(indexed_params(event, TRUE))
  PROVE  LET t == topic_types(event)[k]
             v == Seen(Places(event, TRUE)[k])
         IN  /\ t \in ParamTypes /\ OneWord(t) /\ v \in Tokens
             /\ Settled(t, v) /\ enc[t][v] = Words[k]
  <1> DEFINE ind == indexed_params(event, TRUE)
             p   == ind[k]
             i   == Places(event, TRUE)[k]
             val == origin.values[i]
             t   == topic_types(event)[k]
             v   == Seen(i)
             w   == Words[k]
  <1>1. /\ event.inputs \in Seq(EventParam)
        /\ \A j \in DOMAIN event.inputs :
             /\ event.inputs[j].kind \in ParamTypes
             /\ origin.values[j] \in Tokens /\ Settled(event.inputs[j].kind, origin.values[j])
    BY EmittedFacts
  <1>2. /\ i \in DOMAIN event.inputs /\ event.inputs[i] = p /\ p.indexed = TRUE
        /\ DOMAIN ind = 1..Len(ind)
    BY <1>1, PlacesMatch
  <1>3. p.kind \in ParamTypes /\ val \in Tokens /\ Settled(p.kind, val)
    BY <1>1, <1>2
  <1>4. t = convert_topic_param_type(p.kind)
    BY <1>2 DEF topic_types
  <1>5. w = TopicOf(val, p.kind) /\ OwnSignature /\ Len(Words) = Len(ind)
    BY EmittedTopics
  <1>6. w \in Hash
    BY <1>5, WordsOfTopics, ElementOfSeq DEF Emitted
  <1>7. v = IF ~IsValue(p.kind) THEN Token("FixedBytes", w, <<>>) ELSE val
    BY <1>2, <1>5 DEF Seen
  <1> HIDE DEF p, i, val, t, v, w
  <1>8. CASE IsValue(p.kind)
    <2>1. v = val
      BY <1>7, <1>8
    <2>2. t = p.kind
      BY <1>4, <1>8 DEF convert_topic_param_type, IsValue
    <2>3. w = enc[p.kind][val]
      BY <1>5, <1>8 DEF TopicOf, IsValue, ValueKinds
    <2>4. OneWord(p.kind)
      BY <1>8 DEF OneWord, IsValue
    <2> QED
      BY <1>3, <2>1, <2>2, <2>3, <2>4 DEF p, i, t, v, w
  <1>9. CASE ~IsValue(p.kind)
    <2>1. v = Token("FixedBytes", w, <<>>)
      BY <1>7, <1>9
    <2>2. t = FixedBytesT(WordLen)
      <3>1. p.kind.kind \in Kinds
        BY <1>3, TypeFields
      <3> QED
        BY <1>4, <1>9, <3>1 DEF convert_topic_param_type, IsValue, Kinds
    <2>3. v \in Tokens /\ OneWord(t) /\ Settled(t, v) /\ enc[t][v] = w
      BY <1>6, <2>1, <2>2, HashRead
    <2> QED
      BY <2>2, <2>3, TopicAssumption DEF p, i, t, v, w
  <1> QED
    BY <1>8, <1>9


-----------------------------------------------------------------------------
(* An emitted log is read as its values. *)

(* Values that are read as they are are what their encoding decodes to. *)
LEMMA SettledDecoded ==
  ASSUME NEW tokens \in Seq(Tokens), NEW ts \in Seq(ParamTypes), Len(tokens) = Len(ts),
         \A i \in DOMAIN ts : Settled(ts[i], tokens[i]),
         NEW d, d = EncAll(tokens, ts), Len(d) < U32 + WordLen,
         d = <<>> => \A i \in DOMAIN ts : is_empty_bytes_valid_encoding(ts[i]),
         NEW strict \in BOOLEAN, strict => \A i \in DOMAIN ts : ts[i] \notin DynamicTypes
  PROVE  Abstract!Decoded(ts, d, strict) = Abstract!Some(tokens)
  <1>1. DOMAIN tokens = DOMAIN ts /\ tokens = [i \in DOMAIN tokens |-> tokens[i]]
    BY LenProperties, SeqDef
  <1>2. \A i \in DOMAIN ts : is_value[ts[i]][tokens[i]] /\ as_read[ts[i]][tokens[i]] = tokens[i]
    BY DEF Settled
  <1>3. Abstract!Decoded(ts, d, strict)
          = Abstract!Some([i \in DOMAIN tokens |-> as_read[ts[i]][tokens[i]]])
    BY <1>2, DecodedIsMeant
  <1>4. [i \in DOMAIN tokens |-> as_read[ts[i]][tokens[i]]] = tokens
    BY <1>1, <1>2
  <1> QED
    BY <1>3, <1>4

(* The topics are read as what they hold of the indexed parameters. *)
LEMMA TopicsMeant ==
  ASSUME Emitted, Len(flat_topics(event, log)) < U32 + WordLen
  PROVE  /\ TopicsIn = Abstract!Some([k \in 1..Len(indexed_params(event, TRUE)) |->
                                        Seen(Places(event, TRUE)[k])])
         /\ Accounted(TopicsIn.val)
  <1> DEFINE m  == Len(indexed_params(event, TRUE))
             ts == topic_types(event)
             s(k) == Seen(Places(event, TRUE)[k])
             T  == [k \in 1..m |-> s(k)]
             d  == flat_topics(event, log)
  <1>1. /\ event.inputs \in Seq(EventParam) /\ validate \in BOOLEAN
        /\ OwnSignature /\ Len(Words) = m
    BY EmittedFacts, EmittedTopics DEF Emitted, CallOK
  <1>2. ts \in Seq(ParamTypes) /\ Len(ts) = m /\ m \in Nat /\ DOMAIN ts = 1..m
    BY <1>1, TypesRead, LenProperties
  <1>3. \A k \in 1..m : /\ ts[k] \in ParamTypes /\ OneWord(ts[k]) /\ s(k) \in Tokens
                        /\ Settled(ts[k], s(k)) /\ enc[ts[k]][s(k)] = Words[k]
    BY SeenTopic
  <1>4. /\ Words \in Seq(Seq(Byte)) /\ d = FlattenSeq(Words) /\ Len(d) = WordLen * Len(Words)
        /\ Len(log.topics) = to_skip(event) + Len(Words)
        /\ to_skip(event) \in {0, 1}
    BY <1>1, WordsOfTopics DEF Emitted
  <1> HIDE DEF m, ts, s, d
  <1>5. T \in Seq(Tokens) /\ Len(T) = m /\ DOMAIN T = 1..m /\ \A k \in 1..m : T[k] = s(k)
    BY <1>2, <1>3
  <1> HIDE DEF T
  <1>6. \A k \in 1..m : /\ ts[k] \notin DynamicTypes /\ is_value[ts[k]][T[k]]
                        /\ Settled(ts[k], T[k]) /\ enc[ts[k]][T[k]] = Words[k]
    <2> TAKE k \in 1..m
    <2>1. is_value[ts[k]][s(k)]
      BY <1>3 DEF Settled
    <2>2. ts[k] \notin DynamicTypes
      BY <1>3, <2>1, OneWordValues
    <2> QED
      BY <1>3, <1>5, <2>1, <2>2
  <1>7. CallParts(T, ts) = Words
    <2>1. /\ CallParts(T, ts) = [k \in 1..m |-> enc[ts[k]][T[k]]]
      BY <1>2 DEF CallParts
    <2>2. Words = [k \in 1..m |-> Words[k]]
      BY <1>1, <1>4, SeqDef, LenProperties
    <2> QED
      BY <1>6, <2>1, <2>2
  <1>8. EncAll(T, ts) = d
    <2>1. EncAll(T, ts) = FlattenSeq(CallParts(T, ts))
      BY <1>2, <1>5, <1>6, StaticCall
    <2> QED
      BY <1>4, <1>7, <2>1
  <1>9. d = <<>> => \A i \in DOMAIN ts : is_empty_bytes_valid_encoding(ts[i])
    <2> SUFFICES ASSUME d = <<>> PROVE m = 0
      BY <1>2
    <2>1. WordLen * m = 0
      BY <1>1, <1>4
    <2> QED
      BY <1>2, <2>1, WordAssumption
  <1>10. Abstract!Decoded(ts, d, validate) = Abstract!Some(T)
    <2>1. Len(d) < U32 + WordLen
      BY DEF d
    <2> QED
      BY <1>1, <1>2, <1>5, <1>6, <1>8, <1>9, <2>1, SettledDecoded
  <1>11. TopicsIn = Abstract!Some(T)
    BY <1>10 DEF TopicsIn, ts, d
  <1>12. Accounted(TopicsIn.val)
    <2>1. TopicsIn.val = T
      BY <1>11 DEF Abstract!Some
    <2>2. Len(log.topics) - to_skip(event) = m
      BY <1>1, <1>2, <1>4
    <2> QED
      BY <1>5, <2>1, <2>2 DEF Accounted
  <1> QED
    BY <1>11, <1>12 DEF T, s, m

(* The data is read as the values of the others. *)
LEMMA DataMeant ==
  ASSUME Emitted, Len(log.data) < U32 + WordLen, DataReadable,
         validate => DataKinds \cap DynamicTypes = {}
  PROVE  DataIn = Abstract!Some([k \in 1..Len(indexed_params(event, FALSE)) |->
                                   Seen(Places(event, FALSE)[k])])
  <1> DEFINE oth  == indexed_params(event, FALSE)
             outs == Places(event, FALSE)
             q    == Len(oth)
             ts   == data_types(event)
             values == origin.values
             D    == [k \in 1..q |-> values[outs[k]]]
  <1>1. /\ event.inputs \in Seq(EventParam) /\ validate \in BOOLEAN
        /\ \A i \in DOMAIN event.inputs :
             /\ event.inputs[i].kind \in ParamTypes
             /\ values[i] \in Tokens /\ Settled(event.inputs[i].kind, values[i])
        /\ log = Emission(event, values)
    BY EmittedFacts DEF Emitted, CallOK
  <1>2. /\ q \in Nat /\ DOMAIN outs = 1..q /\ DOMAIN oth = 1..q
        /\ \A k \in 1..q : /\ outs[k] \in DOMAIN event.inputs
                           /\ event.inputs[outs[k]] = oth[k] /\ oth[k].indexed = FALSE
    BY <1>1, PlacesMatch
  <1>3. ts \in Seq(ParamTypes) /\ Len(ts) = q /\ DOMAIN ts = 1..q
    BY <1>1, TypesRead, LenProperties
  <1>4. ts = [k \in 1..q |-> oth[k].kind]
    BY <1>2 DEF data_types, KindsOf
  <1>5. log.data = EncAll(D, ts)
    <2>1. log.data = EncAll([k \in DOMAIN outs |-> values[outs[k]]],
                            [k \in DOMAIN outs |-> Kind(event)[outs[k]]])
      BY <1>1 DEF Emission
    <2>2. [k \in DOMAIN outs |-> Kind(event)[outs[k]]] = ts
      BY <1>2, <1>4 DEF Kind
    <2> QED
      BY <1>2, <2>1, <2>2
  <1>6. D = [k \in 1..q |-> Seen(outs[k])]
    BY <1>2 DEF Seen
  <1> HIDE DEF oth, outs, q, ts, values
  <1>7. DataKinds = {ts[k] : k \in 1..q}
    <2>1. DataKinds = {p.kind : p \in Range(oth)}
      BY DEF DataKinds, oth
    <2>2. Range(oth) = {oth[k] : k \in 1..q}
      BY <1>2 DEF Range
    <2>3. \A k \in 1..q : ts[k] = oth[k].kind
      BY <1>4
    <2> QED
      BY <2>1, <2>2, <2>3
  <1>8. \A k \in 1..q : values[outs[k]] \in Tokens /\ Settled(ts[k], values[outs[k]])
    BY <1>1, <1>2, <1>4
  <1>9. D \in Seq(Tokens) /\ Len(D) = q /\ \A k \in 1..q : Settled(ts[k], D[k])
    BY <1>2, <1>8
  <1> HIDE DEF D
  <1>10. Abstract!Decoded(ts, log.data, validate) = Abstract!Some(D)
    <2> DEFINE d == log.data
    <2>1. d = <<>> => \A i \in DOMAIN ts : is_empty_bytes_valid_encoding(ts[i])
      BY <1>3, <1>7 DEF DataReadable
    <2>2. validate => \A i \in DOMAIN ts : ts[i] \notin DynamicTypes
      BY <1>3, <1>7
    <2>3. Len(d) < U32 + WordLen /\ d = EncAll(D, ts)
      BY <1>5
    <2> HIDE DEF d
    <2>4. Abstract!Decoded(ts, d, validate) = Abstract!Some(D)
      BY <1>1, <1>3, <1>9, <2>1, <2>2, <2>3, SettledDecoded
    <2> QED
      BY <2>4 DEF d
  <1> QED
    BY <1>6, <1>10 DEF DataIn, ts, q, oth, outs

(* So the parser returns the values, in the order of their declaration. *)
LEMMA EmissionParsed == LInv => ParsesEmission
  <1> SUFFICES ASSUME LInv, origin.emitted, phase = "done", DistinctNames,
                      LogFits, DataReadable, validate => DataKinds \cap DynamicTypes = {}
               PROVE  AllRetrieved
    BY DEF ParsesEmission
  <1> DEFINE m == Len(indexed_params(event, TRUE))
             q == Len(indexed_params(event, FALSE))
             T == [k \in 1..m |-> Seen(Places(event, TRUE)[k])]
             D == [k \in 1..q |-> Seen(Places(event, FALSE)[k])]
             V == [i \in DOMAIN event.inputs |-> Seen(i)]
  <1>1. Emitted /\ parsed = ParsedAtOnce
    BY DEF LInv, PInv, Reading, Emitted
  <1>2. event.inputs \in Seq(EventParam)
    BY <1>1 DEF Emitted, CallOK
  <1>3. OwnSignature
    BY <1>1, EmittedTopics
  <1>4. TopicsIn = Abstract!Some(T) /\ Accounted(TopicsIn.val)
    BY <1>1, TopicsMeant DEF LogFits
  <1>5. DataIn = Abstract!Some(D)
    BY <1>1, DataMeant DEF LogFits
  <1>6. Readable /\ TopicsIn.val = T /\ DataIn.val = D
    BY <1>3, <1>4, <1>5 DEF Readable, Abstract!Some
  <1>7. SplitOf(T, D, V)
    <2>1. /\ \A k \in 1..m : Places(event, TRUE)[k] \in DOMAIN event.inputs
          /\ \A k \in 1..q : Places(event, FALSE)[k] \in DOMAIN event.inputs
      BY <1>2, PlacesMatch
    <2> QED
      BY <2>1 DEF SplitOf
  <1> HIDE DEF T, D, V
  <1>8. parsed = decoded_params(event, named_tokens(
                   named(indexed_params(event, TRUE), T)
                     \o named(indexed_params(event, FALSE), D)))
    BY <1>1, <1>6 DEF ParsedAtOnce
  <1>9. parsed = Ok([i \in DOMAIN event.inputs |-> LogParam(event.inputs[i].name, V[i])])
    BY <1>2, <1>7, <1>8, LookedUp
  <1>10. [i \in DOMAIN event.inputs |-> LogParam(event.inputs[i].name, V[i])]
           = [i \in DOMAIN event.inputs |-> LogParam(event.inputs[i].name, Seen(i))]
    BY DEF V
  <1> QED
    BY <1>9, <1>10 DEF AllRetrieved

(* A log of the event's contract is parsed to the values it was emitted    *)
(* with, reference types in topics aside, whatever their types, however    *)
(* indexed parameters and the others are mixed.                            *)
THEOREM EmissionAlwaysParsed ==
  ASSUME Wide, Roomy
  PROVE  EventSpec => []ParsesEmission
  <1>1. EventSpec => []LInv
    BY InductiveUser
  <1>2. LInv => ParsesEmission
    BY EmissionParsed
  <1> QED
    BY <1>1, <1>2, PTL


-----------------------------------------------------------------------------
(* A log that parse_log_validate accepts is an emission. *)

(* There is a token for each type. *)
LEMMA DecodedRow ==
  ASSUME NEW ts, NEW d, NEW strict, Abstract!Decoded(ts, d, strict).defined
  PROVE  LET vals == Abstract!Decoded(ts, d, strict).val
         IN  /\ DOMAIN vals = 1..Len(ts) /\ vals = [k \in 1..Len(ts) |-> vals[k]]
             /\ strict => Abstract!HeadsLen(Abstract!head_len, Abstract!TupleT(ts), Len(ts))
                            = Len(d)
  <1> DEFINE args  == Abstract!TupleT(ts)
             n     == Len(ts)
             start == [data |-> d, strict |-> strict, base |-> 0, at |-> 0]
             row   == Abstract!Row(Abstract!value, args, n, start)
             wrong == \/ d = <<>> /\ \E i \in DOMAIN ts :
                                        ~Abstract!is_empty_bytes_valid_encoding(ts[i])
                      \/ strict /\ Abstract!HeadsLen(Abstract!head_len, args, n) # Len(d)
  <1>1. Abstract!Decoded(ts, d, strict) = IF wrong THEN Abstract!Undefined ELSE row
    BY DEF Abstract!Decoded
  <1>2. ~Abstract!Undefined.defined
    BY DEF Abstract!Undefined
  <1> HIDE DEF row
  <1>3. ~wrong /\ Abstract!Decoded(ts, d, strict) = row /\ row.defined
    <2> HIDE DEF wrong
    <2> QED BY <1>1, <1>2
  <1> DEFINE e(i) == Abstract!value[Abstract!SubType(args, i)][
                       Abstract!Skip(start, Abstract!HeadsLen(Abstract!head_len, args, i - 1))]
  <1>4. row = IF \E i \in 1..n : ~e(i).defined THEN Abstract!Undefined
              ELSE Abstract!Some([i \in 1..n |-> e(i).val])
    BY DEF row, Abstract!Row
  <1>5. row = Abstract!Some([i \in 1..n |-> e(i).val])
    <2> HIDE DEF e
    <2> QED BY <1>2, <1>3, <1>4
  <1>6. row.val = [i \in 1..n |-> e(i).val]
    BY <1>5 DEF Abstract!Some
  <1> HIDE DEF e
  <1>7. DOMAIN row.val = 1..n /\ row.val = [k \in 1..n |-> row.val[k]]
    BY <1>6
  <1> QED
    BY <1>3, <1>7

(* What DecodedExact says, without the code's encoder. *)
LEMMA EncodesExactly ==
  ASSUME NEW ts \in Seq(ParamTypes), \A i \in DOMAIN ts : Plain(ts[i]),
         NEW d \in Seq(Byte), Len(d) < U32 + WordLen, NEW strict \in BOOLEAN, strict,
         Abstract!Decoded(ts, d, strict).defined,
         NEW tokens \in Seq(Tokens), tokens = Abstract!Decoded(ts, d, strict).val
  PROVE  /\ EncAll(tokens, ts) = d /\ Len(tokens) = Len(ts)
         /\ \A i \in DOMAIN ts : Settled(ts[i], tokens[i])
  <1>1. \A i \in DOMAIN ts : usual[ts[i]] /\ ts[i] \notin DynamicTypes
    BY DEF Plain
  <1>2. Len(tokens) = Len(ts) /\ \A i \in DOMAIN ts : Settled(ts[i], tokens[i])
    BY <1>1, DecodedSettled
  <1>3. \A i \in DOMAIN ts : is_value[ts[i]][tokens[i]]
    BY <1>2 DEF Settled
  <1>4. Len(EncAll(tokens, ts))
          = Abstract!HeadsLen(Abstract!head_len, Abstract!TupleT(ts), Len(ts))
    BY <1>1, <1>2, <1>3, StaticCallLen
  <1>5. Len(EncAll(tokens, ts)) = Len(d)
    BY <1>4, DecodedRow
  <1>6. encode(tokens) = EncAll(tokens, ts)
    BY <1>2, <1>3, <1>5, EncodeIsCanonical
  <1>7. encode(tokens) = d
    BY DecodedExact
  <1> QED
    BY <1>2, <1>6, <1>7

(* V are the values of the parameters, and none is out of the theorem. *)
StrictlyReturned(V) ==
  /\ OfSession /\ CallOK /\ validate /\ Readable /\ LogFits
  /\ SplitOf(TopicsIn.val, DataIn.val, V)
  /\ \A i \in DOMAIN event.inputs :
       LET p == event.inputs[i]
       IN  /\ V[i] \in Tokens /\ usual[p.kind] /\ ~has_bool[p.kind]
           /\ p.indexed = TRUE => IsValue(p.kind)
           /\ p.indexed = FALSE => p.kind \notin DynamicTypes

(* The topics are those of the values. *)
LEMMA StrictTopics ==
  ASSUME NEW V, StrictlyReturned(V)
  PROVE  LET ind == indexed_params(event, TRUE)
             ins == Places(event, TRUE)
         IN  /\ Len(Words) = Len(ind)
             /\ \A k \in 1..Len(ind) : Words[k] = TopicOf(V[ins[k]], ind[k].kind)
  <1> DEFINE ind == indexed_params(event, TRUE)
             ins == Places(event, TRUE)
             m   == Len(ind)
             ts  == topic_types(event)
             T   == TopicsIn.val
             d   == flat_topics(event, log)
  <1>1. /\ event.inputs \in Seq(EventParam) /\ validate \in BOOLEAN /\ validate /\ CallOK
        /\ OwnSignature /\ Accounted(T) /\ TopicsIn.defined
        /\ Len(d) < U32 + WordLen
    BY DEF StrictlyReturned, CallOK, Readable, LogFits
  <1>2. /\ m \in Nat /\ DOMAIN ind = 1..m
        /\ \A k \in 1..m : /\ ins[k] \in DOMAIN event.inputs
                           /\ event.inputs[ins[k]] = ind[k] /\ ind[k].indexed = TRUE
                           /\ ind[k] \in EventParam
    BY <1>1, PlacesMatch
  <1>3. ts \in Seq(ParamTypes) /\ Len(ts) = m /\ DOMAIN ts = 1..m
    BY <1>1, <1>2, TypesRead, LenProperties
  <1>4. \A k \in 1..m : ts[k] = convert_topic_param_type(ind[k].kind)
    BY <1>2 DEF topic_types
  <1>5. \A k \in 1..m : T[k] = V[ins[k]]
    BY DEF StrictlyReturned, SplitOf
  <1>6. DOMAIN T = 1..m /\ T = [k \in 1..m |-> T[k]]
    <2>1. DOMAIN T = 1..Len(ts) /\ T = [k \in 1..Len(ts) |-> T[k]]
      BY <1>1, DecodedRow DEF TopicsIn
    <2> QED
      BY <1>3, <2>1
  <1>7. /\ Words \in Seq(Seq(Byte)) /\ Words \in Seq(Hash) /\ Len(Words) \in Nat
        /\ d = FlattenSeq(Words) /\ Len(log.topics) = to_skip(event) + Len(Words)
        /\ to_skip(event) \in {0, 1} /\ d \in Seq(Byte)
    BY <1>1, WordsOfTopics, TopicsFlat
  <1>8. Abstract!Decoded(ts, d, validate).defined /\ T = Abstract!Decoded(ts, d, validate).val
    BY <1>1 DEF TopicsIn
  <1> HIDE DEF ind, ins, m, ts, T, d
  <1>9. \A k \in 1..m : /\ T[k] \in Tokens /\ ts[k] \in ParamTypes
                        /\ OneWord(ts[k]) /\ Plain(ts[k]) /\ ts[k] = ind[k].kind
    <2> TAKE k \in 1..m
    <2>1. /\ ind[k].kind \in ParamTypes /\ IsValue(ind[k].kind)
          /\ usual[ind[k].kind] /\ ~has_bool[ind[k].kind] /\ T[k] \in Tokens
      BY <1>2, <1>5 DEF StrictlyReturned, EventParam
    <2>2. ts[k] = ind[k].kind
      BY <1>4, <2>1 DEF convert_topic_param_type, IsValue
    <2>3. OneWord(ts[k])
      BY <2>1, <2>2 DEF IsValue, OneWord
    <2>4. ts[k] \notin DynamicTypes
      BY <2>1, <2>2, <2>3, IsDynamic DEF OneWord, DynamicTypes
    <2> QED
      BY <2>1, <2>2, <2>3, <2>4 DEF Plain
  <1>10. T \in Seq(Tokens) /\ Len(T) = m
    BY <1>2, <1>6, <1>9
  <1>11. EncAll(T, ts) = d /\ \A k \in 1..m : Settled(ts[k], T[k])
    <2>1. \A i \in DOMAIN ts : Plain(ts[i])
      BY <1>3, <1>9
    <2>2. EncAll(T, ts) = d /\ \A i \in DOMAIN ts : Settled(ts[i], T[i])
      <3>1. Len(d) < U32 + WordLen
        BY <1>1
      <3>2. d \in Seq(Byte)
        BY <1>7
      <3> QED
        BY <1>1, <1>3, <1>8, <1>10, <2>1, <3>1, <3>2, EncodesExactly
    <2> QED
      BY <1>3, <2>2
  <1>12. \A k \in 1..m : /\ is_value[ts[k]][T[k]] /\ ts[k] \notin DynamicTypes
                         /\ enc[ts[k]][T[k]] \in Seq(Byte) /\ Len(enc[ts[k]][T[k]]) = WordLen
    <2> TAKE k \in 1..m
    <2>1. is_value[ts[k]][T[k]]
      BY <1>11 DEF Settled
    <2> QED
      BY <1>9, <2>1, OneWordValues
  <1>13. Len(Words) = m
    BY <1>1, <1>2, <1>7, <1>10 DEF Accounted
  <1>14. CallParts(T, ts) = Words
    <2> DEFINE P == CallParts(T, ts)
    <2>1. EncAll(T, ts) = FlattenSeq(P) /\ P \in Seq(Seq(Byte)) /\ Len(P) = m
      BY <1>3, <1>10, <1>12, StaticCall
    <2>2. \A k \in 1..m : P[k] = enc[ts[k]][T[k]]
      BY <1>3 DEF CallParts
    <2> HIDE DEF P
    <2>3. \A k \in 1..Len(P) : Len(P[k]) = Len(Words[k])
      <3> TAKE k \in 1..Len(P)
      <3>1. Words[k] \in Hash
        BY <1>7, <1>13, <2>1, ElementOfSeq
      <3> QED
        BY <1>12, <2>1, <2>2, <3>1, HashBytes
    <2>4. FlattenSeq(P) = FlattenSeq(Words) /\ Len(P) = Len(Words)
      BY <1>7, <1>11, <1>13, <2>1
    <2>5. P = Words
      BY <1>7, <2>1, <2>3, <2>4, PartsKnown
    <2> QED
      BY <2>5 DEF P
  <1>15. ASSUME NEW k \in 1..m
         PROVE  Words[k] = TopicOf(V[ins[k]], ind[k].kind)
    <2>1. Words[k] = enc[ts[k]][T[k]]
      BY <1>3, <1>14 DEF CallParts
    <2>2. TopicOf(T[k], ts[k]) = enc[ts[k]][T[k]]
      BY <1>9 DEF TopicOf, ValueKinds, OneWord
    <2> QED
      BY <1>5, <1>9, <2>1, <2>2
  <1> QED
    BY <1>13, <1>15 DEF ind, ins, m

(* The data is the encoding of the others. *)
LEMMA StrictData ==
  ASSUME NEW V, StrictlyReturned(V)
  PROVE  log.data = EncAll([k \in 1..Len(indexed_params(event, FALSE)) |->
                              V[Places(event, FALSE)[k]]],
                           data_types(event))
  <1> DEFINE oth  == indexed_params(event, FALSE)
             outs == Places(event, FALSE)
             q    == Len(oth)
             ts   == data_types(event)
             D    == DataIn.val
             d    == log.data
  <1>1. /\ event.inputs \in Seq(EventParam) /\ validate \in BOOLEAN /\ validate
        /\ DataIn.defined /\ Len(d) < U32 + WordLen /\ d \in Seq(Byte)
    BY DEF StrictlyReturned, CallOK, Readable, LogFits
  <1>2. /\ q \in Nat /\ DOMAIN oth = 1..q
        /\ \A k \in 1..q : /\ outs[k] \in DOMAIN event.inputs
                           /\ event.inputs[outs[k]] = oth[k] /\ oth[k].indexed = FALSE
    BY <1>1, PlacesMatch
  <1>3. ts \in Seq(ParamTypes) /\ Len(ts) = q /\ DOMAIN ts = 1..q
    BY <1>1, <1>2, TypesRead, LenProperties
  <1>4. \A k \in 1..q : ts[k] = oth[k].kind
    BY <1>2 DEF data_types, KindsOf
  <1>5. \A k \in 1..q : D[k] = V[outs[k]]
    BY DEF StrictlyReturned, SplitOf
  <1>6. D = [k \in 1..q |-> D[k]]
    <2>1. D = [k \in 1..Len(ts) |-> D[k]]
      BY <1>1, DecodedRow DEF DataIn
    <2> QED
      BY <1>3, <2>1
  <1>7. Abstract!Decoded(ts, d, validate).defined /\ D = Abstract!Decoded(ts, d, validate).val
    BY <1>1 DEF DataIn
  <1> HIDE DEF oth, outs, q, ts, D, d
  <1>8. \A k \in 1..q : D[k] \in Tokens /\ Plain(ts[k])
    BY <1>2, <1>4, <1>5 DEF StrictlyReturned, Plain
  <1>9. D \in Seq(Tokens) /\ \A i \in DOMAIN ts : Plain(ts[i])
    BY <1>2, <1>3, <1>6, <1>8
  <1>10. EncAll(D, ts) = d
    BY <1>1, <1>3, <1>7, <1>9, EncodesExactly
  <1>11. D = [k \in 1..q |-> V[outs[k]]]
    BY <1>5, <1>6
  <1> QED
    BY <1>10, <1>11 DEF oth, outs, q, ts, d


(* A log with such topics and such data is the emission of the values. *)
LEMMA EmissionOf ==
  ASSUME OfSession, CallOK, OwnSignature,
         NEW V, Len(Words) = Len(indexed_params(event, TRUE)),
         \A k \in 1..Len(indexed_params(event, TRUE)) :
           Words[k] = TopicOf(V[Places(event, TRUE)[k]], indexed_params(event, TRUE)[k].kind),
         log.data = EncAll([k \in 1..Len(indexed_params(event, FALSE)) |->
                              V[Places(event, FALSE)[k]]],
                           data_types(event))
  PROVE  log = Emission(event, V)
  <1> DEFINE ind  == indexed_params(event, TRUE)
             ins  == Places(event, TRUE)
             m    == Len(ind)
             oth  == indexed_params(event, FALSE)
             outs == Places(event, FALSE)
             q    == Len(oth)
             head == IF event.anonymous THEN <<>>
                     ELSE <<Signature(event.name, Kind(event))>>
             r(k) == TopicOf(V[ins[k]], Kind(event)[ins[k]])
             row  == [k \in DOMAIN ins |-> r(k)]
             skip == to_skip(event)
             em   == Emission(event, V)
  <1>1. /\ event.inputs \in Seq(EventParam) /\ event.anonymous \in BOOLEAN
        /\ log.topics \in Seq(Hash)
    BY DEF CallOK
  <1>2. /\ m \in Nat /\ DOMAIN ins = 1..m
        /\ \A k \in 1..m : ins[k] \in DOMAIN event.inputs /\ event.inputs[ins[k]] = ind[k]
    BY <1>1, PlacesMatch
  <1>3. /\ q \in Nat /\ DOMAIN outs = 1..q /\ DOMAIN oth = 1..q
        /\ \A k \in 1..q : outs[k] \in DOMAIN event.inputs /\ event.inputs[outs[k]] = oth[k]
    BY <1>1, PlacesMatch
  <1>4. em = [topics |-> head \o row,
              data   |-> EncAll([k \in DOMAIN outs |-> V[outs[k]]],
                                [k \in DOMAIN outs |-> Kind(event)[outs[k]]])]
    BY DEF Emission
  <1>5. log.data = EncAll([k \in DOMAIN outs |-> V[outs[k]]],
                          [k \in DOMAIN outs |-> Kind(event)[outs[k]]])
    <2>1. [k \in DOMAIN outs |-> Kind(event)[outs[k]]] = data_types(event)
      BY <1>3 DEF Kind, data_types, KindsOf
    <2> QED
      BY <1>3, <2>1
  <1>6. /\ Words \in Seq(Hash) /\ Len(log.topics) = skip + m
        /\ skip = (IF event.anonymous THEN 0 ELSE 1)
        /\ \A k \in 1..m : Words[k] = log.topics[skip + k]
    BY WordsOfTopics
  <1>7. \A k \in 1..m : r(k) = Words[k]
    BY <1>2 DEF Kind
  <1>8. ~event.anonymous => head = <<log.topics[1]>>
    <2>1. Kind(event) = KindsOf(event.inputs)
      BY DEF Kind, KindsOf
    <2> QED
      BY <2>1 DEF OwnSignature, signature
  <1>9. event.anonymous => head = <<>>
    OBVIOUS
  <1> HIDE DEF head, row, r, em, ins, outs, ind, m, q, skip
  <1>10. row = [k \in 1..m |-> Words[k]]
    BY <1>2, <1>7 DEF row
  <1>11. row \in Seq(Hash) /\ Len(row) = m /\ \A k \in 1..m : row[k] = Words[k]
    <2>1. \A k \in 1..m : Words[k] \in Hash
      <3>1. Len(Words) = m
        BY DEF m, ind
      <3> QED
        BY <1>6, <3>1, ElementOfSeq
    <2> QED
      BY <1>2, <1>10, <2>1
  <1>12. head \in Seq(Hash) /\ Len(head) = skip /\ skip \in {0, 1}
         /\ \A k \in 1..skip : head[k] = log.topics[k]
    <2>1. CASE event.anonymous
      <3>1. head = <<>> /\ skip = 0
        BY <1>6, <1>9, <2>1
      <3> QED
        BY <3>1
    <2>2. CASE ~event.anonymous
      <3> DEFINE w == log.topics[1]
      <3>1. w \in Hash
        <4>1. 1 \in 1..Len(log.topics)
          BY <1>2, <1>6, <2>2
        <4> QED
          BY <1>1, <4>1, ElementOfSeq
      <3>2. head = <<w>> /\ skip = 1
        BY <1>6, <1>8, <2>2
      <3> HIDE DEF w
      <3>3. head \in Seq(Hash) /\ Len(head) = 1 /\ head[1] = w
        BY <3>1, <3>2
      <3> QED
        BY <3>2, <3>3 DEF w
    <2> QED
      BY <1>1, <2>1, <2>2
  <1>13. log.topics = head \o row
    <2> DEFINE both == head \o row
    <2>1. /\ both \in Seq(Hash) /\ Len(both) = Len(head) + Len(row)
          /\ \A k \in 1..(Len(head) + Len(row)) :
               both[k] = IF k <= Len(head) THEN head[k] ELSE row[k - Len(head)]
      <3>1. head \in Seq(Hash) /\ row \in Seq(Hash)
        BY <1>11, <1>12
      <3> QED
        BY <3>1, ConcatProperties, Zenon
    <2> HIDE DEF both
    <2>2. \A k \in 1..(skip + m) : both[k] = IF k <= skip THEN head[k] ELSE row[k - skip]
      BY <1>11, <1>12, <2>1
    <2>3. \A k \in 1..Len(log.topics) : log.topics[k] = both[k]
      <3> TAKE k \in 1..Len(log.topics)
      <3>1. k \in 1..(skip + m)
        BY <1>6
      <3>2. CASE k <= skip
        <4>1. k \in 1..skip
          BY <1>12, <3>1, <3>2
        <4> QED
          BY <1>12, <2>2, <3>1, <3>2, <4>1
      <3>3. CASE ~(k <= skip)
        <4> DEFINE j == k - skip
        <4>1. j \in 1..m /\ skip + j = k
          BY <1>2, <1>12, <3>1, <3>3
        <4>2. both[k] = row[j]
          BY <2>2, <3>1, <3>3
        <4> HIDE DEF j
        <4> QED
          BY <1>6, <1>11, <4>1, <4>2
      <3> QED
        BY <3>2, <3>3
    <2>4. Len(log.topics) = Len(both)
      BY <1>6, <1>11, <1>12, <2>1
    <2>5. log.topics = both
      BY <1>1, <2>1, <2>3, <2>4, SeqEqual
    <2> QED
      BY <2>5 DEF both
  <1>14. log = [topics |-> log.topics, data |-> log.data]
    BY SessionsAssumption DEF OfSession
  <1> QED
    BY <1>4, <1>5, <1>13, <1>14 DEF em

(* The emission only depends on the values of the parameters. *)
LEMMA SameEmission ==
  ASSUME event.inputs \in Seq(EventParam), NEW V, NEW W,
         \A i \in DOMAIN event.inputs : V[i] = W[i]
  PROVE  Emission(event, V) = Emission(event, W)
  <1> DEFINE ins  == Places(event, TRUE)
             outs == Places(event, FALSE)
             K    == Kind(event)
  <1>1. \A k \in DOMAIN ins : ins[k] \in DOMAIN event.inputs
    BY PlacesMatch
  <1>2. \A k \in DOMAIN outs : outs[k] \in DOMAIN event.inputs
    BY PlacesMatch
  <1> HIDE DEF K
  <1>3. [k \in DOMAIN ins |-> TopicOf(V[ins[k]], K[ins[k]])]
          = [k \in DOMAIN ins |-> TopicOf(W[ins[k]], K[ins[k]])]
    <2> HIDE DEF ins
    <2>1. \A k \in DOMAIN ins : V[ins[k]] = W[ins[k]]
      BY <1>1
    <2>2. \A k \in DOMAIN ins : TopicOf(V[ins[k]], K[ins[k]]) = TopicOf(W[ins[k]], K[ins[k]])
      BY <2>1
    <2> QED
      BY <2>2
  <1>4. [k \in DOMAIN outs |-> V[outs[k]]] = [k \in DOMAIN outs |-> W[outs[k]]]
    <2> HIDE DEF outs
    <2> QED BY <1>2
  <1> QED
    BY <1>3, <1>4, Zenon DEF Emission, K

(* The lengths of a log that is returned are u32, bytesN holds one to a    *)
(* word of bytes, and the values are tokens.                               *)
ExactableLog ==
  parsed.status = "Ok" =>
    /\ LogFits
    /\ \A i \in DOMAIN event.inputs : usual[event.inputs[i].kind]
    /\ \A i \in DOMAIN parsed.val : parsed.val[i].value \in Tokens

LEMMA StrictlyParsed == LInv => (ExactableLog => StrictLogExact)
  <1> SUFFICES ASSUME LInv, ExactableLog, parsed.status = "Ok", validate, DistinctNames,
                      \A kind \in IndexedKinds : IsValue(kind),
                      \A kind \in IndexedKinds \cup DataKinds : ~has_bool[kind],
                      DataKinds \cap DynamicTypes = {}
               PROVE  log = Emission(event, [i \in DOMAIN parsed.val |-> parsed.val[i].value])
    BY DEF StrictLogExact
  <1> DEFINE inputs == event.inputs
             T == TopicsIn.val
             D == DataIn.val
  <1>1. OfSession /\ CallOK /\ inputs \in Seq(EventParam)
    BY DEF LInv, PInv, CallOK
  <1>2. phase = "done" /\ parsed = ParsedAtOnce
    BY DEF LInv, PInv, Reading, NoResult
  <1>3. Readable
    <2>1. Err.status # "Ok"
      BY DEF Err
    <2> QED
      BY <1>2, <2>1 DEF ParsedAtOnce
  <1>4. PICK V : SplitOf(T, D, V)
    <2>1. DOMAIN T = 1..Len(indexed_params(event, TRUE))
      <3>1. DOMAIN T = 1..Len(topic_types(event))
        BY <1>3, DecodedRow DEF Readable, TopicsIn
      <3> QED
        BY <1>1, <3>1, TypesRead
    <2>2. DOMAIN D = 1..Len(indexed_params(event, FALSE))
      <3>1. DOMAIN D = 1..Len(data_types(event))
        BY <1>3, DecodedRow DEF Readable, DataIn
      <3> QED
        BY <1>1, <3>1, TypesRead
    <2> HIDE DEF T, D
    <2> QED
      BY <1>1, <2>1, <2>2, PartsJoin
  <1>5. parsed = Ok([i \in DOMAIN inputs |-> LogParam(inputs[i].name, V[i])])
    <2>1. parsed = decoded_params(event, named_tokens(
                     named(indexed_params(event, TRUE), T)
                       \o named(indexed_params(event, FALSE), D)))
      BY <1>2, <1>3 DEF ParsedAtOnce
    <2> HIDE DEF T, D
    <2> QED
      BY <1>1, <1>4, <2>1, LookedUp
  <1> DEFINE values == [i \in DOMAIN parsed.val |-> parsed.val[i].value]
  <1>6. DOMAIN parsed.val = DOMAIN inputs
        /\ \A i \in DOMAIN inputs : parsed.val[i].value = V[i]
    BY <1>5 DEF Ok, LogParam
  <1>7. \A i \in DOMAIN inputs : values[i] = V[i]
    BY <1>6
  <1>8. StrictlyReturned(V)
    <2>1. LogFits
      BY DEF ExactableLog
    <2>2. ASSUME NEW i \in DOMAIN inputs
          PROVE  /\ V[i] \in Tokens /\ usual[inputs[i].kind] /\ ~has_bool[inputs[i].kind]
                 /\ inputs[i].indexed = TRUE => IsValue(inputs[i].kind)
                 /\ inputs[i].indexed = FALSE => inputs[i].kind \notin DynamicTypes
      <3> DEFINE p == inputs[i]
      <3>1. V[i] \in Tokens /\ usual[p.kind]
        BY <1>6 DEF ExactableLog
      <3>2. p.indexed = TRUE => p.kind \in IndexedKinds
        <4> SUFFICES ASSUME p.indexed = TRUE PROVE p.kind \in IndexedKinds
          OBVIOUS
        <4> DEFINE ind == indexed_params(event, TRUE)
        <4>1. PICK k \in 1..Len(ind) : Places(event, TRUE)[k] = i
          BY <1>1, PlacesMatch
        <4>2. k \in DOMAIN ind /\ ind[k] = p
          BY <1>1, <4>1, PlacesMatch
        <4>3. p \in Range(ind)
          BY <4>2 DEF Range
        <4> QED
          BY <4>3 DEF IndexedKinds
      <3>3. p.indexed = FALSE => p.kind \in DataKinds
        <4> SUFFICES ASSUME p.indexed = FALSE PROVE p.kind \in DataKinds
          OBVIOUS
        <4> DEFINE oth == indexed_params(event, FALSE)
        <4>1. PICK k \in 1..Len(oth) : Places(event, FALSE)[k] = i
          BY <1>1, PlacesMatch
        <4>2. k \in DOMAIN oth /\ oth[k] = p
          BY <1>1, <4>1, PlacesMatch
        <4>3. p \in Range(oth)
          BY <4>2 DEF Range
        <4> QED
          BY <4>3 DEF DataKinds
      <3>4. p.indexed \in BOOLEAN
        <4>1. p \in EventParam
          BY <1>1, ElementOfSeq, LenProperties
        <4> QED
          BY <4>1 DEF EventParam
      <3> QED
        BY <3>1, <3>2, <3>3, <3>4
    <2> QED
      BY <1>1, <1>3, <1>4, <2>1, <2>2 DEF StrictlyReturned
  <1>9. log = Emission(event, V)
    <2>1. OwnSignature
      BY <1>3 DEF Readable
    <2> QED
      BY <1>1, <1>8, <2>1, StrictTopics, StrictData, EmissionOf
  <1> HIDE DEF values
  <1>10. Emission(event, V) = Emission(event, values)
    BY <1>1, <1>7, SameEmission
  <1> QED
    BY <1>9, <1>10 DEF values

(* What parse_log_validate accepts is what the event's contract emits for  *)
(* the values that are returned: booleans, references in topics and tails  *)
(* aside, no other log has these values.                                   *)
THEOREM StrictLogAlwaysExact ==
  ASSUME Wide, Roomy
  PROVE  EventSpec => [](ExactableLog => StrictLogExact)
  <1>1. EventSpec => []LInv
    BY InductiveUser
  <1>2. LInv => (ExactableLog => StrictLogExact)
    BY StrictlyParsed
  <1> QED
    BY <1>1, <1>2, PTL


-----------------------------------------------------------------------------
(* The topics of a filter. *)

(* collect succeeds if every result is a value. *)
LEMMA CollectedAll ==
  ASSUME NEW n \in Nat, NEW rs, DOMAIN rs = 1..n, IsOk(Collect(rs))
  PROVE  /\ \A i \in 1..n : IsOk(rs[i])
         /\ Collect(rs) = Ok([i \in 1..n |-> rs[i].val])
  <1> DEFINE failed == {i \in DOMAIN rs : ~IsOk(rs[i])}
             first  == CHOOSE i \in failed : \A j \in failed : i <= j
  <1>1. Collect(rs) = IF failed = {} THEN Ok([i \in DOMAIN rs |-> rs[i].val]) ELSE rs[first]
    BY DEF Collect
  <1>2. failed = {}
    <2> SUFFICES ASSUME failed # {} PROVE FALSE
      OBVIOUS
    <2>1. failed \subseteq Nat
      OBVIOUS
    <2> HIDE DEF failed
    <2>2. \E x \in failed : \A y \in failed : x <= y
      BY <2>1, LeastNatural
    <2>3. first \in failed
      BY <2>2
    <2> HIDE DEF first
    <2> QED
      BY <1>1, <2>3 DEF failed
  <1> QED
    BY <1>1, <1>2

(* The right side of the definition of type_check. *)
ElementChecks(f, t, token) ==
  AllYes([i \in DOMAIN token.subs |-> f[token.subs[i]][t.subs[1]]])

MemberChecks(f, t, token) ==
  AllYes([i \in DOMAIN token.subs |->
            IF i \in DOMAIN t.subs THEN f[token.subs[i]][t.subs[i]] ELSE "panic"])

CheckBody(f, t, token) ==
  IF token.kind # t.kind THEN "no"
  ELSE CASE t.kind = "FixedBytes" -> IF t.size >= Len(token.val) THEN "yes" ELSE "no"
         [] t.kind = "FixedArray" -> IF t.size = Len(token.subs)
                                     THEN ElementChecks(f, t, token) ELSE "no"
         [] t.kind = "Array" -> ElementChecks(f, t, token)
         [] t.kind = "Tuple" -> MemberChecks(f, t, token)
         [] OTHER -> "yes"

TypeCheckDef(f, token) == [t \in ParamTypes |-> CheckBody(f, t, token)]

TypeChecks == INSTANCE Recursion WITH
  Dom <- Tokens, measure <- depth, Def <- TypeCheckDef

(* type_check obeys its definition. *)
LEMMA TypeCheckEquation ==
  \A token \in Tokens : type_check[token] = TypeCheckDef(type_check, token)
  <1>1. TypeChecks!WellFounded
    <2>1. ASSUME NEW f, NEW g, NEW token \in Tokens,
                 \A s \in Tokens : depth[s] < depth[token] => f[s] = g[s]
          PROVE  TypeCheckDef(f, token) = TypeCheckDef(g, token)
      <3>1. \A i \in DOMAIN token.subs : f[token.subs[i]] = g[token.subs[i]]
        BY <2>1, TokenFields
      <3>2. ASSUME NEW t \in ParamTypes
            PROVE  CheckBody(f, t, token) = CheckBody(g, t, token)
        <4>1. [i \in DOMAIN token.subs |-> f[token.subs[i]][t.subs[1]]]
                = [i \in DOMAIN token.subs |-> g[token.subs[i]][t.subs[1]]]
          BY <3>1
        <4>2. [i \in DOMAIN token.subs |->
                 IF i \in DOMAIN t.subs THEN f[token.subs[i]][t.subs[i]] ELSE "panic"]
                = [i \in DOMAIN token.subs |->
                     IF i \in DOMAIN t.subs THEN g[token.subs[i]][t.subs[i]] ELSE "panic"]
          BY <3>1
        <4>3. /\ ElementChecks(f, t, token) = ElementChecks(g, t, token)
              /\ MemberChecks(f, t, token) = MemberChecks(g, t, token)
          BY <4>1, <4>2, Zenon DEF ElementChecks, MemberChecks
        <4> QED
          BY <4>3, Zenon DEF CheckBody
      <3> QED
        BY <3>2 DEF TypeCheckDef
    <2> QED
      BY <2>1, DepthFacts DEF TypeChecks!WellFounded
  <1>2. type_check = CHOOSE f : f = [token \in Tokens |-> TypeCheckDef(f, token)]
    BY Zenon DEF type_check, TypeCheckDef, CheckBody, ElementChecks, MemberChecks
  <1>3. type_check = [token \in Tokens |-> TypeCheckDef(type_check, token)]
    BY <1>1, <1>2, NaturalInduction, TypeChecks!Defined DEF TypeChecks!Inductive
  <1> QED
    BY <1>3

(* What passes the check for a type of one word is of its variant. *)
LEMMA CheckedKind ==
  ASSUME NEW t \in ParamTypes, OneWord(t), NEW v \in Tokens
  PROVE  /\ type_check[v][t] \in {"yes", "no"}
         /\ type_check[v][t] = "yes" => v.kind = t.kind
  <1>1. type_check[v][t] = TypeCheckDef(type_check, v)[t]
    BY TypeCheckEquation
  <1>2. /\ v.kind # t.kind => type_check[v][t] = "no"
        /\ v.kind = t.kind /\ t.kind = "FixedBytes" =>
             type_check[v][t] = IF t.size >= Len(v.val) THEN "yes" ELSE "no"
        /\ v.kind = t.kind /\ t.kind # "FixedBytes" => type_check[v][t] = "yes"
    BY <1>1 DEF TypeCheckDef, CheckBody, OneWord
  <1> QED
    BY <1>2

(* A value that is asked for becomes its word. *)
LEMMA ConvertedToken ==
  ASSUME NEW t \in ParamTypes, OneWord(t), NEW v \in Tokens,
         v.kind = t.kind => Settled(t, v), IsOk(convert_token(v, t))
  PROVE  Settled(t, v) /\ convert_token(v, t) = Ok(enc[t][v])
  <1> DEFINE check   == type_check[v][t]
             encoded == encode(<<v>>)
  <1>1. /\ check = "no" => convert_token(v, t) = Err
        /\ check = "yes" => convert_token(v, t)
                              = Ok(IF Len(encoded) = WordLen THEN encoded ELSE Keccak(encoded))
    BY DEF convert_token
  <1>2. check = "yes" /\ Settled(t, v)
    <2>1. ~IsOk(Err)
      BY DEF Err, IsOk
    <2> HIDE DEF check, encoded
    <2>2. check \in {"yes", "no"} /\ (check = "yes" => v.kind = t.kind)
      BY CheckedKind DEF check
    <2> QED
      BY <1>1, <2>1, <2>2
  <1>3. encoded = enc[t][v] /\ Len(encoded) = WordLen
    <2> DEFINE tokens == <<v>>
               ts     == <<t>>
    <2>1. /\ tokens \in Seq(Tokens) /\ ts \in Seq(ParamTypes) /\ Len(tokens) = Len(ts)
          /\ DOMAIN ts = 1..1 /\ ts[1] = t /\ tokens[1] = v
      OBVIOUS
    <2>2. is_value[t][v]
      BY <1>2 DEF Settled
    <2>3. Len(enc[t][v]) = WordLen
      BY <2>2, OneWordValues
    <2>4. EncAll(tokens, ts) = enc[t][v]
      BY <2>2, OneWordCall
    <2> HIDE DEF tokens, ts
    <2>5. \A i \in DOMAIN ts : is_value[ts[i]][tokens[i]]
      BY <2>1, <2>2
    <2>6. Len(EncAll(tokens, ts)) < U32 + WordLen
      BY <2>3, <2>4, WordAssumption, RadixFacts
    <2>7. encode(tokens) = EncAll(tokens, ts)
      BY <2>1, <2>5, <2>6, EncodeIsCanonical
    <2> QED
      BY <2>3, <2>4, <2>7 DEF tokens
  <1> QED
    BY <1>1, <1>2, <1>3


(* The words a topic asks for are those of the values it is made of. *)
AsksFor(res, t, topic) ==
  \A v \in Tokens : Settled(t, v) =>
    (enc[t][v] \in Range(res.accepted) <=> v \in Range(topic.accepted))

LEMMA ConvertedTopic ==
  ASSUME NEW kinds, NEW k, NEW topic,
         topic = AnyTopic \/ (topic = OneOf(topic.accepted) /\ topic.accepted \in Seq(Tokens)),
         k \in DOMAIN kinds => /\ kinds[k] \in ParamTypes /\ OneWord(kinds[k])
                               /\ \A v \in Range(topic.accepted) :
                                    v.kind = kinds[k].kind => Settled(kinds[k], v),
         IsOk(convert_topic(topic, kinds, k))
  PROVE  LET res == convert_topic(topic, kinds, k).val
         IN  \/ topic.kind = "Any" /\ res.kind = "Any"
             \/ /\ topic.kind = "OneOf" /\ res.kind = "OneOf"
                /\ k \in DOMAIN kinds /\ AsksFor(res, kinds[k], topic)
  <1>1. CASE topic = AnyTopic
    <2>1. topic.kind = "Any" /\ AnyTopic.kind = "Any"
      BY <1>1 DEF AnyTopic
    <2>2. convert_topic(topic, kinds, k) = Ok(AnyTopic)
      BY <2>1 DEF convert_topic
    <2> QED
      BY <2>1, <2>2 DEF Ok
  <1>2. CASE topic = OneOf(topic.accepted) /\ topic.accepted \in Seq(Tokens)
    <2> DEFINE t  == kinds[k]
               vs == topic.accepted
               rs == [i \in DOMAIN vs |-> convert_token(vs[i], t)]
               n  == Len(vs)
    <2>1. topic.kind = "OneOf" /\ topic.kind # "Any"
      BY <1>2 DEF OneOf
    <2>2. k \in DOMAIN kinds
      <3>1. k \notin DOMAIN kinds => convert_topic(topic, kinds, k) = Err
        BY <2>1 DEF convert_topic
      <3>2. ~IsOk(Err)
        BY DEF IsOk, Err
      <3> QED
        BY <3>1, <3>2
    <2>3. convert_topic(topic, kinds, k)
            = AndThen(Collect(rs), LAMBDA encoded : Ok(OneOf(encoded)))
      BY <2>1, <2>2 DEF convert_topic
    <2> DEFINE C == Collect(rs)
    <2>4. convert_topic(topic, kinds, k) = IF IsOk(C) THEN Ok(OneOf(C.val)) ELSE C
      <3> DEFINE next(c) == IF IsOk(c) THEN Ok(OneOf(c.val)) ELSE c
      <3>1. convert_topic(topic, kinds, k) = CHOOSE out \in {next(c) : c \in {C}} : TRUE
        BY <2>3 DEF AndThen
      <3> HIDE DEF C, next
      <3>2. {next(c) : c \in {C}} = {next(C)}
        OBVIOUS
      <3>3. (CHOOSE out \in {next(C)} : TRUE) = next(C)
        OBVIOUS
      <3>4. convert_topic(topic, kinds, k) = next(C)
        BY <3>1, <3>2, <3>3
      <3> QED
        BY <3>4 DEF next
    <2>5. IsOk(C)
      <3> HIDE DEF C
      <3> QED BY <2>4
    <2>6. n \in Nat /\ DOMAIN vs = 1..n /\ DOMAIN rs = 1..n
          /\ \A i \in 1..n : vs[i] \in Tokens /\ rs[i] = convert_token(vs[i], t)
      BY <1>2, LenProperties, ElementOfSeq
    <2>7. t \in ParamTypes /\ OneWord(t) /\ \A i \in 1..n : vs[i].kind = t.kind => Settled(t, vs[i])
      BY <2>2, <2>6 DEF Range
    <2> HIDE DEF t, vs, rs, n
    <2>8. (\A i \in 1..n : IsOk(rs[i])) /\ C = Ok([i \in 1..n |-> rs[i].val])
      BY <2>5, <2>6, CollectedAll DEF C
    <2> HIDE DEF C
    <2>9. \A i \in 1..n : Settled(t, vs[i]) /\ rs[i] = Ok(enc[t][vs[i]])
      <3> TAKE i \in 1..n
      <3>1. vs[i] \in Tokens /\ IsOk(convert_token(vs[i], t))
            /\ (vs[i].kind = t.kind => Settled(t, vs[i]))
        BY <2>6, <2>7, <2>8
      <3> DEFINE v == vs[i]
      <3>2. rs[i] = convert_token(v, t)
        BY <2>6
      <3> HIDE DEF v
      <3>3. Settled(t, v) /\ convert_token(v, t) = Ok(enc[t][v])
        BY <2>7, <3>1, ConvertedToken DEF v
      <3> QED
        BY <3>2, <3>3 DEF v
    <2> DEFINE es == [i \in 1..n |-> enc[t][vs[i]]]
    <2>10. [i \in 1..n |-> rs[i].val] = es
      <3>1. ASSUME NEW i \in 1..n
            PROVE  rs[i].val = enc[t][vs[i]]
        <4> DEFINE e == enc[t][vs[i]]
        <4>1. rs[i] = Ok(e)
          BY <2>9
        <4> HIDE DEF e
        <4>2. rs[i].val = e
          BY <4>1 DEF Ok
        <4> QED
          BY <4>2 DEF e
      <3> QED
        BY <3>1, Zenon
    <2>11. convert_topic(topic, kinds, k) = Ok(OneOf(es))
      <3> HIDE DEF es
      <3> QED BY <2>4, <2>5, <2>8, <2>10 DEF Ok
    <2> DEFINE res == convert_topic(topic, kinds, k).val
    <2>12. res.kind = "OneOf" /\ res.accepted = es
      <3> HIDE DEF es
      <3> QED BY <2>11 DEF Ok, OneOf
    <2>13. ASSUME NEW v \in Tokens, Settled(t, v)
           PROVE  enc[t][v] \in Range(es) <=> v \in Range(vs)
      <3>1. ASSUME enc[t][v] \in Range(es)
            PROVE  v \in Range(vs)
        <4>1. PICK i \in 1..n : enc[t][v] = enc[t][vs[i]]
          BY <3>1 DEF Range
        <4> DEFINE u == vs[i]
        <4>2. u \in Tokens /\ Settled(t, u) /\ enc[t][v] = enc[t][u]
          BY <2>6, <2>9, <4>1
        <4> HIDE DEF u
        <4>3. v = u
          BY <2>7, <2>13, <4>2, WordsDiffer
        <4> QED
          BY <2>6, <4>3 DEF u, Range
      <3>2. ASSUME v \in Range(vs)
            PROVE  enc[t][v] \in Range(es)
        <4>1. PICK i \in 1..n : v = vs[i]
          BY <2>6, <3>2 DEF Range
        <4>2. es[i] = enc[t][v] /\ DOMAIN es = 1..n
          BY <4>1
        <4> HIDE DEF es
        <4> QED
          BY <4>2 DEF Range
      <3> QED
        BY <3>1, <3>2
    <2> HIDE DEF res, es
    <2>14. AsksFor(res, t, topic)
      BY <2>12, <2>13 DEF AsksFor, vs
    <2> QED
      BY <2>1, <2>2, <2>12, <2>14 DEF res, t
  <1> QED
    BY <1>1, <1>2

(* One topic before or after three. *)
LEMMA FourTopics ==
  ASSUME NEW a, NEW b, NEW c, NEW o
  PROVE  /\ <<a, b, c>> \o <<o>> = <<a, b, c, o>>
         /\ <<o>> \o <<a, b, c>> = <<o, a, b, c>>
  <1> DEFINE S     == {a, b, c, o}
             three == <<a, b, c>>
             one   == <<o>>
             after == three \o one
             first == one \o three
  <1>1. /\ three \in Seq(S) /\ Len(three) = 3
        /\ three[1] = a /\ three[2] = b /\ three[3] = c
    OBVIOUS
  <1>2. one \in Seq(S) /\ Len(one) = 1 /\ one[1] = o
    OBVIOUS
  <1> HIDE DEF S, three, one
  <1>3. /\ after \in Seq(S) /\ Len(after) = 3 + 1
        /\ \A i \in 1..(3 + 1) : after[i] = IF i <= 3 THEN three[i] ELSE one[i - 3]
    <2>1. /\ after \in Seq(S) /\ Len(after) = Len(three) + Len(one)
          /\ \A i \in 1..(Len(three) + Len(one)) :
               after[i] = IF i <= Len(three) THEN three[i] ELSE one[i - Len(three)]
      BY <1>1, <1>2, ConcatProperties, Zenon
    <2> HIDE DEF after
    <2> QED
      BY <1>1, <1>2, <2>1
  <1>4. /\ first \in Seq(S) /\ Len(first) = 1 + 3
        /\ \A i \in 1..(1 + 3) : first[i] = IF i <= 1 THEN one[i] ELSE three[i - 1]
    <2>1. /\ first \in Seq(S) /\ Len(first) = Len(one) + Len(three)
          /\ \A i \in 1..(Len(one) + Len(three)) :
               first[i] = IF i <= Len(one) THEN one[i] ELSE three[i - Len(one)]
      BY <1>1, <1>2, ConcatProperties, Zenon
    <2> HIDE DEF first
    <2> QED
      BY <1>1, <1>2, <2>1
  <1> HIDE DEF after, first
  <1>5. after = <<a, b, c, o>>
    BY <1>1, <1>2, <1>3
  <1>6. first = <<o, a, b, c>>
    BY <1>1, <1>2, <1>4
  <1> QED
    BY <1>1, <1>5, <1>6 DEF after, first, three, one

(* The topic behind the k-th place of a filter, with the signature or not. *)
LEMMA FilterTopics ==
  ASSUME event.anonymous \in BOOLEAN, NEW F, F = topic_filter(event, raw), IsOk(F)
  PROVE  LET kinds == KindsOf(indexed_params(event, TRUE))
             skip  == to_skip(event)
         IN  /\ DOMAIN F.val = 1..4
             /\ \A k \in 1..3 : /\ IsOk(convert_topic(raw[k], kinds, k))
                               /\ F.val[skip + k] = convert_topic(raw[k], kinds, k).val
             /\ ~event.anonymous => F.val[1] = OneOf(<<signature(event)>>)
             /\ event.anonymous => F.val[4] = AnyTopic
  <1> DEFINE kinds == KindsOf(indexed_params(event, TRUE))
             rs   == [k \in 1..3 |-> convert_topic(raw[k], kinds, k)]
             C    == Collect(rs)
             ts   == [k \in 1..3 |-> rs[k].val]
             own  == <<OneOf(<<signature(event)>>)>>
             any  == <<AnyTopic>>
             made(topics) == IF event.anonymous THEN topics \o any ELSE own \o topics
             next(c) == IF IsOk(c) THEN Ok(made(c.val)) ELSE c
  <1>1. F = CHOOSE out \in {next(c) : c \in {C}} : TRUE
    BY DEF topic_filter, AndThen
  <1>2. 3 \in Nat /\ DOMAIN rs = 1..3
        /\ \A k \in 1..3 : rs[k] = convert_topic(raw[k], kinds, k)
    OBVIOUS
  <1> HIDE DEF rs, kinds
  <1>3. F = next(C)
    <2> HIDE DEF C, next
    <2>1. {next(c) : c \in {C}} = {next(C)}
      OBVIOUS
    <2>2. (CHOOSE out \in {next(C)} : TRUE) = next(C)
      OBVIOUS
    <2> QED
      BY <1>1, <2>1, <2>2
  <1>4. IsOk(C)
    <2> HIDE DEF C, made
    <2> QED BY <1>3
  <1>5. (\A k \in 1..3 : IsOk(rs[k])) /\ C = Ok(ts)
    BY <1>2, <1>4, CollectedAll
  <1>6. F.val = made(ts)
    <2> HIDE DEF C, made, ts
    <2>1. F = Ok(made(C.val))
      BY <1>3, <1>4
    <2>2. C.val = ts
      BY <1>5 DEF Ok
    <2> QED
      BY <2>1, <2>2 DEF Ok
  <1>7. ts = <<ts[1], ts[2], ts[3]>>
    OBVIOUS
  <1> HIDE DEF ts
  <1> DEFINE a == ts[1]
             b == ts[2]
             c == ts[3]
             o == OneOf(<<signature(event)>>)
  <1>8. CASE event.anonymous
    <2>1. F.val = <<a, b, c>> \o <<AnyTopic>>
      BY <1>6, <1>7, <1>8
    <2> HIDE DEF a, b, c
    <2>2. <<a, b, c>> \o <<AnyTopic>> = <<a, b, c, AnyTopic>>
      BY FourTopics
    <2>3. DOMAIN F.val = 1..4 /\ F.val[1] = a /\ F.val[2] = b /\ F.val[3] = c
          /\ F.val[4] = AnyTopic
      BY <2>1, <2>2
    <2>4. to_skip(event) = 0
      BY <1>8 DEF to_skip
    <2>5. \A k \in 1..3 : F.val[k] = rs[k].val
      BY <2>3 DEF a, b, c, ts
    <2>6. \A k \in 1..3 : 0 + k = k
      OBVIOUS
    <2> QED
      BY <1>2, <1>5, <1>8, <2>3, <2>4, <2>5, <2>6 DEF kinds
  <1>9. CASE ~event.anonymous
    <2>1. F.val = <<o>> \o <<a, b, c>>
      BY <1>6, <1>7, <1>9
    <2> HIDE DEF a, b, c, o
    <2>2. <<o>> \o <<a, b, c>> = <<o, a, b, c>>
      BY FourTopics
    <2>3. DOMAIN F.val = 1..4 /\ F.val[1] = o /\ F.val[2] = a /\ F.val[3] = b /\ F.val[4] = c
      BY <2>1, <2>2
    <2>4. to_skip(event) = 1
      BY <1>9 DEF to_skip
    <2>5. \A k \in 1..3 : F.val[1 + k] = rs[k].val
      BY <2>3 DEF a, b, c, ts
    <2> QED
      BY <1>2, <1>5, <1>9, <2>3, <2>4, <2>5 DEF kinds, o
  <1> QED
    BY <1>8, <1>9


(* What is known of the filter: it was made of the raw one. *)
FInv ==
  /\ PInv
  /\ OfSession
  /\ filter # NoResult => filter = topic_filter(event, raw)

LEMMA FilterStarts == EventInit => FInv
  <1> SUFFICES ASSUME EventInit PROVE FInv
    OBVIOUS
  <1>1. ParserInit
    BY DEF EventInit, ParserInit
  <1>2. PInv
    BY <1>1, ParserStarts
  <1>3. OfSession /\ filter = NoResult
    BY DEF EventInit, OfSession
  <1> QED
    BY <1>2, <1>3 DEF FInv

LEMMA FilterSteps ==
  ASSUME Wide, FInv, [EventNext]_everything
  PROVE  FInv'
  <1>1. PInv /\ OfSession
    BY DEF FInv
  <1>2. CASE Filter
    <2>1. filter' = topic_filter(event, raw) /\ UNCHANGED <<parserVars, raw, origin>>
      BY <1>2 DEF Filter
    <2>2. PInv' /\ UNCHANGED <<event, log>>
      <3>1. UNCHANGED <<event, log>>
        BY <2>1 DEF parserVars, logVars
      <3>2. PInv'
        BY <1>1, <2>1, StepParses
      <3> QED
        BY <3>1, <3>2
    <2>3. filter' = topic_filter(event, raw)' /\ OfSession'
      BY <1>1, <2>1, <2>2 DEF OfSession
    <2> QED
      BY <2>2, <2>3 DEF FInv
  <1>3. CASE Parse
    <2>1. ParserNext /\ UNCHANGED <<raw, origin, filter>>
      BY <1>3 DEF Parse
    <2>2. PInv'
      BY <1>1, <2>1, StepParses
    <2>3. UNCHANGED <<event, log>>
      BY <2>1 DEF ParserNext, ParseLog, DecoderStep, DecodeTopics, DecodeData, Fail, logVars
    <2>4. OfSession' /\ (filter # NoResult => filter = topic_filter(event, raw))'
      BY <1>1, <2>1, <2>3 DEF OfSession, FInv, NoResult
    <2> QED
      BY <2>2, <2>4 DEF FInv
  <1>4. CASE UNCHANGED everything
    <2>1. UNCHANGED <<parserVars, raw, origin, filter>>
      BY <1>4 DEF everything
    <2>2. UNCHANGED <<event, log>>
      BY <2>1 DEF parserVars, logVars
    <2>3. PInv'
      BY <1>1, <2>1, StepParses
    <2>4. OfSession' /\ (filter # NoResult => filter = topic_filter(event, raw))'
      BY <1>1, <2>1, <2>2 DEF OfSession, FInv, NoResult
    <2> QED
      BY <2>3, <2>4 DEF FInv
  <1> QED
    BY <1>2, <1>3, <1>4 DEF EventNext

(* One topic of the filter accepts the log's, or the values'. *)
Accepts(topics, j) ==
  \/ topics[j].kind = "Any"
  \/ j <= Len(log.topics) /\ log.topics[j] \in Range(topics[j].accepted)

Asks(k) ==
  raw[k].kind = "OneOf" =>
    origin.values[Places(event, TRUE)[k]] \in Range(raw[k].accepted)

(* A topic of the filter accepts a log where the raw one, its values. *)
LEMMA TopicSelects ==
  ASSUME Emitted, AsksForValues, \A kind \in IndexedKinds : IsValue(kind),
         NEW k \in 1..3, NEW topics,
         LET kinds == KindsOf(indexed_params(event, TRUE))
         IN  /\ IsOk(convert_topic(raw[k], kinds, k))
             /\ topics[to_skip(event) + k] = convert_topic(raw[k], kinds, k).val
  PROVE  Accepts(topics, to_skip(event) + k) <=> Asks(k)
  <1> DEFINE ind   == indexed_params(event, TRUE)
             ins   == Places(event, TRUE)
             kinds == KindsOf(ind)
             skip  == to_skip(event)
             topic == raw[k]
             res   == convert_topic(topic, kinds, k).val
             m     == Len(ind)
             v     == origin.values[ins[k]]
  <1>1. /\ event.inputs \in Seq(EventParam)
        /\ \A i \in DOMAIN event.inputs :
             /\ event.inputs[i].kind \in ParamTypes
             /\ origin.values[i] \in Tokens /\ Settled(event.inputs[i].kind, origin.values[i])
    BY EmittedFacts
  <1>2. /\ m \in Nat /\ DOMAIN ind = 1..m
        /\ \A i \in 1..m : ins[i] \in DOMAIN event.inputs /\ event.inputs[ins[i]] = ind[i]
    BY <1>1, PlacesMatch
  <1>3. DOMAIN kinds = 1..m /\ \A i \in 1..m : kinds[i] = ind[i].kind
    BY <1>2 DEF KindsOf
  <1>4. DOMAIN raw = 1..3
        /\ (topic = AnyTopic \/ (topic = OneOf(topic.accepted) /\ topic.accepted \in Seq(Tokens)))
    BY RawAssumption DEF Emitted, OfSession
  <1>5. \A i \in 1..m : IsValue(kinds[i])
    BY <1>2, <1>3 DEF IndexedKinds, Range
  <1>6. k \in DOMAIN kinds => /\ kinds[k] \in ParamTypes /\ OneWord(kinds[k])
                              /\ \A u \in Range(topic.accepted) :
                                   u.kind = kinds[k].kind => Settled(kinds[k], u)
    <2> SUFFICES ASSUME k \in DOMAIN kinds
                 PROVE  /\ kinds[k] \in ParamTypes /\ OneWord(kinds[k])
                        /\ \A u \in Range(topic.accepted) :
                             u.kind = kinds[k].kind => Settled(kinds[k], u)
      OBVIOUS
    <2>1. kinds[k] \in ParamTypes
      BY <1>1, <1>2, <1>3
    <2>2. IsValue(kinds[k])
      BY <1>3, <1>5
    <2>3. OneWord(kinds[k])
      BY <2>2 DEF OneWord, IsValue
    <2>4. \A u \in Range(topic.accepted) : u.kind = kinds[k].kind => Settled(kinds[k], u)
      BY <1>4 DEF AsksForValues
    <2> QED
      BY <2>1, <2>3, <2>4
  <1>7. OwnSignature /\ Len(Words) = m
        /\ \A i \in 1..m : Words[i] = TopicOf(origin.values[ins[i]], ind[i].kind)
    BY EmittedTopics
  <1>8. /\ Len(log.topics) = skip + Len(Words) /\ skip \in {0, 1}
        /\ \A i \in 1..Len(Words) : Words[i] = log.topics[skip + i]
    <2>1. CallOK
      BY DEF Emitted
    <2>2. /\ Len(log.topics) = skip + Len(Words)
          /\ \A i \in 1..Len(Words) : Words[i] = log.topics[skip + i]
      BY <1>7, <2>1, WordsOfTopics
    <2>3. skip \in {0, 1}
      BY DEF to_skip
    <2> QED
      BY <2>2, <2>3
  <1>9. IsOk(convert_topic(topic, kinds, k)) /\ topics[skip + k] = res
    OBVIOUS
  <1> HIDE DEF kinds, ind, ins, skip, topic, m
  <1>10. \/ topic.kind = "Any" /\ res.kind = "Any"
         \/ /\ topic.kind = "OneOf" /\ res.kind = "OneOf"
            /\ k \in DOMAIN kinds /\ AsksFor(res, kinds[k], topic)
    BY <1>4, <1>6, <1>9, ConvertedTopic
  <1>11. Asks(k) <=> (topic.kind = "OneOf" => v \in Range(topic.accepted))
    BY DEF Asks, topic, ins
  <1> HIDE DEF res, v
  <1>12. CASE topic.kind = "Any" /\ res.kind = "Any"
    BY <1>9, <1>11, <1>12 DEF Accepts, skip
  <1>13. CASE /\ topic.kind = "OneOf" /\ res.kind = "OneOf"
              /\ k \in DOMAIN kinds /\ AsksFor(res, kinds[k], topic)
    <2>1. k \in 1..m /\ skip + k <= Len(log.topics) /\ log.topics[skip + k] = Words[k]
      BY <1>2, <1>3, <1>7, <1>8, <1>13
    <2>2. v \in Tokens /\ Settled(kinds[k], v)
      BY <1>1, <1>2, <1>3, <2>1 DEF v
    <2>3. Words[k] = enc[kinds[k]][v]
      <3>1. Words[k] = TopicOf(v, kinds[k])
        BY <1>3, <1>7, <2>1 DEF v
      <3>2. IsValue(kinds[k])
        BY <1>5, <2>1
      <3> QED
        BY <3>1, <3>2 DEF TopicOf, IsValue, ValueKinds
    <2>4. log.topics[skip + k] \in Range(res.accepted) <=> v \in Range(topic.accepted)
      BY <1>13, <2>1, <2>2, <2>3 DEF AsksFor
    <2>5. Accepts(topics, skip + k) <=> log.topics[skip + k] \in Range(res.accepted)
      BY <1>9, <1>13, <2>1 DEF Accepts
    <2> QED
      BY <1>11, <1>13, <2>4, <2>5 DEF skip
  <1> QED
    BY <1>10, <1>12, <1>13

(* The places of a filter are those of the raw one and of the signature. *)
LEMMA PlacesSelect ==
  ASSUME Emitted, NEW topics, DOMAIN topics = 1..4,
         \A k \in 1..3 : Accepts(topics, to_skip(event) + k) <=> Asks(k),
         ~event.anonymous => topics[1] = OneOf(<<signature(event)>>),
         event.anonymous => topics[4] = AnyTopic
  PROVE  Selects(topics, log.topics) <=> RawSelects
  <1>1. Selects(topics, log.topics) <=> \A j \in 1..4 : Accepts(topics, j)
    BY DEF Selects, Accepts
  <1>2. RawSelects <=> \A k \in 1..3 : Asks(k)
    <2>1. DOMAIN raw = 1..3
      BY RawAssumption DEF Emitted, OfSession
    <2> QED
      BY <2>1 DEF RawSelects, Asks
  <1>3. OwnSignature /\ event.anonymous \in BOOLEAN /\ log.topics \in Seq(Hash)
    BY EmittedTopics DEF Emitted, CallOK
  <1>4. CASE event.anonymous
    <2>1. Accepts(topics, 4)
      BY <1>4 DEF Accepts, AnyTopic
    <2>2. \A k \in 1..3 : Accepts(topics, k) <=> Asks(k)
      <3>1. to_skip(event) = 0 /\ \A k \in 1..3 : 0 + k = k
        BY <1>4 DEF to_skip
      <3> QED
        BY <3>1
    <2>3. 1..4 = 1..3 \cup {4}
      OBVIOUS
    <2> QED
      BY <1>1, <1>2, <2>1, <2>2, <2>3
  <1>5. CASE ~event.anonymous
    <2> DEFINE sig == signature(event)
    <2>1. log.topics # <<>> /\ log.topics[1] = sig
      BY <1>3, <1>5 DEF OwnSignature
    <2>2. 1 <= Len(log.topics)
      BY <1>3, <2>1, EmptySeq, LenProperties
    <2> HIDE DEF sig
    <2>3. topics[1].accepted = <<sig>> /\ sig \in Range(<<sig>>)
      <3>1. topics[1] = OneOf(<<sig>>)
        BY <1>5 DEF sig
      <3>2. DOMAIN <<sig>> = 1..1 /\ <<sig>>[1] = sig
        OBVIOUS
      <3>3. sig \in Range(<<sig>>)
        BY <3>2 DEF Range
      <3> QED
        BY <3>1, <3>3 DEF OneOf
    <2>4. Accepts(topics, 1)
      BY <2>1, <2>2, <2>3 DEF Accepts
    <2>5. \A k \in 1..3 : Accepts(topics, 1 + k) <=> Asks(k)
      BY <1>5 DEF to_skip
    <2>6. 1..4 = {1} \cup {1 + k : k \in 1..3}
      OBVIOUS
    <2> QED
      BY <1>1, <1>2, <2>4, <2>5, <2>6
  <1> QED
    BY <1>3, <1>4, <1>5

LEMMA FilterMeant == FInv => FilterSelects
  <1> SUFFICES ASSUME FInv, AsksForValues, \A kind \in IndexedKinds : IsValue(kind),
                      origin.emitted, filter.status = "Ok"
               PROVE  Selects(filter.val, log.topics) <=> RawSelects
    BY DEF FilterSelects, FilterAgrees
  <1>1. Emitted /\ event.anonymous \in BOOLEAN
    BY DEF FInv, PInv, Emitted, CallOK
  <1>2. filter # NoResult
    BY DEF NoResult
  <1>3. filter = topic_filter(event, raw) /\ IsOk(filter)
    BY <1>2 DEF FInv, IsOk
  <1> DEFINE kinds  == KindsOf(indexed_params(event, TRUE))
             skip   == to_skip(event)
             topics == filter.val
  <1>4. /\ DOMAIN topics = 1..4
        /\ \A k \in 1..3 : /\ IsOk(convert_topic(raw[k], kinds, k))
                          /\ topics[skip + k] = convert_topic(raw[k], kinds, k).val
        /\ (~event.anonymous => topics[1] = OneOf(<<signature(event)>>))
        /\ (event.anonymous => topics[4] = AnyTopic)
    BY <1>1, <1>3, FilterTopics
  <1> HIDE DEF topics
  <1>5. \A k \in 1..3 : Accepts(topics, skip + k) <=> Asks(k)
    BY <1>1, <1>4, TopicSelects
  <1> HIDE DEF skip
  <1>6. Selects(topics, log.topics) <=> RawSelects
    BY <1>1, <1>4, <1>5, PlacesSelect DEF skip
  <1> QED
    BY <1>6 DEF topics

(* The filter that an event makes of some values selects, of the event's   *)
(* logs, those that were emitted with these values and no other, with a    *)
(* signature or without one, wherever the indexed parameters are declared. *)
THEOREM FilterAlwaysSelects ==
  ASSUME Wide
  PROVE  EventSpec => []FilterSelects
  <1>1. EventInit => FInv
    BY FilterStarts
  <1>2. ASSUME FInv, [EventNext]_everything PROVE FInv'
    BY <1>2, FilterSteps
  <1>3. FInv => FilterSelects
    BY FilterMeant
  <1> QED
    BY <1>1, <1>2, <1>3, PTL DEF EventSpec
=============================================================================
