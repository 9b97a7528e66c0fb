--------------------------- MODULE ContractProofs ---------------------------
(***************************************************************************)
(* The proofs about Contract: whatever the ABI, its operations are filed   *)
(* under their own names, all of them and in order, no name is left        *)
(* without an operation, lookups by signature find what was declared, and  *)
(* what was serialized is loaded to the same contract.                     *)
(* Nothing is assumed of the ABI but that it is a finite sequence.         *)
(***************************************************************************)
EXTENDS Contract, Induction, SequenceTheorems, FiniteSetTheorems

IInv == TypeOK /\ NoEmptyOverloads /\ FiledByName

(* A map with all that IInv says of it. *)
Good(map) == IsMap(map) /\ NonEmpty(map) /\ Filed(map)

-----------------------------------------------------------------------------
(* The maps of overloads. *)

(* The map without entries is a good one. *)
LEMMA EmptyGood == Good(Empty)
  <1>1. Empty \in [{} -> Seq(Elements)]
    BY DEF Empty
  <1>2. DOMAIN Empty = {} /\ IsFiniteSet({})
    BY FS_EmptySet DEF Empty
  <1> QED
    BY <1>1, <1>2 DEF Good, IsMap, NonEmpty, Filed

(* An operation is sanitized to one that has the same name and nothing     *)
(* behind it.                                                              *)
LEMMA SanitizedOK ==
  ASSUME NEW element \in Elements
  PROVE  /\ sanitize_name(element) \in Elements
         /\ sanitize_name(element).rest = NoRest
         /\ sanitize_name(element).name \in Names
         /\ sanitize_name(element).inputs \in Inputs
  BY DEF sanitize_name, Elements

(* What Push does to one name of a map. *)
LEMMA PushValues ==
  ASSUME NEW map, IsMap(map), NEW op \in Elements
  PROVE  /\ DOMAIN Push(map, op) = DOMAIN map \cup {op.name}
         /\ \A name \in DOMAIN map : name # op.name => Push(map, op)[name] = map[name]
         /\ Push(map, op)[op.name] = Append(OverloadsOf(map, op.name), op)
  BY DEF Push

(* Filing an operation under its name keeps a map good. *)
LEMMA PushGood ==
  ASSUME NEW map, Good(map), NEW op \in Elements, op.rest = NoRest
  PROVE  Good(Push(map, op))
  <1> DEFINE old  == OverloadsOf(map, op.name)
             push == Push(map, op)
  <1>1. IsMap(map) /\ NonEmpty(map) /\ Filed(map)
    BY DEF Good
  <1>2. DOMAIN map \subseteq Names /\ \A name \in DOMAIN map : map[name] \in Seq(Elements)
    BY <1>1 DEF IsMap
  <1>3. op.name \in Names
    BY DEF Elements
  <1>4. /\ DOMAIN push = DOMAIN map \cup {op.name}
        /\ \A name \in DOMAIN map : name # op.name => push[name] = map[name]
        /\ push[op.name] = Append(old, op)
    BY <1>1, PushValues
  <1>5. old \in Seq(Elements)
    BY <1>2 DEF OverloadsOf
  <1>6. \A i \in DOMAIN old : old[i].name = op.name /\ old[i].rest = NoRest
    BY <1>1 DEF Filed, OverloadsOf
  <1> HIDE DEF old
  <1>7. /\ Append(old, op) \in Seq(Elements) /\ Append(old, op) # <<>>
        /\ \A i \in DOMAIN Append(old, op) :
             Append(old, op)[i] = op \/ (i \in DOMAIN old /\ Append(old, op)[i] = old[i])
    <2>1. /\ Append(old, op) \in Seq(Elements)
          /\ Len(Append(old, op)) = Len(old) + 1
          /\ \A i \in 1..Len(old) : Append(old, op)[i] = old[i]
          /\ Append(old, op)[Len(old) + 1] = op
      BY <1>5, AppendProperties
    <2>2. Len(old) \in Nat /\ DOMAIN old = 1..Len(old)
      BY <1>5, LenProperties
    <2>3. DOMAIN Append(old, op) = 1..(Len(old) + 1)
      BY <2>1, LenProperties
    <2>4. Append(old, op) # <<>>
      <3>1. Len(Append(old, op)) # 0
        BY <2>1, <2>2
      <3> QED
        BY <2>1, <3>1, EmptySeq
    <2>5. ASSUME NEW i \in DOMAIN Append(old, op)
          PROVE  Append(old, op)[i] = op \/ (i \in DOMAIN old /\ Append(old, op)[i] = old[i])
      <3>1. i = Len(old) + 1 \/ i \in 1..Len(old)
        BY <2>2, <2>3
      <3> QED
        BY <2>1, <2>2, <3>1
    <2> QED
      BY <2>1, <2>4, <2>5
  <1>8. push = [name \in DOMAIN push |-> push[name]]
    BY DEF Push
  <1> HIDE DEF push
  <1>9. IsMap(push)
    <2>1. DOMAIN push \in SUBSET Names
      BY <1>2, <1>3, <1>4
    <2>2. \A name \in DOMAIN push : push[name] \in Seq(Elements)
      BY <1>2, <1>4, <1>7
    <2>3. push \in [DOMAIN push -> Seq(Elements)]
      BY <1>8, <2>2
    <2>4. IsFiniteSet(DOMAIN push)
      BY <1>1, <1>4, FS_AddElement DEF IsMap
    <2> QED
      BY <2>1, <2>3, <2>4 DEF IsMap
  <1>10. NonEmpty(push)
    BY <1>1, <1>4, <1>7 DEF NonEmpty
  <1>11. Filed(push)
    <2> SUFFICES ASSUME NEW name \in DOMAIN push, NEW i \in DOMAIN push[name]
                 PROVE  push[name][i].name = name /\ push[name][i].rest = NoRest
      BY DEF Filed
    <2>1. CASE name = op.name
      BY <1>4, <1>6, <1>7, <2>1
    <2>2. CASE name # op.name
      BY <1>1, <1>4, <2>2 DEF Filed
    <2> QED
      BY <2>1, <2>2
  <1> QED
    BY <1>9, <1>10, <1>11 DEF Good, push

-----------------------------------------------------------------------------
(* Contracts. *)

(* A contract with all that IInv says of it. *)
GoodContract(c) ==
  IsContract(c) /\ Good(c.functions) /\ Good(c.events) /\ Good(c.errors)

(* The contract without operations is a good one. *)
LEMMA DefaultGood == GoodContract(Default)
  <1>1. IsMap(Empty)
    BY EmptyGood DEF Good
  <1> QED
    BY <1>1, EmptyGood DEF GoodContract, Default, IsContract

(* What IInv says of the contract. *)
LEMMA IInvGood == ASSUME IInv PROVE GoodContract(contract)
  <1>1. IsContract(contract) /\ \A map \in Maps : NonEmpty(map) /\ Filed(map)
    BY DEF IInv, TypeOK, NoEmptyOverloads, FiledByName
  <1>2. IsMap(contract.functions) /\ IsMap(contract.events) /\ IsMap(contract.errors)
    BY <1>1 DEF IsContract
  <1> QED
    BY <1>1, <1>2 DEF GoodContract, Good, Maps

(* And the other way. *)
LEMMA GoodMaps ==
  ASSUME GoodContract(contract) PROVE NoEmptyOverloads /\ FiledByName
  BY DEF GoodContract, Good, NoEmptyOverloads, FiledByName, Maps

(* One turn of the loop keeps a contract good. *)
LEMMA AddGood ==
  ASSUME NEW c, GoodContract(c), NEW element \in Elements
  PROVE  GoodContract(Add(c, element))
  <1> DEFINE op == sanitize_name(element)
  <1>1. op \in Elements /\ op.rest = NoRest /\ op.inputs \in Inputs
    BY SanitizedOK
  <1>2. op.type \in Kinds
    BY <1>1 DEF Elements
  <1>3. /\ IsContract(c)
        /\ Good(c.functions) /\ Good(c.events) /\ Good(c.errors)
    BY DEF GoodContract
  <1> HIDE DEF op
  <1>4. /\ Good(Push(c.functions, op)) /\ Good(Push(c.events, op))
        /\ Good(Push(c.errors, op))
    BY <1>1, <1>3, PushGood
  <1>5. Add(c, element) =
          CASE op.type = "constructor" -> [c EXCEPT !.constructor = <<op.inputs>>]
            [] op.type = "function"    -> [c EXCEPT !.functions = Push(c.functions, op)]
            [] op.type = "event"       -> [c EXCEPT !.events = Push(c.events, op)]
            [] op.type = "error"       -> [c EXCEPT !.errors = Push(c.errors, op)]
            [] op.type = "fallback"    -> [c EXCEPT !.fallback = TRUE]
            [] op.type = "receive"     -> [c EXCEPT !.receive = TRUE]
    BY DEF Add, op
  <1>6. CASE op.type = "constructor"
    <2>1. Add(c, element) = [c EXCEPT !.constructor = <<op.inputs>>]
      BY <1>5, <1>6
    <2> QED
      BY <1>1, <1>3, <2>1 DEF GoodContract, IsContract
  <1>7. CASE op.type = "function"
    <2>1. Add(c, element) = [c EXCEPT !.functions = Push(c.functions, op)]
      BY <1>5, <1>7
    <2> QED
      BY <1>3, <1>4, <2>1 DEF GoodContract, IsContract, Good
  <1>8. CASE op.type = "event"
    <2>1. Add(c, element) = [c EXCEPT !.events = Push(c.events, op)]
      BY <1>5, <1>8
    <2> QED
      BY <1>3, <1>4, <2>1 DEF GoodContract, IsContract, Good
  <1>9. CASE op.type = "error"
    <2>1. Add(c, element) = [c EXCEPT !.errors = Push(c.errors, op)]
      BY <1>5, <1>9
    <2> QED
      BY <1>3, <1>4, <2>1 DEF GoodContract, IsContract, Good
  <1>10. CASE op.type \in {"fallback", "receive"}
    <2>1. \/ Add(c, element) = [c EXCEPT !.fallback = TRUE]
          \/ Add(c, element) = [c EXCEPT !.receive = TRUE]
      BY <1>5, <1>10
    <2> QED
      BY <1>3, <2>1 DEF GoodContract, IsContract
  <1> QED
    BY <1>2, <1>6, <1>7, <1>8, <1>9, <1>10 DEF Kinds

-----------------------------------------------------------------------------
(* The steps. *)

(* An operation without a name, with types, is an element. *)
LEMMA BareOK ==
  ASSUME NEW type \in Kinds, NEW inputs \in Inputs
  PROVE  Bare(type, inputs) \in Elements
  <1>1. (CHOOSE name \in Names : TRUE) \in Names
    BY NamesAssumption
  <1> QED
    BY <1>1 DEF Bare, Element, Elements

(* The maps of a good contract that serialize goes through are maps. *)
LEMMA MapOfOK ==
  ASSUME IInv, NEW part \in MapParts
  PROVE  IsMap(MapOf(part))
  BY IInvGood DEF GoodContract, Good, MapOf, MapParts

(* A contract that does not change keeps what IInv says of it. *)
LEMMA SameContract ==
  ASSUME IInv, contract' = contract
  PROVE  NoEmptyOverloads' /\ FiledByName' /\ IsContract(contract')
  BY DEF IInv, TypeOK, NoEmptyOverloads, FiledByName, Maps

(* A good contract has what IInv says of it, after a step. *)
LEMMA GoodAfter ==
  ASSUME GoodContract(contract')
  PROVE  NoEmptyOverloads' /\ FiledByName' /\ IsContract(contract')
  BY DEF GoodContract, Good, NoEmptyOverloads, FiledByName, Maps

(* The initial states. *)
LEMMA InitSafe == ASSUME Init PROVE IInv
  <1>1. contract = Default /\ GoodContract(contract) /\ IsContract(first)
    BY DefaultGood DEF Init, GoodContract
  <1>2. source \in Seq(Elements \cup {Invalid})
    BY SourcesAssumption DEF Init
  <1>3. next = 1 /\ Len(source) \in Nat
    BY <1>2, LenProperties DEF Init
  <1>4. NoEmptyOverloads /\ FiledByName
    BY <1>1, GoodMaps
  <1>5. IsContract(contract)
    BY <1>1 DEF GoodContract
  <1>6. phase \in Phases /\ phase \notin MapParts /\ written \in Seq(Elements) /\ pos \in Nat \ {0}
    BY DEF Init, Phases, MapParts
  <1> QED
    BY <1>1, <1>2, <1>3, <1>4, <1>5, <1>6 DEF IInv, TypeOK

(* Reading an element files it. *)
LEMMA NextElementSafe == ASSUME IInv, NextElement PROVE IInv'
  <1>1. /\ source \in Seq(Elements \cup {Invalid}) /\ next \in DOMAIN source
        /\ source[next] # Invalid /\ IsContract(first) /\ phase \in Phases
        /\ written \in Seq(Elements) /\ pos \in Nat \ {0} /\ phase \notin MapParts
    BY DEF IInv, TypeOK, NextElement, Loading, MapParts
  <1>2. source[next] \in Elements
    BY <1>1, ElementOfSeq
  <1>3. GoodContract(contract')
    BY <1>2, IInvGood, AddGood DEF NextElement
  <1>4. next' \in 1..(Len(source) + 1)
    BY <1>1, LenProperties DEF NextElement
  <1>5. UNCHANGED <<source, first, phase, written, keys, pos>>
    BY DEF NextElement
  <1> QED
    BY <1>1, <1>3, <1>4, <1>5, GoodAfter DEF IInv, TypeOK

(* An error drops the contract. *)
LEMMA LoadFailsSafe == ASSUME IInv, LoadFails PROVE IInv'
  <1>1. GoodContract(contract')
    BY DefaultGood DEF LoadFails
  <1>2. phase' \in Phases /\ phase' \notin MapParts
    BY DEF LoadFails, Phases, MapParts
  <1> QED
    BY <1>1, <1>2, GoodAfter DEF IInv, TypeOK, LoadFails

(* The loop ends. *)
LEMMA LoadedSafe == ASSUME IInv, Loaded PROVE IInv'
  <1>1. phase' \in Phases /\ phase' \notin MapParts
    BY DEF Loaded, Phases, MapParts
  <1> QED
    BY <1>1, SameContract DEF IInv, TypeOK, Loaded

(* serialize writes the constructor and goes on to the first map. *)
LEMMA WriteConstructorSafe == ASSUME IInv, WriteConstructor PROVE IInv'
  <1>1. written' \in Seq(Elements)
    <2>1. CASE contract.constructor = NoConstructor
      BY <2>1 DEF WriteConstructor
    <2>2. CASE contract.constructor # NoConstructor
      <3>1. contract.constructor[1] \in Inputs
        BY <2>2 DEF IInv, TypeOK, IsContract
      <3>2. Bare("constructor", contract.constructor[1]) \in Elements
        BY <3>1, BareOK DEF Kinds
      <3> QED
        BY <2>2, <3>2 DEF WriteConstructor
    <2> QED
      BY <2>1, <2>2
  <1>2. phase' = "function" /\ keys' = DOMAIN contract.functions /\ pos' = 1
        /\ UNCHANGED <<source, next, contract, first>>
    BY DEF WriteConstructor
  <1>3. MapOf(phase)' = contract.functions
    BY <1>2 DEF MapOf
  <1> QED
    BY <1>1, <1>2, <1>3, SameContract DEF IInv, TypeOK, Phases

(* serialize writes an overload. *)
LEMMA WriteOverloadSafe == ASSUME IInv, WriteOverload PROVE IInv'
  <1>1. PICK name \in keys :
          /\ pos \in DOMAIN MapOf(phase)[name]
          /\ written' = Append(written, MapOf(phase)[name][pos])
    BY DEF WriteOverload
  <1>2. name \in DOMAIN MapOf(phase) /\ IsMap(MapOf(phase))
    BY <1>1, MapOfOK DEF IInv, TypeOK, WriteOverload
  <1>3. MapOf(phase)[name] \in Seq(Elements)
    BY <1>2 DEF IsMap
  <1>4. MapOf(phase)[name][pos] \in Elements
    BY <1>1, <1>3, ElementOfSeq
  <1>5. written' \in Seq(Elements)
    BY <1>1, <1>4, AppendProperties DEF IInv, TypeOK
  <1>6. pos' \in Nat \ {0} /\ UNCHANGED <<source, next, contract, first, phase, keys>>
    BY DEF WriteOverload, IInv, TypeOK
  <1>7. MapOf(phase)' = MapOf(phase)
    BY <1>6 DEF MapOf
  <1> QED
    BY <1>5, <1>6, <1>7, SameContract DEF IInv, TypeOK

(* serialize goes on to the next name. *)
LEMMA NextKeySafe == ASSUME IInv, NextKey PROVE IInv'
  <1>1. keys' \subseteq keys /\ pos' = 1
        /\ UNCHANGED <<source, next, contract, first, phase, written>>
    BY DEF NextKey
  <1>2. MapOf(phase)' = MapOf(phase)
    BY <1>1 DEF MapOf
  <1> QED
    BY <1>1, <1>2, SameContract DEF IInv, TypeOK

(* serialize goes on to the next map. *)
LEMMA NextMapSafe == ASSUME IInv, NextMap PROVE IInv'
  <1>1. pos' = 1 /\ UNCHANGED <<source, next, contract, first, written>>
    BY DEF NextMap
  <1>2. phase' \in Phases
    BY DEF NextMap, MapParts, Phases
  <1>3. phase' \in MapParts => keys' \subseteq DOMAIN MapOf(phase)'
    BY <1>1 DEF NextMap, MapParts, MapOf
  <1> QED
    BY <1>1, <1>2, <1>3, SameContract DEF IInv, TypeOK

(* What was written is read from its first element. *)
LEMMA ReloadSafe == ASSUME IInv, Reload PROVE IInv'
  <1>1. GoodContract(contract') /\ first' = contract /\ IsContract(contract)
    BY DefaultGood DEF Reload, IInv, TypeOK
  <1>2. NoInputs \in Inputs
    BY NamesAssumption DEF NoInputs
  <1>3. Bare("receive", NoInputs) \in Elements /\ Bare("fallback", NoInputs) \in Elements
    BY <1>2, BareOK DEF Kinds
  <1>4. /\ (IF contract.receive THEN <<Bare("receive", NoInputs)>> ELSE <<>>) \in Seq(Elements)
        /\ (IF contract.fallback THEN <<Bare("fallback", NoInputs)>> ELSE <<>>) \in Seq(Elements)
    BY <1>3
  <1>5. source' \in Seq(Elements)
    <2>1. written \in Seq(Elements)
      BY DEF IInv, TypeOK
    <2> QED
      BY <1>4, <2>1, ConcatProperties DEF Reload
  <1>6. source' \in Seq(Elements \cup {Invalid})
    <2>1. Len(source') \in Nat /\ source' \in [1..Len(source') -> Elements]
      BY <1>5, LenProperties
    <2>2. source' \in [1..Len(source') -> Elements \cup {Invalid}]
      BY <2>1
    <2> QED
      BY <2>1, <2>2
  <1>7. next' \in 1..(Len(source') + 1)
    <2>1. Len(source') \in Nat
      BY <1>6, LenProperties
    <2>2. next' = 1
      BY DEF Reload
    <2> QED
      BY <2>1, <2>2
  <1>8. phase' \in Phases /\ phase' \notin MapParts
    BY DEF Reload, Phases, MapParts
  <1>9. UNCHANGED <<written, keys, pos>>
    BY DEF Reload
  <1> QED
    BY <1>1, <1>6, <1>7, <1>8, <1>9, GoodAfter DEF IInv, TypeOK

(* A step that changes nothing. *)
LEMMA StutterSafe == ASSUME IInv, UNCHANGED vars PROVE IInv'
  <1>1. MapOf(phase)' = MapOf(phase)
    BY DEF vars, MapOf
  <1> QED
    BY <1>1, SameContract DEF IInv, TypeOK, vars

-----------------------------------------------------------------------------
(* IInv holds in every reachable state. *)
LEMMA Inductive == Spec => []IInv
  <1>1. Init => IInv
    BY InitSafe
  <1>2. IInv /\ [Next]_vars => IInv'
    BY NextElementSafe, LoadFailsSafe, LoadedSafe, WriteConstructorSafe,
       WriteOverloadSafe, NextKeySafe, NextMapSafe, ReloadSafe, StutterSafe
       DEF Next
  <1> QED
    BY <1>1, <1>2, PTL DEF Spec

(* The variables of loading and serializing keep their types. *)
THEOREM ContractTypeCorrect == Spec => []TypeOK
  <1>1. IInv => TypeOK
    BY DEF IInv
  <1> QED
    BY <1>1, Inductive, PTL

(* Whatever the ABI, no name of a contract has an empty list of overloads, *)
(* so that no lookup comes to the arm "0 => unreachable!()" of the command *)
(* line, and every overload is filed under its own, sanitized, name.       *)
THEOREM AlwaysWellFiled == Spec => []WellFiled
  <1>1. IInv => WellFiled
    BY DEF IInv, WellFiled
  <1> QED
    BY <1>1, Inductive, PTL

-----------------------------------------------------------------------------
(* Lookups. *)

(* The first of some positions is one of them. *)
LEMMA MinIn == ASSUME NEW T, T \subseteq Nat, T # {} PROVE Min(T) \in T
  BY LeastNatural DEF Min

(* A signature begins with the name, and is longer than a name.            *)
LEMMA Signatures ==
  ASSUME NEW op PROVE signature(op)[1] = op.name /\ Len(signature(op)) > 1
  BY DEF signature, function_signature, event_signature

(* The lookups in a map of overloads that has what IInv says of it. *)
LEMMA GoodSelects ==
  ASSUME NEW map, Good(map), NEW name \in DOMAIN map
  PROVE  /\ \A i \in DOMAIN map[name] :
              LET sig == signature(map[name][i])
                  res == lookup(map, sig)
              IN  res.status = "Ok" /\ signature(res.val) = sig
         /\ (lookup(map, <<name>>).status = "Ok") = (Len(map[name]) = 1)
         /\ first_of(map, name) = Ok(map[name][1])
  <1> DEFINE ops == map[name]
  <1>1. ops \in Seq(Elements) /\ ops # <<>> /\ Len(ops) \in Nat /\ DOMAIN ops = 1..Len(ops)
    BY LenProperties DEF Good, IsMap, NonEmpty
  <1>2. Len(ops) # 0
    BY <1>1, EmptySeq
  <1>3. by_name(map, name) = Ok(ops)
    BY DEF by_name
  <1>4. ASSUME NEW i \in DOMAIN ops
        PROVE  LET sig == signature(ops[i])
                   res == lookup(map, sig)
               IN  res.status = "Ok" /\ signature(res.val) = sig
    <2> DEFINE sig == signature(ops[i])
               same == {j \in DOMAIN ops : signature(ops[j]) = sig}
    <2>1. sig[1] = name /\ Len(sig) > 1
      BY Signatures DEF Good, Filed
    <2>2. same # {} /\ same \subseteq Nat
      BY <1>1
    <2>3. Min(same) \in same
      BY <2>2, MinIn
    <2>4. find(ops, sig) = Ok(ops[Min(same)])
      BY <2>2 DEF find
    <2> HIDE DEF sig
    <2>5. lookup(map, sig) = find(ops, sig)
      BY <1>3, <2>1 DEF lookup, Ok
    <2> QED
      BY <2>3, <2>4, <2>5 DEF Ok, sig
  <1>5. (lookup(map, <<name>>).status = "Ok") = (Len(ops) = 1)
    <2> DEFINE query == <<name>>
    <2>1. query[1] = name /\ Len(query) = 1
      OBVIOUS
    <2> HIDE DEF query, ops
    <2>2. lookup(map, query) = CASE Len(ops) = 0 -> Unreachable
                                 [] Len(ops) = 1 -> Ok(ops[1])
                                 [] Len(ops) > 1 -> Err
      <3>1. by_name(map, query[1]) = Ok(ops) /\ ~(Len(query) > 1)
        BY <1>3, <2>1
      <3>2. Ok(ops).status = "Ok" /\ Ok(ops).val = ops
        BY DEF Ok
      <3> QED
        BY <3>1, <3>2 DEF lookup
    <2>3. CASE Len(ops) = 1
      BY <2>2, <2>3 DEF Ok, query
    <2>4. CASE Len(ops) > 1
      <3> DEFINE n == Len(ops)
      <3>1. n \in Nat /\ n > 1
        BY <1>1, <2>4
      <3> HIDE DEF n
      <3>2. n # 1 /\ n # 0
        BY <3>1
      <3>3. Len(ops) # 1 /\ Len(ops) # 0
        BY <3>2 DEF n
      <3>4. lookup(map, query) = Err
        BY <2>2, <2>4, <3>3
      <3>5. Err.status # "Ok"
        BY DEF Err
      <3> QED
        BY <3>3, <3>4, <3>5 DEF query
    <2> QED
      BY <1>1, <1>2, <2>3, <2>4
  <1>6. first_of(map, name) = Ok(ops[1])
    <2>1. Head(ops) = ops[1]
      BY <1>1, HeadTailProperties
    <2> HIDE DEF ops
    <2> QED
      BY <1>1, <1>3, <2>1 DEF first_of, Ok
  <1> QED
    BY <1>4, <1>5, <1>6

(* The whole signature of a function or event always selects one with this *)
(* signature, and a name alone does if it is not overloaded.               *)
THEOREM SignatureAlwaysSelects == Spec => []SignatureSelects
  <1>1. IInv => SignatureSelects
    <2> SUFFICES ASSUME IInv PROVE SignatureSelects
      OBVIOUS
    <2>1. Good(contract.functions) /\ Good(contract.events)
      BY IInvGood DEF GoodContract
    <2>2. MapOf("function") = contract.functions /\ MapOf("event") = contract.events
      BY DEF MapOf
    <2>3. Selects("function")
      BY <2>1, <2>2, GoodSelects DEF Selects, load
    <2>4. Selects("event")
      BY <2>1, <2>2, GoodSelects DEF Selects, load
    <2> QED
      BY <2>3, <2>4 DEF SignatureSelects
  <1> QED
    BY <1>1, Inductive, PTL

-----------------------------------------------------------------------------
(* The elements of a sequence that are in a set. *)

QueryLen == [q \in Queries |-> Len(q.seq)]

(* The right side of the definition of kept. *)
KeptDef(f, q) ==
  IF q.seq = <<>> THEN <<>>
  ELSE LET others == f[[q EXCEPT !.seq = Front(@)]]
           last   == Last(q.seq)
       IN  IF last \in q.set THEN Append(others, last) ELSE others

Keeping == INSTANCE Recursion WITH
  Dom <- Queries, measure <- QueryLen, Def <- KeptDef

(* A query without the last element. *)
LEMMA FrontQuery ==
  ASSUME NEW q \in Queries, q.seq # <<>>
  PROVE  LET front == [q EXCEPT !.seq = Front(@)]
         IN  front \in Queries /\ QueryLen[front] < QueryLen[q]
  <1> DEFINE front == [q EXCEPT !.seq = Front(@)]
  <1>1. q.seq \in Seq(Elements) /\ q.set \in SUBSET Elements
    BY DEF Queries
  <1>2. /\ Front(q.seq) \in Seq(Elements)
        /\ Len(q.seq) \in Nat /\ Len(Front(q.seq)) \in Nat
        /\ Len(q.seq) = Len(Front(q.seq)) + 1
    BY <1>1, FrontOfSeq
  <1>3. front \in Queries /\ front.seq = Front(q.seq)
    BY <1>1, <1>2 DEF Queries
  <1> HIDE DEF front
  <1>4. QueryLen[front] = Len(Front(q.seq)) /\ QueryLen[q] = Len(q.seq)
    BY <1>3 DEF QueryLen
  <1> QED
    BY <1>2, <1>3, <1>4 DEF front

(* kept obeys its definition. *)
LEMMA KeptEquation == \A q \in Queries : kept[q] = KeptDef(kept, q)
  <1>1. Keeping!WellFounded
    <2>1. QueryLen \in [Queries -> Nat]
      BY LenProperties DEF QueryLen, Queries
    <2>2. ASSUME NEW f, NEW g, NEW q \in Queries,
                 \A p \in Queries : QueryLen[p] < QueryLen[q] => f[p] = g[p]
          PROVE  KeptDef(f, q) = KeptDef(g, q)
      <3>1. CASE q.seq = <<>>
        BY <3>1 DEF KeptDef
      <3>2. CASE q.seq # <<>>
        <4> DEFINE front == [q EXCEPT !.seq = Front(@)]
        <4>1. f[front] = g[front]
          <5>1. front \in Queries /\ QueryLen[front] < QueryLen[q]
            BY <3>2, FrontQuery
          <5> HIDE DEF front
          <5> QED BY <2>2, <5>1
        <4> QED
          BY <3>2, <4>1 DEF KeptDef
      <3> QED
        BY <3>1, <3>2
    <2> QED
      BY <2>1, <2>2 DEF Keeping!WellFounded
  <1>2. kept = CHOOSE f : f = [q \in Queries |-> KeptDef(f, q)]
    BY DEF kept, KeptDef
  <1>3. kept = [q \in Queries |-> KeptDef(kept, q)]
    BY <1>1, <1>2, NaturalInduction, Keeping!Defined DEF Keeping!Inductive
  <1> QED
    BY <1>3

(* Nothing is kept of nothing, and of a sequence that grew by an element   *)
(* this element is kept if it is in the set.                               *)
LEMMA KeptGrows ==
  ASSUME NEW T \in SUBSET Elements
  PROVE  /\ Kept(T, <<>>) = <<>>
         /\ \A s \in Seq(Elements) : \A e \in Elements :
              Kept(T, Append(s, e)) =
                IF e \in T THEN Append(Kept(T, s), e) ELSE Kept(T, s)
  <1>1. Kept(T, <<>>) = <<>>
    <2> DEFINE q == [set |-> T, seq |-> <<>>]
    <2>1. q \in Queries /\ q.seq = <<>>
      BY EmptySeq DEF Queries
    <2> HIDE DEF q
    <2>2. kept[q] = <<>>
      BY <2>1, KeptEquation DEF KeptDef
    <2> QED
      BY <2>2 DEF Kept, q
  <1>2. ASSUME NEW s \in Seq(Elements), NEW e \in Elements
        PROVE  Kept(T, Append(s, e)) =
                 IF e \in T THEN Append(Kept(T, s), e) ELSE Kept(T, s)
    <2> DEFINE t == Append(s, e)
               q == [set |-> T, seq |-> t]
               p == [set |-> T, seq |-> s]
    <2>1. t \in Seq(Elements) /\ t # <<>> /\ Front(t) = s /\ Last(t) = e
      BY FrontOfAppend
    <2> HIDE DEF t
    <2>2. q \in Queries /\ q.seq = t /\ q.set = T /\ [q EXCEPT !.seq = Front(@)] = p
      BY <2>1 DEF Queries
    <2> HIDE DEF q
    <2>3. KeptDef(kept, q) = IF e \in T THEN Append(kept[p], e) ELSE kept[p]
      BY <2>1, <2>2 DEF KeptDef
    <2>4. kept[q] = KeptDef(kept, q)
      BY <2>2, KeptEquation
    <2> QED
      BY <2>3, <2>4 DEF Kept, q, t
  <1> QED
    BY <1>1, <1>2

(* What is kept are elements of the set and of the sequence. *)
LEMMA KeptType ==
  ASSUME NEW T \in SUBSET Elements, NEW s \in Seq(Elements)
  PROVE  /\ Kept(T, s) \in Seq(Elements)
         /\ \A i \in DOMAIN Kept(T, s) : Kept(T, s)[i] \in T /\ Kept(T, s)[i] \in Range(s)
  <1> DEFINE S == {t \in Seq(Elements) :
                     /\ Kept(T, t) \in Seq(Elements)
                     /\ \A i \in DOMAIN Kept(T, t) :
                          Kept(T, t)[i] \in T /\ Kept(T, t)[i] \in Range(t)}
  <1>1. <<>> \in S
    <2>1. <<>> \in Seq(Elements) /\ DOMAIN <<>> = {}
      BY EmptySeq
    <2>2. Kept(T, <<>>) = <<>>
      BY KeptGrows
    <2> QED
      BY <2>1, <2>2
  <1>2. ASSUME NEW t \in Seq(Elements), NEW e \in Elements, t \in S
        PROVE  Append(t, e) \in S
    <2> DEFINE u == Append(t, e)
               k == Kept(T, t)
    <2>1. u \in Seq(Elements) /\ Range(u) = Range(t) \cup {e}
      BY FrontOfAppend, RangeOfAppend
    <2>2. k \in Seq(Elements) /\ \A i \in DOMAIN k : k[i] \in T /\ k[i] \in Range(t)
      BY <1>2
    <2>3. CASE e \in T
      <3>1. Kept(T, u) = Append(k, e)
        BY <2>3, KeptGrows
      <3>2. /\ Append(k, e) \in Seq(Elements) /\ Len(Append(k, e)) = Len(k) + 1
            /\ \A i \in 1..Len(k) : Append(k, e)[i] = k[i]
            /\ Append(k, e)[Len(k) + 1] = e /\ Len(k) \in Nat /\ DOMAIN k = 1..Len(k)
        BY <2>2, AppendProperties, LenProperties
      <3>3. DOMAIN Append(k, e) = 1..(Len(k) + 1)
        BY <3>2, LenProperties
      <3> HIDE DEF k, u
      <3>4. \A i \in 1..(Len(k) + 1) : i \in 1..Len(k) \/ i = Len(k) + 1
        BY <3>2
      <3>5. \A i \in DOMAIN Append(k, e) : Append(k, e)[i] \in T /\ Append(k, e)[i] \in Range(u)
        BY <2>1, <2>2, <2>3, <3>2, <3>3, <3>4
      <3> QED
        BY <2>1, <3>1, <3>2, <3>5 DEF u
    <2>4. CASE e \notin T
      <3>1. Kept(T, u) = k
        BY <2>4, KeptGrows
      <3> QED
        BY <2>1, <2>2, <3>1
    <2> QED
      BY <2>3, <2>4
  <1> HIDE DEF S
  <1>3. Seq(Elements) \subseteq S
    BY <1>1, <1>2, SeqInduction
  <1> QED
    BY <1>3 DEF S

(* Nothing is kept of a sequence without elements of the set. *)
LEMMA KeptNothing ==
  ASSUME NEW T \in SUBSET Elements, NEW s \in Seq(Elements), Range(s) \cap T = {}
  PROVE  Kept(T, s) = <<>>
  <1> DEFINE k == Kept(T, s)
  <1>1. k \in Seq(Elements) /\ \A i \in DOMAIN k : k[i] \in T /\ k[i] \in Range(s)
    BY KeptType
  <1>2. DOMAIN k = {}
    BY <1>1
  <1>3. Len(k) \in Nat /\ DOMAIN k = 1..Len(k)
    BY <1>1, LenProperties
  <1>4. Len(k) = 0
    <2> HIDE DEF k
    <2>1. 1 \in 1..Len(k) \/ Len(k) = 0
      BY <1>3
    <2> QED
      BY <1>2, <1>3, <2>1
  <1> QED
    BY <1>1, <1>4, EmptySeq

-----------------------------------------------------------------------------
(* What loading keeps. *)

DeclaredIn(seq, type) == Kept(OfTypes({type}), seq)

FilesOf(map, type, seq) ==
  /\ DOMAIN map = {op.name : op \in Range(DeclaredIn(seq, type))}
  /\ \A name \in DOMAIN map : map[name] = Kept(Named(name), DeclaredIn(seq, type))

(* What KeepsOverloads says of a contract and the operations it was built  *)
(* from.                                                                   *)
KeepsAll(c, seq) ==
  /\ FilesOf(c.functions, "function", seq)
  /\ FilesOf(c.events, "event", seq)
  /\ FilesOf(c.errors, "error", seq)
  /\ c.constructor = LET cs == DeclaredIn(seq, "constructor")
                     IN  IF cs = <<>> THEN <<>> ELSE <<Last(cs).inputs>>
  /\ c.receive = (DeclaredIn(seq, "receive") # <<>>)
  /\ c.fallback = (DeclaredIn(seq, "fallback") # <<>>)

(* The declared operations after one more of some type. *)
LEMMA DeclaredGrows ==
  ASSUME NEW seq \in Seq(Elements), NEW op \in Elements, NEW type
  PROVE  /\ DeclaredIn(seq, type) \in Seq(Elements)
         /\ op.type = type =>
              DeclaredIn(Append(seq, op), type) = Append(DeclaredIn(seq, type), op)
         /\ op.type # type => DeclaredIn(Append(seq, op), type) = DeclaredIn(seq, type)
  <1>1. OfTypes({type}) \in SUBSET Elements
    BY DEF OfTypes
  <1>2. op \in OfTypes({type}) <=> op.type = type
    BY DEF OfTypes
  <1> QED
    BY <1>1, <1>2, KeptGrows, KeptType DEF DeclaredIn

(* Filing an operation of the type. *)
LEMMA FilesPush ==
  ASSUME NEW map, IsMap(map), NEW type, NEW seq \in Seq(Elements),
         FilesOf(map, type, seq), NEW op \in Elements, op.type = type
  PROVE  FilesOf(Push(map, op), type, Append(seq, op))
  <1> DEFINE decl  == DeclaredIn(seq, type)
             decl2 == DeclaredIn(Append(seq, op), type)
             map2  == Push(map, op)
  <1>1. decl \in Seq(Elements) /\ decl2 = Append(decl, op)
    BY DeclaredGrows
  <1>2. Range(decl2) = Range(decl) \cup {op}
    BY <1>1, RangeOfAppend
  <1>3. /\ DOMAIN map2 = DOMAIN map \cup {op.name}
        /\ \A name \in DOMAIN map : name # op.name => map2[name] = map[name]
        /\ map2[op.name] = Append(OverloadsOf(map, op.name), op)
    BY PushValues
  <1>4. /\ DOMAIN map = {o.name : o \in Range(decl)}
        /\ \A name \in DOMAIN map : map[name] = Kept(Named(name), decl)
    BY DEF FilesOf
  <1> HIDE DEF decl, decl2, map2
  <1>5. DOMAIN map2 = {o.name : o \in Range(decl2)}
    BY <1>2, <1>3, <1>4
  <1>6. ASSUME NEW name \in DOMAIN map2
        PROVE  map2[name] = Kept(Named(name), decl2)
    <2>1. Named(name) \in SUBSET Elements /\ (op \in Named(name) <=> op.name = name)
      BY DEF Named
    <2>2. Kept(Named(name), decl2) =
            IF op \in Named(name) THEN Append(Kept(Named(name), decl), op)
                                  ELSE Kept(Named(name), decl)
      BY <1>1, <2>1, KeptGrows
    <2>3. CASE name # op.name
      BY <1>3, <1>4, <2>1, <2>2, <2>3
    <2>4. CASE name = op.name
      <3>1. OverloadsOf(map, name) = Kept(Named(name), decl)
        <4>1. CASE name \in DOMAIN map
          BY <1>4, <4>1 DEF OverloadsOf
        <4>2. CASE name \notin DOMAIN map
          <5>1. Range(decl) \cap Named(name) = {}
            BY <1>4, <4>2 DEF Named
          <5>2. Kept(Named(name), decl) = <<>>
            BY <1>1, <2>1, <5>1, KeptNothing
          <5> QED
            BY <4>2, <5>2 DEF OverloadsOf
        <4> QED
          BY <4>1, <4>2
      <3> QED
        BY <1>3, <2>1, <2>2, <2>4, <3>1
    <2> QED
      BY <2>3, <2>4
  <1> QED
    BY <1>5, <1>6 DEF FilesOf, decl, decl2, map2

(* An operation of another type. *)
LEMMA FilesSkip ==
  ASSUME NEW map, NEW type, NEW seq \in Seq(Elements),
         FilesOf(map, type, seq), NEW op \in Elements, op.type # type
  PROVE  FilesOf(map, type, Append(seq, op))
  BY DeclaredGrows DEF FilesOf

(* Before the first element. *)
LEMMA DefaultKeeps == KeepsAll(Default, <<>>)
  <1>1. \A type : DeclaredIn(<<>>, type) = <<>>
    BY KeptGrows DEF DeclaredIn, OfTypes
  <1>2. Range(<<>>) = {} /\ DOMAIN Empty = {}
    BY DEF Range, Empty
  <1> QED
    BY <1>1, <1>2 DEF KeepsAll, FilesOf, Default, NoConstructor

(* One turn of the loop. *)
LEMMA AddKeeps ==
  ASSUME NEW c, GoodContract(c), NEW seq \in Seq(Elements), KeepsAll(c, seq),
         NEW element \in Elements
  PROVE  KeepsAll(Add(c, element), Append(seq, sanitize_name(element)))
  <1> DEFINE op   == sanitize_name(element)
             seq2 == Append(seq, op)
  <1>1. op \in Elements /\ op.type \in Kinds
    BY SanitizedOK DEF Elements
  <1>2. /\ IsContract(c)
        /\ IsMap(c.functions) /\ IsMap(c.events) /\ IsMap(c.errors)
    BY DEF GoodContract, Good
  <1> HIDE DEF op
  <1>3. Add(c, element) =
          CASE op.type = "constructor" -> [c EXCEPT !.constructor = <<op.inputs>>]
            [] op.type = "function"    -> [c EXCEPT !.functions = Push(c.functions, op)]
            [] op.type = "event"       -> [c EXCEPT !.events = Push(c.events, op)]
            [] op.type = "error"       -> [c EXCEPT !.errors = Push(c.errors, op)]
            [] op.type = "fallback"    -> [c EXCEPT !.fallback = TRUE]
            [] op.type = "receive"     -> [c EXCEPT !.receive = TRUE]
    BY DEF Add, op
  <1>4. \A type : /\ DeclaredIn(seq, type) \in Seq(Elements)
                  /\ op.type = type => DeclaredIn(seq2, type) = Append(DeclaredIn(seq, type), op)
                  /\ op.type # type => DeclaredIn(seq2, type) = DeclaredIn(seq, type)
    BY <1>1, DeclaredGrows
  <1>5. \A s \in Seq(Elements) : Append(s, op) # <<>> /\ Last(Append(s, op)) = op
    BY <1>1, FrontOfAppend
  <1>6. \A type, map : FilesOf(map, type, seq) /\ op.type # type => FilesOf(map, type, seq2)
    BY <1>1, FilesSkip
  <1>7. \A type, map : FilesOf(map, type, seq) /\ IsMap(map) /\ op.type = type
                         => FilesOf(Push(map, op), type, seq2)
    BY <1>1, FilesPush
  <1> HIDE DEF seq2
  <1>8. CASE op.type = "constructor"
    <2>1. Add(c, element) = [c EXCEPT !.constructor = <<op.inputs>>]
      BY <1>3, <1>8
    <2> QED
      BY <1>2, <1>4, <1>5, <1>6, <1>8, <2>1 DEF KeepsAll, IsContract, op, seq2
  <1>9. CASE op.type = "function"
    <2>1. Add(c, element) = [c EXCEPT !.functions = Push(c.functions, op)]
      BY <1>3, <1>9
    <2> QED
      BY <1>2, <1>4, <1>6, <1>7, <1>9, <2>1 DEF KeepsAll, IsContract, op, seq2
  <1>10. CASE op.type = "event"
    <2>1. Add(c, element) = [c EXCEPT !.events = Push(c.events, op)]
      BY <1>3, <1>10
    <2> QED
      BY <1>2, <1>4, <1>6, <1>7, <1>10, <2>1 DEF KeepsAll, IsContract, op, seq2
  <1>11. CASE op.type = "error"
    <2>1. Add(c, element) = [c EXCEPT !.errors = Push(c.errors, op)]
      BY <1>3, <1>11
    <2> QED
      BY <1>2, <1>4, <1>6, <1>7, <1>11, <2>1 DEF KeepsAll, IsContract, op, seq2
  <1>12. CASE op.type = "fallback"
    <2>1. Add(c, element) = [c EXCEPT !.fallback = TRUE]
      BY <1>3, <1>12
    <2> QED
      BY <1>2, <1>4, <1>5, <1>6, <1>12, <2>1 DEF KeepsAll, IsContract, op, seq2
  <1>13. CASE op.type = "receive"
    <2>1. Add(c, element) = [c EXCEPT !.receive = TRUE]
      BY <1>3, <1>13
    <2> QED
      BY <1>2, <1>4, <1>5, <1>6, <1>13, <2>1 DEF KeepsAll, IsContract, op, seq2
  <1> QED
    BY <1>1, <1>8, <1>9, <1>10, <1>11, <1>12, <1>13 DEF Kinds

-----------------------------------------------------------------------------
(* KeepsOverloads, with what it rests on: everything read is an operation. *)
ReadOK == Read \in Seq(Elements) /\ (phase # "failed" => KeepsAll(contract, Read))

(* KeepsOverloads says of each map what KeepsAll says of its list. *)
LEMMA KeepsMeans == KeepsOverloads <=> (phase # "failed" => KeepsAll(contract, Read))
  BY DEF KeepsOverloads, KeepsAll, Files, FilesOf, Declared, DeclaredIn

(* A step that reads nothing. *)
LEMMA SameRead ==
  ASSUME ReadOK, phase # "failed", UNCHANGED <<source, next, contract>>
  PROVE  ReadOK'
  <1>1. Read' = Read
    BY DEF Read
  <1> QED
    BY <1>1 DEF ReadOK

(* What the loop has read, with one more element. *)
LEMMA ReadGrows ==
  ASSUME IInv, NextElement, ReadOK
  PROVE  source[next] \in Elements /\ Read' = Append(Read, sanitize_name(source[next]))
  <1>1. /\ source \in Seq(Elements \cup {Invalid}) /\ next \in DOMAIN source
        /\ source[next] # Invalid
        /\ next' = next + 1 /\ source' = source
    BY DEF IInv, TypeOK, NextElement
  <1>2. source[next] \in Elements /\ next \in Nat /\ next >= 1
    BY <1>1, LenProperties, ElementOfSeq
  <1> DEFINE op == sanitize_name(source[next])
             n  == next - 1
  <1>3. op \in Elements /\ n \in Nat /\ next' - 1 = n + 1 /\ n + 1 = next
    BY <1>1, <1>2, SanitizedOK
  <1>4. Read = [i \in 1..n |-> sanitize_name(source[i])] /\ Read \in Seq(Elements)
    BY DEF Read, ReadOK
  <1>5. Read' = [i \in 1..(n + 1) |-> sanitize_name(source[i])]
    BY <1>1, <1>3 DEF Read
  <1> HIDE DEF n
  <1>6. Len(Read) = n
    BY <1>3, <1>4
  <1>7. /\ Append(Read, op) \in Seq(Elements) /\ Len(Append(Read, op)) = n + 1
        /\ \A i \in 1..n : Append(Read, op)[i] = Read[i]
        /\ Append(Read, op)[n + 1] = op
    BY <1>3, <1>4, <1>6, AppendProperties
  <1>8. ASSUME NEW i \in 1..(n + 1)
        PROVE  Read'[i] = Append(Read, op)[i]
    <2>1. CASE i = n + 1
      BY <1>3, <1>5, <1>7, <2>1
    <2>2. CASE i # n + 1
      <3>1. i \in 1..n
        BY <1>3, <2>2
      <3> QED
        BY <1>4, <1>5, <1>7, <3>1
    <2> QED
      BY <2>1, <2>2
  <1>9. DOMAIN Append(Read, op) = 1..(n + 1)
    BY <1>7, LenProperties
  <1>10. Read' = Append(Read, op)
    <2>1. Append(Read, op) = [i \in 1..(n + 1) |-> Append(Read, op)[i]]
      BY <1>7, LenProperties
    <2> HIDE DEF op
    <2>2. Read' = [i \in 1..(n + 1) |-> Read'[i]]
      BY <1>5
    <2> QED
      BY <1>8, <2>1, <2>2
  <1> QED
    BY <1>2, <1>10

(* Reading keeps every operation, and nothing else changes what was kept. *)
LEMMA StepReads == ASSUME IInv, [Next]_vars, ReadOK PROVE ReadOK'
  <1>1. CASE NextElement
    <2> DEFINE op == sanitize_name(source[next])
    <2>1. source[next] \in Elements /\ Read' = Append(Read, op)
      BY <1>1, ReadGrows
    <2>2. contract' = Add(contract, source[next]) /\ phase # "failed"
      BY <1>1 DEF NextElement, Loading
    <2>3. KeepsAll(contract, Read) /\ Read \in Seq(Elements) /\ GoodContract(contract)
      BY <2>2, IInvGood DEF ReadOK
    <2>4. KeepsAll(contract', Read')
      BY <2>1, <2>2, <2>3, AddKeeps
    <2>5. Read' \in Seq(Elements)
      BY <2>1, <2>3, SanitizedOK, AppendProperties
    <2> QED
      BY <2>4, <2>5 DEF ReadOK
  <1>2. CASE LoadFails
    <2>1. Read' = Read /\ phase' = "failed"
      BY <1>2 DEF LoadFails, Read
    <2> QED
      BY <2>1 DEF ReadOK
  <1>3. CASE Loaded
    BY <1>3, SameRead DEF Loaded, Loading
  <1>4. CASE WriteConstructor
    BY <1>4, SameRead DEF WriteConstructor
  <1>5. CASE WriteOverload
    BY <1>5, SameRead DEF WriteOverload, MapParts
  <1>6. CASE NextKey
    BY <1>6, SameRead DEF NextKey, MapParts
  <1>7. CASE NextMap
    BY <1>7, SameRead DEF NextMap, MapParts
  <1>8. CASE Reload
    <2>1. contract' = Default /\ next' = 1
      BY <1>8 DEF Reload
    <2>2. Read' = <<>>
      BY <2>1 DEF Read
    <2> QED
      BY <2>1, <2>2, DefaultKeeps, EmptySeq DEF ReadOK
  <1>9. CASE UNCHANGED vars
    <2>1. Read' = Read
      BY <1>9 DEF Read, vars
    <2> QED
      BY <1>9, <2>1 DEF ReadOK, vars
  <1> QED
    BY <1>1, <1>2, <1>3, <1>4, <1>5, <1>6, <1>7, <1>8, <1>9 DEF Next

(* The overloads are those of the operations read, throughout. *)
LEMMA InductiveReads == Spec => []ReadOK
  <1>1. Init => ReadOK
    <2> SUFFICES ASSUME Init PROVE ReadOK
      OBVIOUS
    <2>1. contract = Default /\ Read = <<>>
      BY DEF Init, Read
    <2> QED
      BY <2>1, DefaultKeeps, EmptySeq DEF ReadOK
  <1>2. IInv /\ [Next]_vars /\ ReadOK => ReadOK'
    BY StepReads
  <1> QED
    BY <1>1, <1>2, Inductive, PTL DEF Spec

(* No overload is lost, none is filed twice, and the overloads of a name   *)
(* keep the order of the ABI, however the ABI mixes them.                  *)
THEOREM AlwaysKeepsOverloads == Spec => []KeepsOverloads
  <1>1. ReadOK => KeepsOverloads
    BY KeepsMeans DEF ReadOK
  <1> QED
    BY <1>1, InductiveReads, PTL

-----------------------------------------------------------------------------
(* The order of the iterators. *)

NamesLeft   == [q \in Flats |-> Cardinality(q.names)]

(* The right side of the definition of flatten. *)
FlattenDef(f, q) ==
  IF q.names = {} THEN <<>>
  ELSE LET last == Max(q.names)
       IN  f[[q EXCEPT !.names = @ \ {last}]] \o q.lists[last]

Flattening == INSTANCE Recursion WITH
  Dom <- Flats, measure <- NamesLeft, Def <- FlattenDef

(* A finite set of names has a greatest one. *)
LEMMA MaxIn ==
  ASSUME NEW T \in FiniteNames, T # {}
  PROVE  Max(T) \in T /\ \A x \in T : x <= Max(T)
  <1> DEFINE below(x) == {y \in T : y < x}
             Outside  == {Cardinality(T) - Cardinality(below(x)) : x \in T}
  <1>1. IsFiniteSet(T) /\ T \subseteq Int /\ Cardinality(T) \in Nat
    BY NamesAssumption, FS_CardinalityType DEF FiniteNames
  <1>2. ASSUME NEW x \in T
        PROVE  /\ Cardinality(below(x)) \in Nat
               /\ Cardinality(T) - Cardinality(below(x)) \in Nat
    <2>1. below(x) \in SUBSET T
      OBVIOUS
    <2> HIDE DEF below
    <2>2. IsFiniteSet(below(x)) /\ Cardinality(below(x)) <= Cardinality(T)
      BY <1>1, <2>1, FS_Subset
    <2>3. Cardinality(below(x)) \in Nat
      BY <2>2, FS_CardinalityType
    <2> QED
      BY <1>1, <2>2, <2>3
  <1>3. Outside \subseteq Nat /\ Outside # {}
    BY <1>2
  <1>4. PICK m \in Outside : \A k \in Outside : m <= k
    <2> HIDE DEF Outside
    <2> QED BY <1>3, LeastNatural
  <1>5. PICK x \in T : m = Cardinality(T) - Cardinality(below(x))
    OBVIOUS
  <1>6. ASSUME NEW y \in T
        PROVE  x >= y
    <2> SUFFICES ASSUME y > x PROVE FALSE
      BY <1>1
    <2>1. /\ below(x) \in SUBSET T /\ below(y) \in SUBSET T
          /\ x \notin below(x) /\ below(x) \cup {x} \in SUBSET below(y)
      <3>1. x \in Int /\ y \in Int /\ \A z \in T : z \in Int
        BY <1>1
      <3>2. ~(x < x) /\ \A z \in T : z < x => z < y
        BY <3>1
      <3> QED
        BY <3>1, <3>2
    <2>2. m <= Cardinality(T) - Cardinality(below(y))
      BY <1>4
    <2> HIDE DEF below
    <2>3. IsFiniteSet(below(x)) /\ IsFiniteSet(below(y))
      BY <1>1, <2>1, FS_Subset
    <2>4. Cardinality(below(x) \cup {x}) = Cardinality(below(x)) + 1
      BY <2>1, <2>3, FS_AddElement
    <2>5. Cardinality(below(x) \cup {x}) <= Cardinality(below(y))
      BY <2>1, <2>3, FS_Subset
    <2> QED
      BY <1>1, <1>2, <1>5, <2>2, <2>4, <2>5
  <1>7. \A y \in T : x >= y
    BY <1>6
  <1>8. Max(T) \in T /\ \A y \in T : Max(T) >= y
    <2> HIDE DEF Outside
    <2> QED BY <1>7 DEF Max
  <1> QED
    BY <1>1, <1>8

(* A query without its greatest name. *)
LEMMA FewerNames ==
  ASSUME NEW q \in Flats, q.names # {}
  PROVE  LET fewer == [q EXCEPT !.names = @ \ {Max(q.names)}]
         IN  fewer \in Flats /\ NamesLeft[fewer] < NamesLeft[q]
  <1> DEFINE max   == Max(q.names)
             less  == q.names \ {max}
             fewer == [q EXCEPT !.names = @ \ {max}]
  <1>1. q.names \in FiniteNames /\ q.lists \in Lists
    BY DEF Flats
  <1>2. max \in q.names /\ IsFiniteSet(q.names) /\ Cardinality(q.names) \in Nat
    BY <1>1, MaxIn, FS_CardinalityType DEF FiniteNames
  <1> HIDE DEF max
  <1>3. IsFiniteSet(less) /\ Cardinality(less) = Cardinality(q.names) - 1
    BY <1>2, FS_RemoveElement
  <1>4. less \in FiniteNames
    BY <1>1, <1>3 DEF FiniteNames
  <1>5. fewer \in Flats /\ fewer.names = less
    BY <1>1, <1>4 DEF Flats
  <1> HIDE DEF less, fewer
  <1>6. NamesLeft[fewer] = Cardinality(less) /\ NamesLeft[q] = Cardinality(q.names)
    BY <1>5 DEF NamesLeft
  <1> QED
    BY <1>2, <1>3, <1>5, <1>6 DEF max, fewer

(* flatten obeys its definition. *)
LEMMA FlattenEquation == \A q \in Flats : flatten[q] = FlattenDef(flatten, q)
  <1>1. Flattening!WellFounded
    <2>1. NamesLeft \in [Flats -> Nat]
      BY FS_CardinalityType DEF NamesLeft, Flats, FiniteNames
    <2>2. ASSUME NEW f, NEW g, NEW q \in Flats,
                 \A p \in Flats : NamesLeft[p] < NamesLeft[q] => f[p] = g[p]
          PROVE  FlattenDef(f, q) = FlattenDef(g, q)
      <3>1. CASE q.names = {}
        BY <3>1 DEF FlattenDef
      <3>2. CASE q.names # {}
        <4> DEFINE fewer == [q EXCEPT !.names = @ \ {Max(q.names)}]
        <4>1. f[fewer] = g[fewer]
          <5>1. fewer \in Flats /\ NamesLeft[fewer] < NamesLeft[q]
            BY <3>2, FewerNames
          <5> HIDE DEF fewer
          <5> QED BY <2>2, <5>1
        <4> QED
          BY <3>2, <4>1 DEF FlattenDef
      <3> QED
        BY <3>1, <3>2
    <2> QED
      BY <2>1, <2>2 DEF Flattening!WellFounded
  <1>2. flatten = CHOOSE f : f = [q \in Flats |-> FlattenDef(f, q)]
    BY DEF flatten, FlattenDef
  <1>3. flatten = [q \in Flats |-> FlattenDef(flatten, q)]
    BY <1>1, <1>2, NaturalInduction, Flattening!Defined DEF Flattening!Inductive
  <1> QED
    BY <1>3

(* It is a sequence of operations, and only the lists of the names count. *)
LEMMA FlattenLists ==
  ASSUME NEW names \in FiniteNames, NEW lists \in Lists, NEW others \in Lists,
         \A n \in names : lists[n] = others[n]
  PROVE  /\ flatten[[names |-> names, lists |-> lists]] \in Seq(Elements)
         /\ flatten[[names |-> names, lists |-> lists]]
              = flatten[[names |-> names, lists |-> others]]
  <1> DEFINE with(q)  == [q EXCEPT !.lists = others]
             agree(q) == \A n \in q.names : q.lists[n] = others[n]
             S == {q \in Flats : agree(q) => /\ flatten[q] \in Seq(Elements)
                                             /\ flatten[q] = flatten[with(q)]}
  <1>1. ASSUME NEW q \in Flats, \A p \in Flats : NamesLeft[p] < NamesLeft[q] => p \in S
        PROVE  q \in S
    <2> SUFFICES ASSUME agree(q)
                 PROVE  flatten[q] \in Seq(Elements) /\ flatten[q] = flatten[with(q)]
      OBVIOUS
    <2>1. q.names \in FiniteNames /\ q.lists \in Lists
      BY DEF Flats
    <2>2. with(q) \in Flats /\ with(q).names = q.names /\ with(q).lists = others
      BY <2>1 DEF Flats
    <2>3. CASE q.names = {}
      <3>1. flatten[q] = <<>> /\ flatten[with(q)] = <<>>
        <4> HIDE DEF with
        <4> QED BY <2>2, <2>3, FlattenEquation DEF FlattenDef
      <3> QED
        BY <3>1, EmptySeq
    <2>4. CASE q.names # {}
      <3> DEFINE max   == Max(q.names)
                 fewer == [q EXCEPT !.names = @ \ {max}]
      <3>1. fewer \in Flats /\ NamesLeft[fewer] < NamesLeft[q] /\ max \in q.names
        BY <2>1, <2>4, FewerNames, MaxIn
      <3>2. agree(fewer)
        <4> HIDE DEF max
        <4> QED BY <2>1 DEF Flats
      <3>3. flatten[fewer] \in Seq(Elements) /\ flatten[fewer] = flatten[with(fewer)]
        BY <1>1, <3>1, <3>2
      <3>4. [with(q) EXCEPT !.names = @ \ {max}] = with(fewer)
        BY <2>1 DEF Flats
      <3>5. flatten[q] = flatten[fewer] \o q.lists[max]
        BY <2>4, FlattenEquation DEF FlattenDef
      <3>6. flatten[with(q)] = flatten[with(fewer)] \o others[max]
        <4> HIDE DEF with, fewer
        <4>1. FlattenDef(flatten, with(q)) = flatten[with(fewer)] \o others[max]
          BY <2>2, <2>4, <3>4 DEF FlattenDef
        <4> QED
          BY <2>2, <4>1, FlattenEquation
      <3>7. q.lists[max] = others[max] /\ q.lists[max] \in Seq(Elements)
        <4>1. max \in Names
          BY <2>1, <3>1 DEF FiniteNames
        <4> QED
          BY <2>1, <3>1, <4>1 DEF Lists
      <3> HIDE DEF fewer, with
      <3> QED
        BY <3>3, <3>5, <3>6, <3>7, ConcatProperties
    <2> QED
      BY <2>3, <2>4
  <1>2. NamesLeft \in [Flats -> Nat]
    BY FS_CardinalityType DEF NamesLeft, Flats, FiniteNames
  <1>3. Flats \subseteq S
    <2> HIDE DEF S
    <2> QED BY <1>1, <1>2, MeasureInduction
  <1> DEFINE q == [names |-> names, lists |-> lists]
  <1>4. q \in Flats /\ agree(q) /\ with(q) = [names |-> names, lists |-> others]
    BY DEF Flats
  <1> QED
    BY <1>3, <1>4

ListsOf(map) == [n \in Names |-> OverloadsOf(map, n)]

(* What iterate runs over. *)
LEMMA IterateType ==
  ASSUME NEW map, IsMap(map)
  PROVE  /\ DOMAIN map \in FiniteNames /\ ListsOf(map) \in Lists
         /\ iterate(map) = flatten[[names |-> DOMAIN map, lists |-> ListsOf(map)]]
         /\ iterate(map) \in Seq(Elements)
  <1>1. DOMAIN map \in FiniteNames
    BY DEF IsMap, FiniteNames
  <1>2. ListsOf(map) \in Lists
    BY EmptySeq DEF IsMap, ListsOf, OverloadsOf, Lists
  <1>3. iterate(map) = flatten[[names |-> DOMAIN map, lists |-> ListsOf(map)]]
    BY DEF iterate, ListsOf
  <1> QED
    BY <1>1, <1>2, <1>3, FlattenLists

(* There is nothing to run over in the empty map. *)
LEMMA IterateEmpty == iterate(Empty) = <<>>
  <1> DEFINE q == [names |-> DOMAIN Empty, lists |-> ListsOf(Empty)]
  <1>1. IsMap(Empty) /\ DOMAIN Empty = {}
    BY EmptyGood DEF Good, Empty
  <1>2. q \in Flats /\ q.names = {}
    BY <1>1, IterateType DEF Flats
  <1>3. iterate(Empty) = flatten[q]
    BY <1>1, IterateType
  <1> HIDE DEF q
  <1> QED
    BY <1>2, <1>3, FlattenEquation DEF FlattenDef

(* An operation that is filed under the greatest name comes last. *)
LEMMA IteratePush ==
  ASSUME NEW map, IsMap(map), NEW op \in Elements, IsMap(Push(map, op)),
         \A n \in DOMAIN map : n <= op.name
  PROVE  iterate(Push(map, op)) = Append(iterate(map), op)
  <1> DEFINE map2   == Push(map, op)
             names  == DOMAIN map2
             others == names \ {op.name}
             q      == [names |-> names, lists |-> ListsOf(map2)]
             p      == [names |-> others, lists |-> ListsOf(map2)]
             front  == flatten[[names |-> others, lists |-> ListsOf(map)]]
             old    == OverloadsOf(map, op.name)
  <1>1. /\ names = DOMAIN map \cup {op.name}
        /\ \A n \in DOMAIN map : n # op.name => map2[n] = map[n]
        /\ map2[op.name] = Append(old, op)
    BY PushValues
  <1>2. op.name \in Names /\ names \subseteq Names /\ IsFiniteSet(names)
    BY DEF Elements, IsMap
  <1> HIDE DEF map2
  <1>3. names \in FiniteNames /\ others \in FiniteNames /\ ListsOf(map2) \in Lists
        /\ ListsOf(map) \in Lists
    <2>1. IsFiniteSet(others)
      BY <1>2, FS_RemoveElement
    <2> QED
      BY <1>2, <2>1, IterateType DEF FiniteNames, map2
  <1>4. Max(names) = op.name
    <2>1. op.name \in names /\ \A n \in names : n <= op.name
      <3> DEFINE n == op.name
      <3>1. n \in Int
        BY <1>2, NamesAssumption
      <3> HIDE DEF n
      <3>2. n <= n
        BY <3>1
      <3> QED
        BY <1>1, <3>2 DEF n
    <2>2. Max(names) \in names /\ \A n \in names : n <= Max(names)
      BY <1>3, <2>1, MaxIn
    <2>3. Max(names) <= op.name /\ op.name <= Max(names)
          /\ Max(names) \in Int /\ op.name \in Int
      BY <1>2, <2>1, <2>2, NamesAssumption
    <2> QED
      BY <2>3
  <1>5. iterate(map2) = flatten[p] \o ListsOf(map2)[op.name]
    <2>1. q \in Flats /\ q.names = names /\ q.lists = ListsOf(map2) /\ q.names # {}
      BY <1>1, <1>3 DEF Flats
    <2>2. [q EXCEPT !.names = @ \ {op.name}] = p
      OBVIOUS
    <2>3. iterate(map2) = flatten[q]
      BY IterateType DEF map2
    <2> HIDE DEF q, p, names
    <2> QED
      BY <1>4, <2>1, <2>2, <2>3, FlattenEquation DEF FlattenDef
  <1>6. ListsOf(map2)[op.name] = Append(old, op)
    BY <1>1, <1>2 DEF ListsOf, OverloadsOf
  <1>7. flatten[p] = front /\ front \in Seq(Elements)
    <2>1. \A n \in others : ListsOf(map)[n] = ListsOf(map2)[n]
      BY <1>1, <1>2 DEF ListsOf, OverloadsOf
    <2> HIDE DEF others
    <2> QED
      BY <1>3, <2>1, FlattenLists
  <1>8. iterate(map) = front \o old /\ old \in Seq(Elements)
    <2>1. CASE op.name \in DOMAIN map
      <3> DEFINE r == [names |-> names, lists |-> ListsOf(map)]
      <3>1. names = DOMAIN map
        BY <1>1, <2>1
      <3>2. r \in Flats /\ r.names = names /\ r.lists = ListsOf(map) /\ r.names # {}
        BY <1>3, <2>1, <3>1 DEF Flats
      <3>3. [r EXCEPT !.names = @ \ {op.name}] = [names |-> others, lists |-> ListsOf(map)]
        OBVIOUS
      <3>4. iterate(map) = flatten[r]
        BY <3>1, IterateType
      <3>5. ListsOf(map)[op.name] = old
        BY <1>2 DEF ListsOf
      <3>6. old \in Seq(Elements)
        BY <2>1 DEF IsMap, OverloadsOf
      <3> HIDE DEF r, names, others, old
      <3>7. flatten[r] = front \o old
        BY <1>4, <3>2, <3>3, <3>5, FlattenEquation DEF FlattenDef
      <3> QED
        BY <3>4, <3>6, <3>7
    <2>2. CASE op.name \notin DOMAIN map
      <3>1. others = DOMAIN map /\ old = <<>>
        BY <1>1, <2>2 DEF OverloadsOf
      <3>2. iterate(map) = front
        BY <3>1, IterateType
      <3> HIDE DEF front, old
      <3> QED
        BY <1>7, <3>1, <3>2, ConcatEmptySeq, EmptySeq
    <2> QED
      BY <2>1, <2>2
  <1> HIDE DEF front, old, p
  <1>9. front \o Append(old, op) = Append(front \o old, op)
    <2>1. /\ Append(old, op) = old \o <<op>>
          /\ Append(front \o old, op) = (front \o old) \o <<op>>
      BY <1>7, <1>8, ConcatProperties, AppendIsConcat
    <2>2. <<op>> \in Seq(Elements)
      OBVIOUS
    <2> QED
      BY <1>7, <1>8, <2>1, <2>2, ConcatAssociative
  <1> QED
    BY <1>5, <1>6, <1>7, <1>8, <1>9 DEF map2

-----------------------------------------------------------------------------
(* What loading a sequence of operations gives. *)

ElementsLen == [s \in Seq(Elements) |-> Len(s)]

visited[s \in Seq(Elements)] ==
  IF s = <<>> THEN Default ELSE Add(visited[Front(s)], Last(s))

VisitedDef(f, s) == IF s = <<>> THEN Default ELSE Add(f[Front(s)], Last(s))

Visiting == INSTANCE Recursion WITH
  Dom <- Seq(Elements), measure <- ElementsLen, Def <- VisitedDef

(* visited obeys its definition: it is the loop of visit_seq. *)
LEMMA VisitedEquation ==
  /\ visited[<<>>] = Default
  /\ \A s \in Seq(Elements) : \A e \in Elements :
       visited[Append(s, e)] = Add(visited[s], e)
  <1>1. Visiting!WellFounded
    <2>1. ElementsLen \in [Seq(Elements) -> Nat]
      BY LenProperties DEF ElementsLen
    <2>2. ASSUME NEW f, NEW g, NEW s \in Seq(Elements),
                 \A t \in Seq(Elements) : ElementsLen[t] < ElementsLen[s] => f[t] = g[t]
          PROVE  VisitedDef(f, s) = VisitedDef(g, s)
      <3>1. CASE s = <<>>
        BY <3>1 DEF VisitedDef
      <3>2. CASE s # <<>>
        <4>1. /\ Front(s) \in Seq(Elements) /\ Len(s) \in Nat /\ Len(Front(s)) \in Nat
              /\ Len(s) = Len(Front(s)) + 1
          BY <3>2, FrontOfSeq
        <4>2. ElementsLen[Front(s)] < ElementsLen[s]
          BY <4>1 DEF ElementsLen
        <4>3. f[Front(s)] = g[Front(s)]
          BY <2>2, <4>1, <4>2
        <4> QED
          BY <3>2, <4>3 DEF VisitedDef
      <3> QED
        BY <3>1, <3>2
    <2> QED
      BY <2>1, <2>2 DEF Visiting!WellFounded
  <1>2. visited = CHOOSE f : f = [s \in Seq(Elements) |-> VisitedDef(f, s)]
    BY DEF visited, VisitedDef
  <1>3. visited = [s \in Seq(Elements) |-> VisitedDef(visited, s)]
    BY <1>1, <1>2, NaturalInduction, Visiting!Defined DEF Visiting!Inductive
  <1>4. \A s \in Seq(Elements) : visited[s] = VisitedDef(visited, s)
    BY <1>3
  <1>5. visited[<<>>] = Default
    BY <1>4, EmptySeq DEF VisitedDef
  <1>6. ASSUME NEW s \in Seq(Elements), NEW e \in Elements
        PROVE  visited[Append(s, e)] = Add(visited[s], e)
    <2> DEFINE t == Append(s, e)
    <2>1. t \in Seq(Elements) /\ t # <<>> /\ Front(t) = s /\ Last(t) = e
      BY FrontOfAppend
    <2> HIDE DEF t
    <2>2. visited[t] = Add(visited[s], e)
      BY <1>4, <2>1 DEF VisitedDef
    <2> QED
      BY <2>2 DEF t
  <1> QED
    BY <1>5, <1>6

-----------------------------------------------------------------------------
(* What serialize has written of a map when the names in "left" are left,  *)
(* and it stands before the overload "at" of the smallest of them.         *)

SmallestIn(name, left) == name \in left /\ \A other \in left : name <= other

WrittenMap(map, left, at) ==
  [n \in {m \in DOMAIN map : m \notin left \/ (SmallestIn(m, left) /\ at > 1)} |->
     IF n \in left THEN SubSeq(map[n], 1, at - 1) ELSE map[n]]

KeysOK(map, left, at) ==
  /\ left \subseteq DOMAIN map /\ at \in Nat \ {0}
  /\ \A a \in DOMAIN map \ left : \A b \in left : a < b
  /\ \A n \in left : SmallestIn(n, left) => at - 1 <= Len(map[n])

(* The lists of a map. *)
LEMMA ListOK ==
  ASSUME NEW map, Good(map), NEW name \in DOMAIN map
  PROVE  /\ map[name] \in Seq(Elements) /\ map[name] # <<>>
         /\ Len(map[name]) \in Nat \ {0} /\ DOMAIN map[name] = 1..Len(map[name])
         /\ name \in Int
         /\ \A i \in 1..Len(map[name]) : map[name][i] \in Elements
         /\ \A i \in 1..Len(map[name]) : map[name][i].name = name /\ map[name][i].rest = NoRest
  <1>1. map[name] \in Seq(Elements) /\ map[name] # <<>> /\ name \in Int
    BY NamesAssumption DEF Good, IsMap, NonEmpty
  <1>2. /\ Len(map[name]) \in Nat \ {0} /\ DOMAIN map[name] = 1..Len(map[name])
        /\ \A i \in 1..Len(map[name]) : map[name][i] \in Elements
    BY <1>1, LenProperties, EmptySeq, ElementOfSeq
  <1> QED
    BY <1>1, <1>2 DEF Good, Filed

(* There is at most one smallest name. *)
LEMMA SmallestIsOne ==
  ASSUME NEW left, left \subseteq Int, NEW n, NEW m, SmallestIn(n, left), SmallestIn(m, left)
  PROVE  n = m
  <1>1. n \in Int /\ m \in Int /\ n <= m /\ m <= n
    BY DEF SmallestIn
  <1> QED
    BY <1>1

(* The names written so far are names, and finitely many. *)
LEMMA WrittenIsMap ==
  ASSUME NEW map, Good(map), NEW left, NEW at, KeysOK(map, left, at)
  PROVE  IsMap(WrittenMap(map, left, at))
  <1> DEFINE w == WrittenMap(map, left, at)
  <1>1. DOMAIN w \in SUBSET DOMAIN map
    BY DEF WrittenMap
  <1>2. DOMAIN map \subseteq Names /\ IsFiniteSet(DOMAIN map)
    BY DEF Good, IsMap
  <1>3. IsFiniteSet(DOMAIN w)
    <2> HIDE DEF w
    <2> QED BY <1>1, <1>2, FS_Subset
  <1>4. ASSUME NEW n \in DOMAIN w
        PROVE  w[n] \in Seq(Elements)
    <2>1. map[n] \in Seq(Elements) /\ \A i \in 1..Len(map[n]) : map[n][i] \in Elements
      BY <1>1, ListOK
    <2>2. CASE n \notin left
      BY <2>1, <2>2 DEF WrittenMap
    <2>3. CASE n \in left
      <3> DEFINE m == at - 1
      <3>1. m \in Nat /\ m <= Len(map[n]) /\ Len(map[n]) \in Nat
        BY <1>1, <2>3, ListOK DEF WrittenMap, KeysOK
      <3> HIDE DEF m
      <3>2. \A i \in 1..m : map[n][i] \in Elements
        BY <2>1, <3>1
      <3>3. SubSeq(map[n], 1, m) \in Seq(Elements)
        BY <3>1, <3>2, SubSeqProperties
      <3> QED
        BY <2>3, <3>3 DEF WrittenMap, m
    <2> QED
      BY <2>2, <2>3
  <1>5. w = [n \in DOMAIN w |-> w[n]]
    BY DEF WrittenMap
  <1> HIDE DEF w
  <1>6. w \in [DOMAIN w -> Seq(Elements)]
    BY <1>4, <1>5
  <1> QED
    BY <1>1, <1>2, <1>3, <1>6 DEF IsMap, w

(* At its first name, nothing of a map is written. *)
LEMMA MapBegins ==
  ASSUME NEW map, Good(map)
  PROVE  KeysOK(map, DOMAIN map, 1) /\ WrittenMap(map, DOMAIN map, 1) = Empty
  <1>1. \A n \in DOMAIN map : 0 <= Len(map[n])
    BY ListOK
  <1>2. KeysOK(map, DOMAIN map, 1)
    BY <1>1 DEF KeysOK
  <1>3. WrittenMap(map, DOMAIN map, 1) = Empty
    BY DEF WrittenMap, Empty
  <1> QED
    BY <1>2, <1>3

(* After its last name, all of it is. *)
LEMMA MapEnds ==
  ASSUME NEW map, Good(map), NEW at
  PROVE  WrittenMap(map, {}, at) = map
  BY DEF WrittenMap, Good, IsMap

(* An overload that is written is one that loading would file next. *)
LEMMA OverloadFiled ==
  ASSUME NEW map, Good(map), NEW left, NEW at, KeysOK(map, left, at),
         NEW name, SmallestIn(name, left), at \in DOMAIN map[name]
  PROVE  LET op == map[name][at]
             w  == WrittenMap(map, left, at)
         IN  /\ op \in Elements /\ op.name = name /\ op.rest = NoRest
             /\ KeysOK(map, left, at + 1)
             /\ WrittenMap(map, left, at + 1) = Push(w, op)
             /\ \A n \in DOMAIN w : n <= name
  <1> DEFINE op   == map[name][at]
             w    == WrittenMap(map, left, at)
             w2   == WrittenMap(map, left, at + 1)
             list == map[name]
             m    == at - 1
  <1>1. /\ left \subseteq DOMAIN map /\ at \in Nat \ {0}
        /\ \A a \in DOMAIN map \ left : \A b \in left : a < b
        /\ \A n \in left : SmallestIn(n, left) => at - 1 <= Len(map[n])
    BY DEF KeysOK
  <1>2. DOMAIN map \subseteq Int /\ left \subseteq Int
    BY <1>1, NamesAssumption DEF Good, IsMap
  <1>3. name \in left /\ name \in DOMAIN map
    BY <1>1 DEF SmallestIn
  <1>4. \A n : SmallestIn(n, left) => n = name
    BY <1>2, SmallestIsOne
  <1>5. /\ list \in Seq(Elements) /\ Len(list) \in Nat /\ at \in 1..Len(list)
        /\ \A i \in 1..Len(list) : list[i] \in Elements
    BY <1>3, ListOK
  <1>6. op \in Elements /\ op.name = name /\ op.rest = NoRest
    BY <1>3, <1>5, ListOK
  <1>7. KeysOK(map, left, at + 1)
    <2>1. at + 1 \in Nat \ {0} /\ (at + 1) - 1 <= Len(list)
      BY <1>1, <1>5
    <2> QED
      BY <1>1, <1>4, <2>1 DEF KeysOK
  <1>8. /\ m \in Nat /\ at = m + 1 /\ (at + 1) - 1 = at /\ at + 1 > 1
        /\ (at > 1 <=> m # 0) /\ m <= Len(list) /\ at <= Len(list)
    BY <1>1, <1>5
  <1>9. /\ DOMAIN w = {n \in DOMAIN map : n \notin left \/ (n = name /\ m # 0)}
        /\ \A n \in DOMAIN w : w[n] = IF n \in left THEN SubSeq(list, 1, m) ELSE map[n]
    BY <1>4, <1>8 DEF WrittenMap
  <1>10. /\ w2 = [n \in {k \in DOMAIN map : k \notin left \/ k = name} |->
                    IF n \in left THEN SubSeq(list, 1, at) ELSE map[n]]
    <2>1. \A n \in DOMAIN map : (n \notin left \/ (SmallestIn(n, left) /\ at + 1 > 1))
                                  <=> (n \notin left \/ n = name)
      BY <1>4, <1>8
    <2> HIDE DEF m
    <2> QED
      BY <1>4, <1>8, <2>1 DEF WrittenMap
  <1>11. OverloadsOf(w, name) = SubSeq(list, 1, m)
    <2>1. CASE m = 0
      <3>1. name \notin DOMAIN w
        BY <1>3, <1>9, <2>1
      <3>2. SubSeq(list, 1, m) = <<>>
        BY <2>1, SubSeqEmpty
      <3> HIDE DEF m, w, list
      <3> QED
        BY <3>1, <3>2 DEF OverloadsOf
    <2>2. CASE m # 0
      <3> HIDE DEF m, w, list
      <3> QED
        BY <1>3, <1>9, <2>2 DEF OverloadsOf
    <2> QED
      BY <2>1, <2>2
  <1>12. SubSeq(list, 1, at) = Append(SubSeq(list, 1, m), op)
    <2>1. SubSeq(list, 1, m) \in Seq(Elements)
      <3> HIDE DEF m, list
      <3>1. \A i \in 1..m : list[i] \in Elements
        BY <1>5, <1>8
      <3> QED
        BY <1>8, <3>1, SubSeqProperties
    <2>2. SubSeq(list, 1, at) = SubSeq(list, 1, m) \o <<op>>
      <3>1. 1 \in 1..Len(list) /\ at \in 1..Len(list)
        BY <1>5
      <3> HIDE DEF list
      <3> QED
        BY <1>5, <3>1, SubSeqRecursiveSecond DEF list
    <2> HIDE DEF m, list, op
    <2> QED
      BY <1>6, <2>1, <2>2, AppendIsConcat
  <1>13. w2 = Push(w, op)
    <2>1. Push(w, op) = [n \in DOMAIN w \cup {name} |->
                           IF n = name THEN Append(OverloadsOf(w, n), op) ELSE w[n]]
      BY <1>6 DEF Push
    <2> HIDE DEF w, w2, op, list, m
    <2>2. DOMAIN w \cup {name} = {k \in DOMAIN map : k \notin left \/ k = name}
      BY <1>3, <1>9
    <2>3. ASSUME NEW n \in DOMAIN w \cup {name}
          PROVE  (IF n \in left THEN SubSeq(list, 1, at) ELSE map[n])
                   = (IF n = name THEN Append(OverloadsOf(w, n), op) ELSE w[n])
      BY <1>3, <1>9, <1>11, <1>12
    <2> QED
      BY <1>10, <2>1, <2>2, <2>3
  <1>14. \A n \in DOMAIN w : n <= name
    <2> SUFFICES ASSUME NEW n \in DOMAIN w PROVE n <= name
      OBVIOUS
    <2>1. n \in DOMAIN map /\ (n \notin left \/ n = name)
      BY <1>9
    <2>2. n \in Int /\ name \in Int
      BY <1>2, <1>3, <2>1
    <2>3. n < name \/ n = name
      BY <1>1, <1>3, <2>1
    <2> QED
      BY <2>2, <2>3
  <1> QED
    BY <1>6, <1>7, <1>13, <1>14

(* Going on to the next name writes nothing, and leaves nothing out. *)
LEMMA KeyDone ==
  ASSUME NEW map, Good(map), NEW left, NEW at, KeysOK(map, left, at),
         NEW name, SmallestIn(name, left), at \notin DOMAIN map[name]
  PROVE  /\ KeysOK(map, left \ {name}, 1)
         /\ WrittenMap(map, left \ {name}, 1) = WrittenMap(map, left, at)
  <1> DEFINE list == map[name]
  <1>1. /\ left \subseteq DOMAIN map /\ at \in Nat \ {0}
        /\ \A a \in DOMAIN map \ left : \A b \in left : a < b
        /\ at - 1 <= Len(list)
    BY DEF KeysOK, SmallestIn
  <1>2. DOMAIN map \subseteq Int /\ left \subseteq Int
    BY <1>1, NamesAssumption DEF Good, IsMap
  <1>3. name \in left /\ name \in DOMAIN map /\ \A b \in left : name <= b
    BY <1>1 DEF SmallestIn
  <1>4. \A n : SmallestIn(n, left) <=> n = name
    BY <1>2, SmallestIsOne
  <1>5. list \in Seq(Elements) /\ Len(list) \in Nat \ {0} /\ at \notin 1..Len(list)
    BY <1>3, ListOK
  <1>6. at - 1 = Len(list) /\ at > 1
    BY <1>1, <1>5
  <1>7. KeysOK(map, left \ {name}, 1)
    <2>1. ASSUME NEW a \in DOMAIN map \ (left \ {name}), NEW b \in left \ {name}
          PROVE  a < b
      <3>1. a \in Int /\ b \in Int /\ name \in Int /\ b # name /\ name <= b
        BY <1>1, <1>2, <1>3
      <3>2. a \notin left \/ a = name
        OBVIOUS
      <3> QED
        BY <1>1, <3>1, <3>2
    <2>2. \A n \in left : 1 - 1 <= Len(map[n])
      BY <1>1, ListOK
    <2> QED
      BY <1>1, <2>1, <2>2 DEF KeysOK
  <1>8. WrittenMap(map, left \ {name}, 1) = WrittenMap(map, left, at)
    <2>1. SubSeq(list, 1, Len(list)) = list
      BY <1>5, SubSeqFull
    <2>2. ASSUME NEW n \in DOMAIN map
          PROVE  (n \notin left \ {name} \/ (SmallestIn(n, left \ {name}) /\ 1 > 1))
                   <=> (n \notin left \/ (SmallestIn(n, left) /\ at > 1))
      BY <1>4, <1>6
    <2>3. ASSUME NEW n \in DOMAIN map, n \notin left \ {name}
          PROVE  (IF n \in left \ {name} THEN SubSeq(map[n], 1, 1 - 1) ELSE map[n])
                   = (IF n \in left THEN SubSeq(map[n], 1, at - 1) ELSE map[n])
      <3>1. CASE n \in left
        <4>1. n = name
          BY <2>3, <3>1
        <4> QED
          BY <1>6, <2>1, <2>3, <3>1, <4>1
      <3>2. CASE n \notin left
        BY <2>3, <3>2
      <3> QED
        BY <3>1, <3>2
    <2>4. {n \in DOMAIN map : n \notin left \ {name}
                                \/ (SmallestIn(n, left \ {name}) /\ 1 > 1)}
            = {n \in DOMAIN map : n \notin left \/ (SmallestIn(n, left) /\ at > 1)}
      BY <2>2
    <2>5. \A n \in {k \in DOMAIN map : k \notin left \ {name}
                                \/ (SmallestIn(k, left \ {name}) /\ 1 > 1)} :
            n \notin left \ {name}
      OBVIOUS
    <2> QED
      BY <2>3, <2>4, <2>5 DEF WrittenMap
  <1> QED
    BY <1>7, <1>8

-----------------------------------------------------------------------------
(* ReloadSame, and what it rests on: what is written loads as the part of  *)
(* the contract that was written, in the order of the iterators.           *)

WrittenFunctions ==
  IF phase = "function" THEN WrittenMap(contract.functions, keys, pos)
  ELSE contract.functions

WrittenEvents ==
  IF phase = "function" THEN Empty
  ELSE IF phase = "event" THEN WrittenMap(contract.events, keys, pos)
  ELSE contract.events

WrittenErrors ==
  IF phase \in {"function", "event"} THEN Empty
  ELSE IF phase = "error" THEN WrittenMap(contract.errors, keys, pos)
  ELSE contract.errors

WrittenContract ==
  [constructor |-> contract.constructor, functions |-> WrittenFunctions,
   events |-> WrittenEvents, errors |-> WrittenErrors,
   receive |-> FALSE, fallback |-> FALSE]

WritesPart ==
  /\ phase \in MapParts => KeysOK(MapOf(phase), keys, pos)
  /\ phase \in MapParts \cup {"flags"} =>
       /\ visited[written] = WrittenContract
       /\ iterate(WrittenFunctions) \o iterate(WrittenEvents) \o iterate(WrittenErrors)
            = Kept(OfTypes(MapParts), written)

ReadsWritten ==
  /\ phase = "reload" =>
       /\ source \in Seq(Elements)
       /\ first = visited[source]
       /\ contract = visited[SubSeq(source, 1, next - 1)]
  /\ phase = "done" => contract = first

RInv == WritesPart /\ ReadsWritten

(* The operations of a contract that was read have the type of their map.  *)
LEMMA TypedMaps ==
  ASSUME IInv, ReadOK, phase \in MapParts, NEW name \in DOMAIN MapOf(phase),
         NEW i \in DOMAIN MapOf(phase)[name]
  PROVE  MapOf(phase)[name][i].type = phase
  <1> DEFINE map  == MapOf(phase)
             decl == DeclaredIn(Read, phase)
  <1>1. FilesOf(map, phase, Read) /\ Read \in Seq(Elements)
    BY DEF ReadOK, KeepsAll, MapOf, MapParts
  <1>2. map[name] = Kept(Named(name), decl)
    BY <1>1 DEF FilesOf
  <1>3. OfTypes({phase}) \in SUBSET Elements /\ Named(name) \in SUBSET Elements
    BY DEF OfTypes, Named
  <1>4. /\ decl \in Seq(Elements)
        /\ \A k \in DOMAIN decl : decl[k] \in OfTypes({phase})
    BY <1>1, <1>3, KeptType DEF DeclaredIn
  <1> HIDE DEF decl, map
  <1>5. map[name][i] \in Range(decl)
    BY <1>2, <1>3, <1>4, KeptType DEF map
  <1>6. map[name][i] \in OfTypes({phase})
    BY <1>4, <1>5 DEF Range
  <1> QED
    BY <1>6 DEF OfTypes, map

(* What Add does with an operation that was written. *)
LEMMA AddStored ==
  ASSUME NEW c, IsContract(c), NEW op \in Elements, op.rest = NoRest
  PROVE  /\ op.type = "function" => Add(c, op) = [c EXCEPT !.functions = Push(c.functions, op)]
         /\ op.type = "event" => Add(c, op) = [c EXCEPT !.events = Push(c.events, op)]
         /\ op.type = "error" => Add(c, op) = [c EXCEPT !.errors = Push(c.errors, op)]
         /\ op.type = "constructor" => Add(c, op) = [c EXCEPT !.constructor = <<op.inputs>>]
         /\ op.type = "receive" => Add(c, op) = [c EXCEPT !.receive = TRUE]
         /\ op.type = "fallback" => Add(c, op) = [c EXCEPT !.fallback = TRUE]
  <1>1. sanitize_name(op) = op
    BY DEF sanitize_name, Elements
  <1>2. Add(c, op) =
          CASE op.type = "constructor" -> [c EXCEPT !.constructor = <<op.inputs>>]
            [] op.type = "function"    -> [c EXCEPT !.functions = Push(c.functions, op)]
            [] op.type = "event"       -> [c EXCEPT !.events = Push(c.events, op)]
            [] op.type = "error"       -> [c EXCEPT !.errors = Push(c.errors, op)]
            [] op.type = "fallback"    -> [c EXCEPT !.fallback = TRUE]
            [] op.type = "receive"     -> [c EXCEPT !.receive = TRUE]
    BY <1>1 DEF Add
  <1>3. op.type = "function" => Add(c, op) = [c EXCEPT !.functions = Push(c.functions, op)]
    BY <1>2
  <1>4. op.type = "event" => Add(c, op) = [c EXCEPT !.events = Push(c.events, op)]
    BY <1>2
  <1>5. op.type = "error" => Add(c, op) = [c EXCEPT !.errors = Push(c.errors, op)]
    BY <1>2
  <1>6. op.type = "constructor" => Add(c, op) = [c EXCEPT !.constructor = <<op.inputs>>]
    BY <1>2
  <1>7. op.type = "receive" => Add(c, op) = [c EXCEPT !.receive = TRUE]
    BY <1>2
  <1>8. op.type = "fallback" => Add(c, op) = [c EXCEPT !.fallback = TRUE]
    BY <1>2
  <1> QED
    BY <1>3, <1>4, <1>5, <1>6, <1>7, <1>8

(* An operation without a name, read. *)
LEMMA BareStored ==
  ASSUME NEW type \in Kinds, NEW inputs \in Inputs
  PROVE  LET op == Bare(type, inputs)
         IN  op \in Elements /\ op.rest = NoRest /\ op.type = type /\ op.inputs = inputs
  BY BareOK DEF Bare, Element

(* The contract with nothing but a constructor. *)
LEMMA DefaultWith ==
  ASSUME NEW c
  PROVE  [Default EXCEPT !.constructor = c]
           = [constructor |-> c, functions |-> Empty, events |-> Empty,
              errors |-> Empty, receive |-> FALSE, fallback |-> FALSE]
  <1> DEFINE d == Default
  <1>1. /\ d = [constructor |-> d.constructor, functions |-> d.functions,
                events |-> d.events, errors |-> d.errors, receive |-> d.receive,
                fallback |-> d.fallback]
        /\ d.functions = Empty /\ d.events = Empty /\ d.errors = Empty
        /\ d.receive = FALSE /\ d.fallback = FALSE
    BY DEF Default
  <1> HIDE DEF d
  <1>2. [d EXCEPT !.constructor = c]
          = [constructor |-> c, functions |-> d.functions, events |-> d.events,
             errors |-> d.errors, receive |-> d.receive, fallback |-> d.fallback]
    BY <1>1
  <1> QED
    BY <1>1, <1>2 DEF d

(* The constructor is written first. *)
LEMMA ConstructorWrites ==
  ASSUME IInv, RInv, WriteConstructor PROVE RInv'
  <1> DEFINE c == contract.constructor
             f == contract.functions
  <1>1. /\ phase = "loaded" /\ phase' = "function" /\ contract' = contract
        /\ keys' = DOMAIN f /\ pos' = 1
        /\ written' = IF c = NoConstructor THEN <<>> ELSE <<Bare("constructor", c[1])>>
    BY DEF WriteConstructor
  <1>2. GoodContract(contract) /\ IsContract(contract)
    BY IInvGood DEF GoodContract
  <1>3. KeysOK(f, DOMAIN f, 1) /\ WrittenMap(f, DOMAIN f, 1) = Empty
    BY <1>2, MapBegins DEF GoodContract
  <1>4. MapOf(phase)' = f
    BY <1>1 DEF MapOf
  <1>5. WrittenFunctions' = Empty /\ WrittenEvents' = Empty /\ WrittenErrors' = Empty
    BY <1>1, <1>3 DEF WrittenFunctions, WrittenEvents, WrittenErrors
  <1>6. /\ WrittenContract' = [Default EXCEPT !.constructor = c]
        /\ (iterate(WrittenFunctions) \o iterate(WrittenEvents) \o iterate(WrittenErrors))'
             = <<>>
    <2>1. WrittenContract' = [constructor |-> c, functions |-> Empty, events |-> Empty,
                              errors |-> Empty, receive |-> FALSE, fallback |-> FALSE]
      BY <1>1, <1>5 DEF WrittenContract
    <2>2. [Default EXCEPT !.constructor = c]
            = [constructor |-> c, functions |-> Empty, events |-> Empty,
               errors |-> Empty, receive |-> FALSE, fallback |-> FALSE]
      BY DefaultWith
    <2>3. <<>> \o <<>> = <<>>
      OBVIOUS
    <2> QED
      BY <1>5, <2>1, <2>2, <2>3, IterateEmpty
  <1>7. OfTypes(MapParts) \in SUBSET Elements
    BY DEF OfTypes
  <1>8. visited[written'] = [Default EXCEPT !.constructor = c]
        /\ Kept(OfTypes(MapParts), written') = <<>>
    <2>1. CASE c = NoConstructor
      <3>1. written' = <<>>
        BY <1>1, <2>1
      <3>2. [Default EXCEPT !.constructor = c] = Default
        BY <2>1, DefaultWith DEF Default
      <3> QED
        BY <1>7, <3>1, <3>2, VisitedEquation, KeptGrows
    <2>2. CASE c # NoConstructor
      <3> DEFINE op == Bare("constructor", c[1])
      <3>1. c[1] \in Inputs /\ c = <<c[1]>>
        BY <1>2, <2>2 DEF IsContract
      <3>2. op \in Elements /\ op.rest = NoRest /\ op.type = "constructor" /\ op.inputs = c[1]
        BY <3>1, BareStored DEF Kinds
      <3>3. op \notin OfTypes(MapParts)
        BY <3>2 DEF OfTypes, MapParts
      <3> HIDE DEF op
      <3>4. written' = Append(<<>>, op) /\ <<>> \in Seq(Elements)
        BY <1>1, <2>2 DEF op
      <3>5. Kept(OfTypes(MapParts), written') = <<>>
        <4> DEFINE T == OfTypes(MapParts)
        <4> HIDE DEF T
        <4>1. T \in SUBSET Elements /\ op \notin T
          BY <1>7, <3>3 DEF T
        <4>2. Kept(T, <<>>) = <<>>
          BY <4>1, KeptGrows
        <4>3. Kept(T, Append(<<>>, op)) = Kept(T, <<>>)
          <5> DEFINE s == <<>>
          <5>1. s \in Seq(Elements)
            BY <3>4
          <5> HIDE DEF s
          <5>2. Kept(T, Append(s, op)) = Kept(T, s)
            BY <3>2, <4>1, <5>1, KeptGrows
          <5> QED
            BY <5>2 DEF s
        <4> QED
          BY <3>4, <4>2, <4>3 DEF T
      <3>6. visited[written'] = Add(Default, op)
        BY <3>2, <3>4, VisitedEquation
      <3>7. IsContract(Default)
        BY DefaultGood DEF GoodContract
      <3>8. Add(Default, op) = [Default EXCEPT !.constructor = <<op.inputs>>]
        BY <3>2, <3>7, AddStored
      <3>9. <<op.inputs>> = c
        BY <3>1, <3>2
      <3> QED
        BY <3>5, <3>6, <3>8, <3>9
    <2> QED
      BY <2>1, <2>2
  <1>9. WritesPart'
    BY <1>1, <1>3, <1>4, <1>6, <1>8 DEF WritesPart
  <1>10. ReadsWritten'
    BY <1>1 DEF ReadsWritten
  <1> QED
    BY <1>9, <1>10 DEF RInv

(* What loading does with an overload that was just written, and where it  *)
(* comes in the order of the iterators.                                    *)
LEMMA OverloadLoads ==
  ASSUME IInv, RInv, ReadOK, WriteOverload
  PROVE  \E op \in OfTypes(MapParts) :
           /\ written' = Append(written, op)
           /\ WrittenContract' = Add(WrittenContract, op)
           /\ (iterate(WrittenFunctions) \o iterate(WrittenEvents) \o iterate(WrittenErrors))'
                = Append(iterate(WrittenFunctions) \o iterate(WrittenEvents)
                           \o iterate(WrittenErrors), op)
           /\ KeysOK(MapOf(phase), keys, pos)'
  <1> DEFINE map == MapOf(phase)
             w   == WrittenMap(map, keys, pos)
  <1>1. PICK name \in keys :
          /\ Smallest(name) /\ pos \in DOMAIN map[name]
          /\ written' = Append(written, map[name][pos])
    BY DEF WriteOverload
  <1>2. /\ phase \in MapParts /\ pos' = pos + 1
        /\ UNCHANGED <<contract, phase, keys>>
    BY DEF WriteOverload
  <1>3. /\ Good(contract.functions) /\ Good(contract.events) /\ Good(contract.errors)
        /\ IsContract(contract)
    BY IInvGood DEF GoodContract
  <1>4. Good(map) /\ KeysOK(map, keys, pos) /\ SmallestIn(name, keys)
    BY <1>1, <1>2, <1>3 DEF MapOf, MapParts, RInv, WritesPart, Smallest, SmallestIn
  <1> DEFINE op == map[name][pos]
             w2 == WrittenMap(map, keys, pos + 1)
  <1>5. /\ op \in Elements /\ op.name = name /\ op.rest = NoRest
        /\ KeysOK(map, keys, pos + 1)
        /\ w2 = Push(w, op)
        /\ \A n \in DOMAIN w : n <= name
    BY <1>1, <1>4, OverloadFiled
  <1>6. op.type = phase
    BY <1>1, <1>2, <1>4, TypedMaps DEF KeysOK
  <1>7. IsMap(w) /\ IsMap(w2)
    BY <1>4, <1>5, WrittenIsMap
  <1> HIDE DEF op, w, w2
  <1>8. iterate(w2) = Append(iterate(w), op) /\ iterate(w) \in Seq(Elements)
    BY <1>5, <1>7, IteratePush, IterateType
  <1>9. KeysOK(MapOf(phase), keys, pos)'
    <2>1. MapOf(phase)' = map
      BY <1>2 DEF MapOf
    <2> QED
      BY <1>2, <1>5, <2>1
  <1> DEFINE wc == WrittenContract
  <1>10. /\ wc = [constructor |-> contract.constructor, functions |-> WrittenFunctions,
                  events |-> WrittenEvents, errors |-> WrittenErrors,
                  receive |-> FALSE, fallback |-> FALSE]
         /\ WrittenContract' =
              [constructor |-> contract.constructor, functions |-> WrittenFunctions',
               events |-> WrittenEvents', errors |-> WrittenErrors',
               receive |-> FALSE, fallback |-> FALSE]
    BY <1>2 DEF WrittenContract
  <1>11. IsMap(WrittenFunctions) /\ IsMap(WrittenEvents) /\ IsMap(WrittenErrors)
    <2>1. IsMap(Empty)
      BY EmptyGood DEF Good
    <2>2. phase = "function" => WrittenFunctions = w
      BY DEF WrittenFunctions, w, MapOf
    <2>3. phase = "event" => WrittenEvents = w
      BY DEF WrittenEvents, w, MapOf
    <2>4. phase = "error" => WrittenErrors = w
      BY DEF WrittenErrors, w, MapOf
    <2>5. /\ phase = "function" => WrittenEvents = Empty /\ WrittenErrors = Empty
          /\ phase = "event" => WrittenFunctions = contract.functions /\ WrittenErrors = Empty
          /\ phase = "error" => /\ WrittenFunctions = contract.functions
                                /\ WrittenEvents = contract.events
      BY DEF WrittenFunctions, WrittenEvents, WrittenErrors
    <2>6. IsMap(contract.functions) /\ IsMap(contract.events)
      BY <1>3 DEF Good
    <2> QED
      BY <1>2, <1>7, <2>1, <2>2, <2>3, <2>4, <2>5, <2>6 DEF MapParts
  <1>12. IsContract(wc)
    BY <1>3, <1>10, <1>11 DEF IsContract
  <1> DEFINE f == iterate(WrittenFunctions)
             e == iterate(WrittenEvents)
             r == iterate(WrittenErrors)
  <1>13. f \in Seq(Elements) /\ e \in Seq(Elements) /\ r \in Seq(Elements)
    BY <1>11, IterateType
  <1>14. \A s \in Seq(Elements) : s \o <<>> = s
    BY ConcatEmptySeq
  <1>15. \A s, t \in Seq(Elements) : /\ s \o t \in Seq(Elements)
                                     /\ Append(s, op) \in Seq(Elements)
                                     /\ s \o Append(t, op) = Append(s \o t, op)
    <2> SUFFICES ASSUME NEW s \in Seq(Elements), NEW t \in Seq(Elements)
                 PROVE  /\ s \o t \in Seq(Elements)
                        /\ Append(s, op) \in Seq(Elements)
                        /\ s \o Append(t, op) = Append(s \o t, op)
      OBVIOUS
    <2>1. s \o t \in Seq(Elements) /\ Append(s, op) \in Seq(Elements)
      BY <1>5, ConcatProperties, AppendProperties
    <2>2. Append(t, op) = t \o <<op>> /\ Append(s \o t, op) = (s \o t) \o <<op>>
      BY <1>5, <2>1, AppendIsConcat
    <2>3. <<op>> \in Seq(Elements)
      BY <1>5
    <2> QED
      BY <2>1, <2>2, <2>3, ConcatAssociative
  <1>16. CASE phase = "function"
    <2>1. /\ WrittenFunctions = w /\ WrittenFunctions' = w2
          /\ WrittenEvents = Empty /\ WrittenEvents' = Empty
          /\ WrittenErrors = Empty /\ WrittenErrors' = Empty
      BY <1>2, <1>16 DEF WrittenFunctions, WrittenEvents, WrittenErrors, w, w2, MapOf
    <2>2. Add(wc, op) = [wc EXCEPT !.functions = Push(wc.functions, op)]
      BY <1>5, <1>6, <1>12, <1>16, AddStored
    <2>3. WrittenContract' = Add(wc, op)
      <3> HIDE DEF wc
      <3> QED BY <1>5, <1>10, <2>1, <2>2
    <2>4. (f \o e \o r)' = Append(f \o e \o r, op)
      <3>1. f = iterate(w) /\ e = <<>> /\ r = <<>> /\ f' = iterate(w2) /\ e' = <<>> /\ r' = <<>>
        BY <2>1, IterateEmpty
      <3>2. (f \o e \o r)' = (f' \o e') \o r'
        OBVIOUS
      <3> HIDE DEF f, e, r
      <3>3. f \o <<>> = f /\ f' \o <<>> = f'
        BY <1>8, <1>13, <1>14, <1>15, <3>1
      <3> QED
        BY <1>8, <3>1, <3>2, <3>3
    <2> QED
      BY <1>1, <1>5, <1>6, <1>9, <1>16, <2>3, <2>4 DEF OfTypes, MapParts, op
  <1>17. CASE phase = "event"
    <2>1. /\ WrittenFunctions = contract.functions /\ WrittenFunctions' = contract.functions
          /\ WrittenEvents = w /\ WrittenEvents' = w2
          /\ WrittenErrors = Empty /\ WrittenErrors' = Empty
      BY <1>2, <1>17 DEF WrittenFunctions, WrittenEvents, WrittenErrors, w, w2, MapOf
    <2>2. Add(wc, op) = [wc EXCEPT !.events = Push(wc.events, op)]
      BY <1>5, <1>6, <1>12, <1>17, AddStored
    <2>3. WrittenContract' = Add(wc, op)
      <3> HIDE DEF wc
      <3> QED BY <1>5, <1>10, <2>1, <2>2
    <2>4. (f \o e \o r)' = Append(f \o e \o r, op)
      <3>1. f' = f /\ e = iterate(w) /\ r = <<>> /\ e' = iterate(w2) /\ r' = <<>>
        BY <2>1, IterateEmpty
      <3>2. (f \o e \o r)' = (f' \o e') \o r'
        OBVIOUS
      <3> HIDE DEF f, e, r
      <3>3. e' = Append(e, op) /\ f \o Append(e, op) = Append(f \o e, op)
        BY <1>8, <1>13, <1>15, <3>1
      <3>4. (f \o e) \o <<>> = f \o e /\ Append(f \o e, op) \o <<>> = Append(f \o e, op)
        BY <1>13, <1>14, <1>15
      <3> QED
        BY <3>1, <3>2, <3>3, <3>4
    <2> QED
      BY <1>1, <1>5, <1>6, <1>9, <1>17, <2>3, <2>4 DEF OfTypes, MapParts, op
  <1>18. CASE phase = "error"
    <2>1. /\ WrittenFunctions = contract.functions /\ WrittenFunctions' = contract.functions
          /\ WrittenEvents = contract.events /\ WrittenEvents' = contract.events
          /\ WrittenErrors = w /\ WrittenErrors' = w2
      BY <1>2, <1>18 DEF WrittenFunctions, WrittenEvents, WrittenErrors, w, w2, MapOf
    <2>2. Add(wc, op) = [wc EXCEPT !.errors = Push(wc.errors, op)]
      BY <1>5, <1>6, <1>12, <1>18, AddStored
    <2>3. WrittenContract' = Add(wc, op)
      <3> HIDE DEF wc
      <3> QED BY <1>5, <1>10, <2>1, <2>2
    <2>4. (f \o e \o r)' = Append(f \o e \o r, op)
      <3>1. f' = f /\ e' = e /\ r = iterate(w) /\ r' = iterate(w2)
        BY <2>1
      <3>2. (f \o e \o r)' = (f' \o e') \o r'
        OBVIOUS
      <3> HIDE DEF f, e, r
      <3>3. r' = Append(r, op) /\ (f \o e) \o Append(r, op) = Append((f \o e) \o r, op)
        BY <1>8, <1>13, <1>15, <3>1
      <3> QED
        BY <3>1, <3>2, <3>3
    <2> QED
      BY <1>1, <1>5, <1>6, <1>9, <1>18, <2>3, <2>4 DEF OfTypes, MapParts, op
  <1> QED
    BY <1>2, <1>16, <1>17, <1>18 DEF MapParts

(* Writing one overload keeps what serializing maintains. *)
LEMMA OverloadWrites ==
  ASSUME IInv, RInv, ReadOK, WriteOverload PROVE RInv'
  <1>1. PICK op \in OfTypes(MapParts) :
           /\ written' = Append(written, op)
           /\ WrittenContract' = Add(WrittenContract, op)
           /\ (iterate(WrittenFunctions) \o iterate(WrittenEvents) \o iterate(WrittenErrors))'
                = Append(iterate(WrittenFunctions) \o iterate(WrittenEvents)
                           \o iterate(WrittenErrors), op)
           /\ KeysOK(MapOf(phase), keys, pos)'
    BY OverloadLoads
  <1>2. /\ op \in Elements /\ OfTypes(MapParts) \in SUBSET Elements
        /\ written \in Seq(Elements)
    BY DEF OfTypes, IInv, TypeOK
  <1>3. phase \in MapParts /\ phase' = phase
    BY DEF WriteOverload
  <1>4. visited[written'] = WrittenContract'
    BY <1>1, <1>2, <1>3, VisitedEquation DEF RInv, WritesPart
  <1>5. Kept(OfTypes(MapParts), written') = Append(Kept(OfTypes(MapParts), written), op)
    <2> DEFINE T == OfTypes(MapParts)
    <2>1. T \in SUBSET Elements /\ op \in T
      BY <1>2
    <2> HIDE DEF T
    <2> QED
      BY <1>1, <1>2, <2>1, KeptGrows DEF T
  <1>6. WritesPart'
    BY <1>1, <1>3, <1>4, <1>5 DEF RInv, WritesPart
  <1>7. ReadsWritten'
    BY <1>3 DEF ReadsWritten, MapParts
  <1> QED
    BY <1>6, <1>7 DEF RInv

(* Going on to the next name. *)
LEMMA KeyWrites == ASSUME IInv, RInv, NextKey PROVE RInv'
  <1> DEFINE map == MapOf(phase)
  <1>1. PICK name \in keys :
          Smallest(name) /\ pos \notin DOMAIN map[name] /\ keys' = keys \ {name}
    BY DEF NextKey
  <1>2. /\ phase \in MapParts /\ pos' = 1
        /\ UNCHANGED <<contract, phase, written>>
    BY DEF NextKey
  <1>3. /\ Good(contract.functions) /\ Good(contract.events) /\ Good(contract.errors)
    BY IInvGood DEF GoodContract
  <1>4. Good(map) /\ KeysOK(map, keys, pos) /\ SmallestIn(name, keys)
    BY <1>1, <1>2, <1>3 DEF MapOf, MapParts, RInv, WritesPart, Smallest, SmallestIn
  <1>5. KeysOK(map, keys', 1) /\ WrittenMap(map, keys', 1) = WrittenMap(map, keys, pos)
    BY <1>1, <1>4, KeyDone
  <1>6. MapOf(phase)' = map
    BY <1>2 DEF MapOf
  <1>7. /\ WrittenFunctions' = WrittenFunctions /\ WrittenEvents' = WrittenEvents
        /\ WrittenErrors' = WrittenErrors
    <2>1. CASE phase = "function"
      BY <1>2, <1>5, <2>1 DEF WrittenFunctions, WrittenEvents, WrittenErrors, MapOf
    <2>2. CASE phase = "event"
      BY <1>2, <1>5, <2>2 DEF WrittenFunctions, WrittenEvents, WrittenErrors, MapOf
    <2>3. CASE phase = "error"
      BY <1>2, <1>5, <2>3 DEF WrittenFunctions, WrittenEvents, WrittenErrors, MapOf
    <2> QED
      BY <1>2, <2>1, <2>2, <2>3 DEF MapParts
  <1>8. WrittenContract' = WrittenContract
    BY <1>2, <1>7 DEF WrittenContract
  <1>9. WritesPart'
    BY <1>2, <1>5, <1>6, <1>7, <1>8 DEF RInv, WritesPart
  <1>10. ReadsWritten'
    BY <1>2 DEF ReadsWritten, MapParts
  <1> QED
    BY <1>9, <1>10 DEF RInv

(* Going on to the next map. *)
LEMMA MapWrites == ASSUME IInv, RInv, NextMap PROVE RInv'
  <1>1. /\ phase \in MapParts /\ keys = {} /\ pos' = 1
        /\ UNCHANGED <<contract, written>>
        /\ phase' = CASE phase = "function" -> "event"
                      [] phase = "event"    -> "error"
                      [] phase = "error"    -> "flags"
        /\ keys' = IF phase = "error" THEN {} ELSE DOMAIN MapOf(phase')
    BY DEF NextMap
  <1>2. /\ Good(contract.functions) /\ Good(contract.events) /\ Good(contract.errors)
    BY IInvGood DEF GoodContract
  <1>3. /\ WrittenFunctions' = WrittenFunctions /\ WrittenEvents' = WrittenEvents
        /\ WrittenErrors' = WrittenErrors
        /\ phase' \in MapParts \cup {"flags"}
        /\ phase' \in MapParts => KeysOK(MapOf(phase), keys, pos)'
    <2>1. CASE phase = "function"
      <3>1. phase' = "event"
        BY <1>1, <2>1
      <3>2. MapOf(phase') = contract.events /\ MapOf(phase)' = contract.events
        BY <1>1, <3>1 DEF MapOf
      <3>3. keys' = DOMAIN contract.events
        BY <1>1, <2>1, <3>2
      <3>4. /\ WrittenMap(contract.functions, {}, pos) = contract.functions
            /\ WrittenMap(contract.events, DOMAIN contract.events, 1) = Empty
            /\ KeysOK(contract.events, DOMAIN contract.events, 1)
        BY <1>2, MapEnds, MapBegins
      <3>5. /\ WrittenFunctions = contract.functions /\ WrittenFunctions' = contract.functions
            /\ WrittenEvents = Empty /\ WrittenEvents' = Empty
            /\ WrittenErrors = Empty /\ WrittenErrors' = Empty
        BY <1>1, <2>1, <3>1, <3>3, <3>4 DEF WrittenFunctions, WrittenEvents, WrittenErrors
      <3> QED
        BY <1>1, <3>1, <3>2, <3>3, <3>4, <3>5 DEF MapParts
    <2>2. CASE phase = "event"
      <3>1. phase' = "error"
        BY <1>1, <2>2
      <3>2. MapOf(phase') = contract.errors /\ MapOf(phase)' = contract.errors
        BY <1>1, <3>1 DEF MapOf
      <3>3. keys' = DOMAIN contract.errors
        BY <1>1, <2>2, <3>2
      <3>4. /\ WrittenMap(contract.events, {}, pos) = contract.events
            /\ WrittenMap(contract.errors, DOMAIN contract.errors, 1) = Empty
            /\ KeysOK(contract.errors, DOMAIN contract.errors, 1)
        BY <1>2, MapEnds, MapBegins
      <3>5. /\ WrittenFunctions = contract.functions /\ WrittenFunctions' = contract.functions
            /\ WrittenEvents = contract.events /\ WrittenEvents' = contract.events
            /\ WrittenErrors = Empty /\ WrittenErrors' = Empty
        BY <1>1, <2>2, <3>1, <3>3, <3>4 DEF WrittenFunctions, WrittenEvents, WrittenErrors
      <3> QED
        BY <1>1, <3>1, <3>2, <3>3, <3>4, <3>5 DEF MapParts
    <2>3. CASE phase = "error"
      <3>1. phase' = "flags"
        BY <1>1, <2>3
      <3>2. WrittenMap(contract.errors, {}, pos) = contract.errors
        BY <1>2, MapEnds
      <3>3. /\ WrittenFunctions = contract.functions /\ WrittenFunctions' = contract.functions
            /\ WrittenEvents = contract.events /\ WrittenEvents' = contract.events
            /\ WrittenErrors = contract.errors /\ WrittenErrors' = contract.errors
        BY <1>1, <2>3, <3>1, <3>2 DEF WrittenFunctions, WrittenEvents, WrittenErrors
      <3> QED
        BY <3>1, <3>3 DEF MapParts
    <2> QED
      BY <1>1, <2>1, <2>2, <2>3 DEF MapParts
  <1>4. WrittenContract' = WrittenContract
    BY <1>1, <1>3 DEF WrittenContract
  <1>5. WritesPart'
    BY <1>1, <1>3, <1>4 DEF RInv, WritesPart
  <1>6. ReadsWritten'
    BY <1>3 DEF ReadsWritten, MapParts
  <1> QED
    BY <1>5, <1>6 DEF RInv

(* What was written, with an element behind it if a flag is set. *)
LEMMA FlagLoads ==
  ASSUME NEW s \in Seq(Elements), NEW flag \in BOOLEAN, NEW type \in {"receive", "fallback"},
         IsContract(visited[s])
  PROVE  LET t == s \o (IF flag THEN <<Bare(type, NoInputs)>> ELSE <<>>)
         IN  /\ t \in Seq(Elements)
             /\ ~flag => visited[t] = visited[s]
             /\ flag /\ type = "receive" => visited[t] = [visited[s] EXCEPT !.receive = TRUE]
             /\ flag /\ type = "fallback" => visited[t] = [visited[s] EXCEPT !.fallback = TRUE]
  <1> DEFINE op == Bare(type, NoInputs)
  <1>1. NoInputs \in Inputs
    BY NamesAssumption DEF NoInputs
  <1>2. op \in Elements /\ op.rest = NoRest /\ op.type = type
    BY <1>1, BareStored DEF Kinds
  <1> HIDE DEF op
  <1>3. s \o <<>> = s /\ Append(s, op) = s \o <<op>> /\ Append(s, op) \in Seq(Elements)
    BY <1>2, ConcatEmptySeq, AppendIsConcat, AppendProperties
  <1>4. visited[s \o <<op>>] = Add(visited[s], op)
    BY <1>2, <1>3, VisitedEquation
  <1>5. /\ type = "receive" => Add(visited[s], op) = [visited[s] EXCEPT !.receive = TRUE]
        /\ type = "fallback" => Add(visited[s], op) = [visited[s] EXCEPT !.fallback = TRUE]
    BY <1>2, AddStored
  <1>6. CASE flag
    BY <1>3, <1>4, <1>5, <1>6 DEF op
  <1>7. CASE ~flag
    BY <1>3, <1>7
  <1> QED
    BY <1>6, <1>7

(* What was written is the contract, and is read from its start. *)
LEMMA ReloadWrites == ASSUME IInv, RInv, Reload PROVE RInv'
  <1> DEFINE c  == contract
             s0 == written
             s1 == s0 \o (IF c.receive THEN <<Bare("receive", NoInputs)>> ELSE <<>>)
             s2 == s1 \o (IF c.fallback THEN <<Bare("fallback", NoInputs)>> ELSE <<>>)
  <1>1. /\ phase = "flags" /\ phase' = "reload" /\ source' = s2
        /\ next' = 1 /\ first' = c /\ contract' = Default
    BY DEF Reload
  <1>2. IsContract(c) /\ s0 \in Seq(Elements) /\ c.receive \in BOOLEAN /\ c.fallback \in BOOLEAN
    BY DEF IInv, TypeOK, IsContract
  <1>3. visited[s0] = [constructor |-> c.constructor, functions |-> c.functions,
                       events |-> c.events, errors |-> c.errors,
                       receive |-> FALSE, fallback |-> FALSE]
    BY <1>1 DEF RInv, WritesPart, WrittenContract, WrittenFunctions, WrittenEvents,
                WrittenErrors, MapParts
  <1>4. IsContract(visited[s0])
    BY <1>2, <1>3 DEF IsContract
  <1>5. /\ s1 \in Seq(Elements)
        /\ ~c.receive => visited[s1] = visited[s0]
        /\ c.receive => visited[s1] = [visited[s0] EXCEPT !.receive = TRUE]
    BY <1>2, <1>4, FlagLoads
  <1> HIDE DEF s1
  <1> DEFINE v0 == visited[s0]
             v1 == visited[s1]
             v2 == visited[s2]
  <1>6. /\ v0.constructor = c.constructor /\ v0.functions = c.functions
        /\ v0.events = c.events /\ v0.errors = c.errors
        /\ v0.receive = FALSE /\ v0.fallback = FALSE
    BY <1>3
  <1>7. /\ IsContract(v1)
        /\ v1.constructor = c.constructor /\ v1.functions = c.functions
        /\ v1.events = c.events /\ v1.errors = c.errors
        /\ v1.receive = c.receive /\ v1.fallback = FALSE
    <2> HIDE DEF v0, v1, c
    <2>1. CASE c.receive
      <3>1. v1 = [v0 EXCEPT !.receive = TRUE]
        BY <1>5, <2>1 DEF v0, v1
      <3> QED
        BY <1>2, <1>4, <1>6, <2>1, <3>1 DEF IsContract, v0
    <2>2. CASE ~c.receive
      <3>1. v1 = v0
        BY <1>5, <2>2 DEF v0, v1
      <3> QED
        BY <1>2, <1>4, <1>6, <2>2, <3>1 DEF v0
    <2> QED
      BY <2>1, <2>2
  <1>8. /\ s2 \in Seq(Elements)
        /\ ~c.fallback => v2 = v1
        /\ c.fallback => v2 = [v1 EXCEPT !.fallback = TRUE]
    BY <1>2, <1>5, <1>7, FlagLoads
  <1> HIDE DEF s2
  <1>9. /\ IsContract(v2)
        /\ v2.constructor = c.constructor /\ v2.functions = c.functions
        /\ v2.events = c.events /\ v2.errors = c.errors
        /\ v2.receive = c.receive /\ v2.fallback = c.fallback
    <2> HIDE DEF v1, v2, c
    <2>1. CASE c.fallback
      BY <1>2, <1>7, <1>8, <2>1 DEF IsContract
    <2>2. CASE ~c.fallback
      BY <1>2, <1>7, <1>8, <2>2
    <2> QED
      BY <2>1, <2>2
  <1>10. v2 = c
    <2> HIDE DEF v2, c
    <2> QED
      BY <1>2, <1>9 DEF IsContract
  <1>11. SubSeq(s2, 1, 0) = <<>> /\ visited[<<>>] = Default
    BY SubSeqEmpty, VisitedEquation
  <1>12. ReadsWritten'
    <2>1. next' - 1 = 0
      BY <1>1
    <2>2. SubSeq(source', 1, next' - 1) = <<>>
      BY <1>1, <1>11, <2>1
    <2> HIDE DEF c
    <2> QED
      BY <1>1, <1>8, <1>10, <1>11, <2>2 DEF ReadsWritten
  <1>13. WritesPart'
    BY <1>1 DEF WritesPart, MapParts
  <1> QED
    BY <1>12, <1>13 DEF RInv

(* Reading what was written. *)
LEMMA ElementReads == ASSUME IInv, RInv, NextElement PROVE RInv'
  <1>1. /\ phase \in {"load", "reload"} /\ phase' = phase
        /\ next \in DOMAIN source /\ next' = next + 1
        /\ contract' = Add(contract, source[next]) /\ UNCHANGED <<source, first>>
    BY DEF NextElement, Loading
  <1>2. WritesPart'
    BY <1>1 DEF WritesPart, MapParts
  <1>3. CASE phase = "load"
    <2>1. ReadsWritten'
      BY <1>1, <1>3 DEF ReadsWritten
    <2> QED
      BY <1>2, <2>1 DEF RInv
  <1>4. CASE phase = "reload"
    <2>1. /\ source \in Seq(Elements) /\ first = visited[source]
          /\ contract = visited[SubSeq(source, 1, next - 1)]
      BY <1>4 DEF RInv, ReadsWritten
    <2>2. /\ next \in 1..Len(source) /\ Len(source) \in Nat /\ source[next] \in Elements
          /\ \A i \in 1..Len(source) : source[i] \in Elements
      BY <1>1, <2>1, LenProperties, ElementOfSeq
    <2> DEFINE m == next - 1
    <2>3. m \in Nat /\ m <= Len(source) /\ next' - 1 = next
      BY <1>1, <2>2
    <2>4. SubSeq(source, 1, m) \in Seq(Elements)
      <3> HIDE DEF m
      <3>1. \A i \in 1..m : source[i] \in Elements
        BY <2>2, <2>3
      <3> QED
        BY <2>3, <3>1, SubSeqProperties
    <2>5. SubSeq(source, 1, next) = Append(SubSeq(source, 1, m), source[next])
      <3>1. 1 \in 1..Len(source)
        BY <2>2
      <3>2. SubSeq(source, 1, next) = SubSeq(source, 1, m) \o <<source[next]>>
        BY <2>1, <2>2, <3>1, SubSeqRecursiveSecond
      <3> HIDE DEF m
      <3> QED
        BY <2>2, <2>4, <3>2, AppendIsConcat
    <2> HIDE DEF m
    <2>6. visited[SubSeq(source, 1, next)] = Add(visited[SubSeq(source, 1, m)], source[next])
      BY <2>2, <2>4, <2>5, VisitedEquation
    <2>7. contract' = visited[SubSeq(source, 1, next)]
      BY <1>1, <2>1, <2>6 DEF m
    <2>8. ReadsWritten'
      BY <1>1, <1>4, <2>1, <2>3, <2>7 DEF ReadsWritten
    <2> QED
      BY <1>2, <2>8 DEF RInv
  <1> QED
    BY <1>1, <1>3, <1>4

(* The end of reading. *)
LEMMA EndReads == ASSUME IInv, RInv, Loaded PROVE RInv'
  <1>1. /\ phase \in {"load", "reload"} /\ next \notin DOMAIN source
        /\ phase' = IF phase = "load" THEN "loaded" ELSE "done"
        /\ UNCHANGED <<contract, first>>
    BY DEF Loaded, Loading
  <1>2. WritesPart'
    BY <1>1 DEF WritesPart, MapParts
  <1>3. CASE phase = "load"
    BY <1>1, <1>2, <1>3 DEF RInv, ReadsWritten
  <1>4. CASE phase = "reload"
    <2>1. /\ source \in Seq(Elements) /\ first = visited[source]
          /\ contract = visited[SubSeq(source, 1, next - 1)]
      BY <1>4 DEF RInv, ReadsWritten
    <2>2. next \in 1..(Len(source) + 1) /\ DOMAIN source = 1..Len(source) /\ Len(source) \in Nat
      BY <2>1, LenProperties DEF IInv, TypeOK
    <2>3. next - 1 = Len(source)
      BY <1>1, <2>2
    <2>4. contract = first
      BY <2>1, <2>3, SubSeqFull
    <2> QED
      BY <1>1, <1>2, <1>4, <2>4 DEF RInv, ReadsWritten
  <1> QED
    BY <1>1, <1>3, <1>4

(* Every step keeps what serializing and reloading maintain. *)
LEMMA StepReloads == ASSUME IInv, ReadOK, RInv, [Next]_vars PROVE RInv'
  <1>1. CASE LoadFails
    BY <1>1 DEF LoadFails, RInv, WritesPart, ReadsWritten, MapParts
  <1>2. CASE UNCHANGED vars
    <2>1. /\ MapOf(phase)' = MapOf(phase) /\ WrittenContract' = WrittenContract
          /\ WrittenFunctions' = WrittenFunctions /\ WrittenEvents' = WrittenEvents
          /\ WrittenErrors' = WrittenErrors
      BY <1>2 DEF vars, MapOf, WrittenContract, WrittenFunctions, WrittenEvents, WrittenErrors
    <2> QED
      BY <1>2, <2>1 DEF vars, RInv, WritesPart, ReadsWritten
  <1> QED
    BY <1>1, <1>2, ElementReads, EndReads, ConstructorWrites, OverloadWrites, KeyWrites,
       MapWrites, ReloadWrites DEF Next

(* What serializing and reloading maintain holds throughout. *)
LEMMA InductiveReloads == Spec => []RInv
  <1>1. Init => RInv
    BY DEF Init, RInv, WritesPart, ReadsWritten, MapParts
  <1>2. IInv /\ ReadOK /\ RInv /\ [Next]_vars => RInv'
    BY StepReloads
  <1> QED
    BY <1>1, <1>2, Inductive, InductiveReads, PTL DEF Spec

(* serialize writes all operations, in the order of the iterators, and     *)
(* loading what it wrote gives the same contract, whatever the ABI.        *)
THEOREM AlwaysReloadsSame == Spec => []ReloadSame
  <1>1. RInv => ReloadSame
    <2> SUFFICES ASSUME RInv PROVE ReloadSame
      OBVIOUS
    <2>1. phase = "flags" => /\ WrittenFunctions = contract.functions
                             /\ WrittenEvents = contract.events
                             /\ WrittenErrors = contract.errors
      BY DEF WrittenFunctions, WrittenEvents, WrittenErrors
    <2> QED
      BY <2>1 DEF RInv, WritesPart, ReadsWritten, ReloadSame
  <1> QED
    BY <1>1, InductiveReloads, PTL
=============================================================================
