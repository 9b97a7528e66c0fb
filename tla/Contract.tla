------------------------------ MODULE Contract ------------------------------
(***************************************************************************)
(* Contract (contract.rs): loading an ABI, the array of its operations     *)
(* read one element at a time by visit_seq; serializing the contract;      *)
(* loading what was serialized; and the lookups, by name or by signature,  *)
(* of the library and of the command line (cli/src/main.rs).               *)
(*                                                                         *)
(* A name is a number, ordered as the strings are.  In an ABI a name may   *)
(* have parentheses behind it, which sanitize_name cuts off (util.rs).     *)
(***************************************************************************)
EXTENDS Integers, Results, SequencesExt

CONSTANTS
  Names,       \* the names of functions, events and errors
  Rests,       \* what may follow a name in an ABI, from its "(" on
  NoRest,      \* nothing follows
  Inputs,      \* the parameter types of an operation, written in its signature
  Outputs,     \* the result types of a function
  NoOutputs,   \* no results
  Sources      \* the ABIs: sequences of operations, and elements that are none

ASSUME NamesAssumption == Names \subseteq Int /\ Names # {} /\ Inputs # {}

Kinds == {"constructor", "function", "event", "error", "fallback", "receive"}

(* An element of an ABI; "rest" is behind its name. *)
Element(type, name, rest, inputs, outputs) ==
  [type |-> type, name |-> name, rest |-> rest, inputs |-> inputs, outputs |-> outputs]

Elements == [type : Kinds, name : Names, rest : Rests \cup {NoRest},
             inputs : Inputs, outputs : Outputs \cup {NoOutputs}]

(* Something that is not an Operation: serde fails on it. *)
Invalid == [type |-> "invalid"]

ASSUME SourcesAssumption == Sources \subseteq Seq(Elements \cup {Invalid})

VARIABLES
  source,      \* the ABI that is read
  next,        \* the element that is read next
  contract,    \* what visit_seq has built
  first,       \* the contract as it was serialized
  phase,       \* see Phases
  written,     \* the elements serialize has written
  keys,        \* the names of the map it writes that are left
  pos          \* the overload of the smallest of them that is written next

vars == <<source, next, contract, first, phase, written, keys, pos>>

(* "function", "event" and "error" are the maps while they are written. *)
Phases == {"load", "loaded", "function", "event", "error", "flags", "reload",
           "done", "failed"}

-----------------------------------------------------------------------------
(* A mutant: names are taken as they are. *)
sanitize_nothing(element) == element

(* Operations: those with a name have it sanitized. *)
sanitize_name(element) == [element EXCEPT !.rest = NoRest]

Empty == [name \in {} |-> <<>>]
NoConstructor == <<>>

Default == [constructor |-> NoConstructor, functions |-> Empty, events |-> Empty,
            errors |-> Empty, receive |-> FALSE, fallback |-> FALSE]

(* A mutant: an overload takes the place of the one before it. *)
Push_last(map, op) ==
  [n \in DOMAIN map \cup {op.name} |-> IF n = op.name THEN <<op>> ELSE map[n]]

(* A mutant: an entry is made and its operation is lost. *)
Push_entry(map, op) ==
  [n \in DOMAIN map \cup {op.name} |-> IF n \in DOMAIN map THEN map[n] ELSE <<>>]

OverloadsOf(map, name) == IF name \in DOMAIN map THEN map[name] ELSE <<>>

(* entry(name).or_default().push(op) *)
Push(map, op) ==
  [n \in DOMAIN map \cup {op.name} |->
     IF n = op.name THEN Append(OverloadsOf(map, n), op) ELSE map[n]]

(* One turn of the loop of visit_seq. *)
Add(c, element) ==
  LET op == sanitize_name(element)
  IN  CASE op.type = "constructor" -> [c EXCEPT !.constructor = <<op.inputs>>]
        [] op.type = "function"    -> [c EXCEPT !.functions = Push(@, op)]
        [] op.type = "event"       -> [c EXCEPT !.events = Push(@, op)]
        [] op.type = "error"       -> [c EXCEPT !.errors = Push(@, op)]
        [] op.type = "fallback"    -> [c EXCEPT !.fallback = TRUE]
        [] op.type = "receive"     -> [c EXCEPT !.receive = TRUE]

(* What serialize writes for an operation without a name. *)
Bare(type, inputs) ==
  Element(type, CHOOSE name \in Names : TRUE, NoRest, inputs, NoOutputs)
NoInputs == CHOOSE inputs \in Inputs : TRUE

-----------------------------------------------------------------------------
Loading == phase \in {"load", "reload"}

(* A mutant: the loop reads every other element. *)
NextElement_skipping ==
  /\ Loading
  /\ next \in DOMAIN source /\ source[next] # Invalid
  /\ contract' = Add(contract, source[next])
  /\ next' = next + 2
  /\ UNCHANGED <<source, first, phase, written, keys, pos>>

NextElement ==
  /\ Loading
  /\ next \in DOMAIN source /\ source[next] # Invalid
  /\ contract' = Add(contract, source[next])
  /\ next' = next + 1
  /\ UNCHANGED <<source, first, phase, written, keys, pos>>

(* What was built is dropped with the error. *)
LoadFails ==
  /\ Loading
  /\ next \in DOMAIN source /\ source[next] = Invalid
  /\ phase' = "failed" /\ contract' = Default
  /\ UNCHANGED <<source, next, first, written, keys, pos>>

Loaded ==
  /\ Loading
  /\ next \notin DOMAIN source
  /\ phase' = IF phase = "load" THEN "loaded" ELSE "done"
  /\ UNCHANGED <<source, next, contract, first, written, keys, pos>>

(* Serialize: the constructor, then the maps by their keys, then the flags. *)
WriteConstructor ==
  /\ phase = "loaded"
  /\ written' = IF contract.constructor = NoConstructor THEN <<>>
                ELSE <<Bare("constructor", contract.constructor[1])>>
  /\ phase' = "function" /\ keys' = DOMAIN contract.functions /\ pos' = 1
  /\ UNCHANGED <<source, next, contract, first>>

MapParts == {"function", "event", "error"}

MapOf(part) == CASE part = "function" -> contract.functions
                 [] part = "event"    -> contract.events
                 [] part = "error"    -> contract.errors

Smallest(name) == name \in keys /\ \A other \in keys : name <= other

WriteOverload ==
  /\ phase \in MapParts
  /\ \E name \in keys :
       /\ Smallest(name)
       /\ pos \in DOMAIN MapOf(phase)[name]
       /\ written' = Append(written, MapOf(phase)[name][pos])
  /\ pos' = pos + 1
  /\ UNCHANGED <<source, next, contract, first, phase, keys>>

(* A mutant: the last overload of a name is left out, if there are others. *)
NextKey_early ==
  /\ phase \in MapParts
  /\ \E name \in keys :
       /\ Smallest(name)
       /\ pos > 1 /\ pos + 1 \notin DOMAIN MapOf(phase)[name]
       /\ keys' = keys \ {name}
  /\ pos' = 1
  /\ UNCHANGED <<source, next, contract, first, phase, written>>

NextKey ==
  /\ phase \in MapParts
  /\ \E name \in keys :
       /\ Smallest(name)
       /\ pos \notin DOMAIN MapOf(phase)[name]
       /\ keys' = keys \ {name}
  /\ pos' = 1
  /\ UNCHANGED <<source, next, contract, first, phase, written>>

NextMap ==
  /\ phase \in MapParts /\ keys = {}
  /\ phase' = CASE phase = "function" -> "event"
                [] phase = "event"    -> "error"
                [] phase = "error"    -> "flags"
  /\ keys' = IF phase = "error" THEN {} ELSE DOMAIN MapOf(phase')
  /\ pos' = 1
  /\ UNCHANGED <<source, next, contract, first, written>>

(* The end of serialize, and what was written is loaded. *)
Reload ==
  /\ phase = "flags"
  /\ source' = written
       \o (IF contract.receive THEN <<Bare("receive", NoInputs)>> ELSE <<>>)
       \o (IF contract.fallback THEN <<Bare("fallback", NoInputs)>> ELSE <<>>)
  /\ next' = 1 /\ first' = contract /\ contract' = Default
  /\ phase' = "reload"
  /\ UNCHANGED <<written, keys, pos>>

Init ==
  /\ source \in Sources /\ next = 1
  /\ contract = Default /\ first = Default
  /\ phase = "load"
  /\ written = <<>> /\ keys = {} /\ pos = 1

Next ==
  \/ NextElement \/ LoadFails \/ Loaded
  \/ WriteConstructor \/ WriteOverload \/ NextKey \/ NextMap
  \/ Reload

Spec == Init /\ [][Next]_vars

-----------------------------------------------------------------------------
(* Lookups, of the library and of the command line.  A signature is a name *)
(* and the types behind it; a query without types is a name.               *)

(* The match arm 0 => unreachable!() was reached. *)
Unreachable == [status |-> "Unreachable", val |-> <<>>]

by_name(map, name) == IF name \in DOMAIN map THEN Ok(map[name]) ELSE Err

(* The lists of the names in a finite set, one behind the other. *)
FiniteNames == {ns \in SUBSET Names : IsFiniteSet(ns)}
Lists       == [Names -> Seq(Elements)]
Flats       == [names : FiniteNames, lists : Lists]

flatten[q \in Flats] ==
  IF q.names = {} THEN <<>>
  ELSE LET last == Max(q.names)
       IN  flatten[[q EXCEPT !.names = @ \ {last}]] \o q.lists[last]

(* functions(), events() and errors(): values().flatten(). *)
iterate(map) ==
  flatten[[names |-> DOMAIN map, lists |-> [n \in Names |-> OverloadsOf(map, n)]]]

(* The first overload of a name. *)
first_of(map, name) ==
  LET found == by_name(map, name)
  IN  IF found.status = "Ok" /\ found.val # <<>> THEN Ok(Head(found.val)) ELSE Err

(* Function::signature tells the results too, that of an event does not. *)
function_signature(f) ==
  IF f.outputs = NoOutputs THEN <<f.name, f.inputs>> ELSE <<f.name, f.inputs, f.outputs>>
event_signature(e) == <<e.name, e.inputs>>

signature(op) == IF op.type = "function" THEN function_signature(op) ELSE event_signature(op)

(* A mutant: the types of the signature are not compared. *)
find_by_name(overloads, sig) ==
  LET same == {i \in DOMAIN overloads : overloads[i].name = sig[1]}
  IN  IF same = {} THEN Err ELSE Ok(overloads[Min(same)])

find(overloads, sig) ==
  LET same == {i \in DOMAIN overloads : signature(overloads[i]) = sig}
  IN  IF same = {} THEN Err ELSE Ok(overloads[Min(same)])

(* A query is a name, <<name>>, or a signature. *)
lookup(map, query) ==
  LET found == by_name(map, query[1])
  IN  IF found.status # "Ok" THEN Err
      ELSE IF Len(query) > 1 THEN find(found.val, query)
      ELSE CASE Len(found.val) = 0 -> Unreachable
             [] Len(found.val) = 1 -> Ok(found.val[1])
             [] Len(found.val) > 1 -> Err

(* load_function and load_event. *)
load(part, query) == lookup(MapOf(part), query)

-----------------------------------------------------------------------------
Maps == {contract.functions, contract.events, contract.errors}

(* A map of overloads, and a contract. *)
IsMap(map) ==
  /\ DOMAIN map \subseteq Names /\ IsFiniteSet(DOMAIN map)
  /\ map \in [DOMAIN map -> Seq(Elements)]

IsContract(c) ==
  /\ c = [constructor |-> c.constructor, functions |-> c.functions, events |-> c.events,
          errors |-> c.errors, receive |-> c.receive, fallback |-> c.fallback]
  /\ c.constructor \in {NoConstructor} \cup {<<inputs>> : inputs \in Inputs}
  /\ IsMap(c.functions) /\ IsMap(c.events) /\ IsMap(c.errors)
  /\ c.receive \in BOOLEAN /\ c.fallback \in BOOLEAN

(* The variables have their types, and the keys that are left to write are *)
(* keys of the map that is written.                                        *)
TypeOK ==
  /\ source \in Seq(Elements \cup {Invalid})
  /\ next \in 1..(Len(source) + 1)
  /\ IsContract(contract) /\ IsContract(first)
  /\ phase \in Phases
  /\ written \in Seq(Elements)
  /\ phase \in MapParts => keys \subseteq DOMAIN MapOf(phase)
  /\ pos \in Nat \ {0}

(* No name has an empty list of overloads: the command line's lookup by    *)
(* name relies on it where it says "0 => unreachable!()".                  *)
NonEmpty(map) == \A name \in DOMAIN map : map[name] # <<>>

NoEmptyOverloads == \A map \in Maps : NonEmpty(map)

(* An overload is filed under its own name, without what followed it in    *)
(* the ABI: a lookup never returns an operation of another name.           *)
Filed(map) == \A name \in DOMAIN map : \A i \in DOMAIN map[name] :
                map[name][i].name = name /\ map[name][i].rest = NoRest

FiledByName == \A map \in Maps : Filed(map)

(* What a lookup takes from a map is never nothing, and never an operation *)
(* of another name than the one asked for.                                 *)
WellFiled == NoEmptyOverloads /\ FiledByName

(* The elements of a sequence that are in a set, in their order. *)
Queries == [set : SUBSET Elements, seq : Seq(Elements)]
kept[q \in Queries] ==
  IF q.seq = <<>> THEN <<>>
  ELSE LET others == kept[[q EXCEPT !.seq = Front(@)]]
           last   == Last(q.seq)
       IN  IF last \in q.set THEN Append(others, last) ELSE others

Kept(ops, seq) == kept[[set |-> ops, seq |-> seq]]

OfTypes(types) == {op \in Elements : op.type \in types}
Named(name)    == {op \in Elements : op.name = name}

(* What the loop has read of the ABI. *)
Read == [i \in 1..(next - 1) |-> sanitize_name(source[i])]
Declared(type) == Kept(OfTypes({type}), Read)

Files(map, type) ==
  /\ DOMAIN map = {op.name : op \in Range(Declared(type))}
  /\ \A name \in DOMAIN map :
       map[name] = Kept(Named(name), Declared(type))

(* No overload is lost, none is filed twice, and the overloads of a name   *)
(* keep the order of the ABI; the last constructor counts.                 *)
KeepsOverloads ==
  phase # "failed" =>
    /\ Files(contract.functions, "function")
    /\ Files(contract.events, "event")
    /\ Files(contract.errors, "error")
    /\ contract.constructor = LET cs == Declared("constructor")
                              IN  IF cs = <<>> THEN <<>> ELSE <<Last(cs).inputs>>
    /\ contract.receive = (Declared("receive") # <<>>)
    /\ contract.fallback = (Declared("fallback") # <<>>)

(* serialize writes all operations that the iterators run over, in their   *)
(* order; and a contract that is written and loaded again is the same      *)
(* contract: order of overloads, constructor and both flags survive.       *)
ReloadSame ==
  /\ phase = "flags" =>
       iterate(contract.functions) \o iterate(contract.events) \o iterate(contract.errors)
         = Kept(OfTypes(MapParts), written)
  /\ phase = "done" => contract = first

(* The whole signature of a function or event always selects one with this *)
(* signature, and its name does if it is the only one; what is selected    *)
(* was asked for.                                                          *)
Selects(part) ==
  LET map == MapOf(part)
  IN  \A name \in DOMAIN map :
        /\ \A i \in DOMAIN map[name] :
             LET sig == signature(map[name][i])
                 res == load(part, sig)
             IN  res.status = "Ok" /\ signature(res.val) = sig
        /\ (load(part, <<name>>).status = "Ok") = (Len(map[name]) = 1)
        /\ first_of(map, name) = Ok(map[name][1])

SignatureSelects == Selects("function") /\ Selects("event")
=============================================================================
