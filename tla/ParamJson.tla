------------------------------ MODULE ParamJson ------------------------------
(***************************************************************************)
(* The parameters of an ABI as JSON (param.rs, event_param.rs,             *)
(* tuple_param.rs): reading one with visit_map, which takes the fields as  *)
(* they come; serializing it; and reading what was written.                *)
(*                                                                         *)
(* An open visit_map is a frame of "stack".  While it reads the Vec under  *)
(* "components", "todo" are the elements that are left; each is read by a  *)
(* visit_map of its own, whose kind is appended to "got".  An option is a  *)
(* sequence of at most one value.                                          *)
(***************************************************************************)
EXTENDS TypeNames

CONSTANT Objects    \* the objects read: [visitor, fields]

(* A field of an object.  Its value is a text, a list of objects or a flag *)
(* and is "sound" if it is what the visitor expects under this key.        *)
Field(key, text, elements, flag, sound) ==
  [key |-> key, text |-> text, elements |-> elements, flag |-> flag, sound |-> sound]

TextField(key, text)     == Field(key, text, <<>>, FALSE, TRUE)
ListField(key, elements) == Field(key, <<>>, elements, FALSE, TRUE)
FlagField(key, flag)     == Field(key, <<>>, <<>>, flag, TRUE)

Visitors == {"Param", "EventParam", "TupleParam"}

(* The keys that a visitor knows; it does not read the value under others. *)
Keys(visitor) == {"name", "type", "components"}
  \cup (IF visitor = "EventParam" THEN {"indexed"} ELSE {"internalType"})

VARIABLES
  source,     \* the object, and the visitor that reads it
  streamed,   \* from text, or from the Content that serde buffers for a tagged enum
  stack,      \* the open visitors
  phase,      \* "read", "written", "reread", "done", or how it failed
  param,      \* what the outermost visitor returned
  first       \* the same before it was written and read again

vars == <<source, streamed, stack, phase, param, first>>

Reading  == phase \in {"read", "reread"}
Failures == {"Err", "Panic"}

Frame(visitor, fields) ==
  [visitor |-> visitor, fields |-> fields, next |-> 1,
   name |-> <<>>, kind |-> <<>>, internal_type |-> <<>>, indexed |-> <<>>,
   components |-> <<>>, listing |-> FALSE, todo |-> <<>>, got |-> <<>>]

Nothing == [name |-> <<>>, kind |-> <<>>, internal_type |-> <<>>, indexed |-> <<>>]

Top == Last(stack)
Key == Top.fields[Top.next]

SetTop(frame) == stack' = Append(Front(stack), frame)

Fail(outcome) ==
  /\ phase' = outcome /\ stack' = <<>> /\ param' = Nothing
  /\ UNCHANGED <<source, streamed, first>>

-----------------------------------------------------------------------------
(* A tuple behind any number of array dimensions. *)
RECURSIVE inner_tuple(_)
inner_tuple(kind) ==
  CASE kind.kind \in {"Array", "FixedArray"} -> inner_tuple(kind.subs[1])
    [] kind.kind = "Tuple"                   -> <<kind.subs>>
    [] OTHER                                 -> <<>>

RECURSIVE extend_tuple(_, _)
extend_tuple(kind, kinds) ==
  IF kind.kind = "Tuple" THEN [kind EXCEPT !.subs = @ \o kinds]
  ELSE [kind EXCEPT !.subs[1] = extend_tuple(@, kinds)]

(* A mutant: the components are those of the outermost dimension. *)
set_tuple_components_outer(kind, components) ==
  IF kind.kind # "Tuple" THEN Ok(kind)
  ELSE IF components = <<>> THEN Err
  ELSE Ok(extend_tuple(kind, components[1]))

(* Components of a type that has no tuple are dropped. *)
set_tuple_components(kind, components) ==
  IF inner_tuple(kind) = <<>> THEN Ok(kind)
  ELSE IF components = <<>> THEN Err
  ELSE Ok(extend_tuple(kind, components[1]))

-----------------------------------------------------------------------------
(* One turn of the loop of visit_map, on a key that it knows and has not   *)
(* seen, with a sound value.                                               *)
AtKey(key) ==
  /\ Reading /\ stack # <<>>
  /\ ~Top.listing /\ Top.next \in DOMAIN Top.fields
  /\ Key.key = key /\ key \in Keys(Top.visitor)
  /\ Key.sound

Proceed(frame) == SetTop([frame EXCEPT !.next = @ + 1])
Unchanged == UNCHANGED <<source, streamed, phase, param, first>>

ReadName ==
  /\ AtKey("name") /\ Top.name = <<>>
  /\ Proceed([Top EXCEPT !.name = <<Key.text>>])
  /\ Unchanged

(* ParamTypeVisitor: the value is read as the name of a type. *)
ReadType ==
  /\ AtKey("type") /\ Top.kind = <<>>
  /\ LET kind == read(Key.text)
     IN  \/ /\ IsOk(kind)
            /\ Proceed([Top EXCEPT !.kind = <<kind.val>>])
            /\ Unchanged
         \/ ~IsOk(kind) /\ Fail(kind.status)

ReadInternalType ==
  /\ AtKey("internalType") /\ Top.internal_type = <<>>
  /\ Proceed([Top EXCEPT !.internal_type = <<Key.text>>])
  /\ Unchanged

ReadIndexed ==
  /\ AtKey("indexed") /\ Top.indexed = <<>>
  /\ Proceed([Top EXCEPT !.indexed = <<Key.flag>>])
  /\ Unchanged

ReadComponents ==
  /\ AtKey("components") /\ Top.components = <<>>
  /\ SetTop([Top EXCEPT !.listing = TRUE, !.todo = Key.elements, !.got = <<>>])
  /\ Unchanged

OpenComponent ==
  /\ Reading /\ stack # <<>> /\ Top.listing /\ Top.todo # <<>>
  /\ stack' = Append(Append(Front(stack), [Top EXCEPT !.todo = Tail(@)]),
                     Frame("TupleParam", Head(Top.todo)))
  /\ Unchanged

(* A mutant: the visitor goes on with its Vec half read. *)
EndComponents_early ==
  /\ Reading /\ stack # <<>> /\ Top.listing /\ Top.todo # <<>>
  /\ Proceed([Top EXCEPT !.components = <<Top.got>>])
  /\ Unchanged

EndComponents ==
  /\ Reading /\ stack # <<>> /\ Top.listing /\ Top.todo = <<>>
  /\ Proceed([Top EXCEPT !.listing = FALSE, !.components = <<Top.got>>])
  /\ Unchanged

Seen(frame, key) ==
  CASE key = "name"         -> frame.name # <<>>
    [] key = "type"         -> frame.kind # <<>>
    [] key = "internalType" -> frame.internal_type # <<>>
    [] key = "indexed"      -> frame.indexed # <<>>
    [] key = "components"   -> frame.components # <<>>

(* A key for the second time, or a value of another type. *)
RefuseField ==
  /\ Reading /\ stack # <<>> /\ ~Top.listing
  /\ Top.next \in DOMAIN Top.fields
  /\ Key.key \in Keys(Top.visitor)
  /\ Seen(Top, Key.key) \/ ~Key.sound
  /\ Fail("Err")

(* The value under an unknown key is left unread: buffered Content drops   *)
(* it, and a stream is then not where the next key should be.              *)
UnknownField ==
  /\ Reading /\ stack # <<>> /\ ~Top.listing
  /\ Top.next \in DOMAIN Top.fields
  /\ Key.key \notin Keys(Top.visitor)
  /\ IF streamed THEN Fail("Err") ELSE Proceed(Top) /\ Unchanged

(* The end of visit_map; only a tuple's member needs no name. *)
Complete(frame) ==
  IF frame.kind = <<>> \/ (frame.name = <<>> /\ frame.visitor # "TupleParam") THEN Err
  ELSE set_tuple_components(frame.kind[1], frame.components)

ParamOf(frame, kind) ==
  [name |-> frame.name, kind |-> <<kind>>, internal_type |-> frame.internal_type,
   indexed |-> IF frame.visitor # "EventParam" \/ frame.indexed # <<>>
               THEN frame.indexed ELSE <<FALSE>>]

EndMap ==
  /\ Reading /\ stack # <<>>
  /\ ~Top.listing /\ Top.next \notin DOMAIN Top.fields
  /\ LET kind == Complete(Top)
     IN  \/ ~IsOk(kind) /\ Fail("Err")
         \/ /\ IsOk(kind) /\ Len(stack) > 1
            /\ stack' = [i \in 1..(Len(stack) - 1) |->
                           IF i < Len(stack) - 1 THEN stack[i]
                           ELSE [stack[i] EXCEPT !.got = Append(@, kind.val)]]
            /\ Unchanged
         \/ /\ IsOk(kind) /\ Len(stack) = 1
            /\ param' = ParamOf(Top, kind.val) /\ stack' = <<>>
            /\ phase' = IF phase = "read" THEN "written" ELSE "done"
            /\ UNCHANGED <<source, streamed, first>>

-----------------------------------------------------------------------------
(* Serialize. *)

Optional(option, key) == IF option = <<>> THEN <<>> ELSE <<TextField(key, option[1])>>

TypeField(kind) == TextField("type", write_for_abi(kind, FALSE))

(* SerializeableParamVec: of a component only the type is known. *)
RECURSIVE ComponentsOf(_)
ComponentsOf(kind) ==
  IF inner_tuple(kind) = <<>> THEN <<>>
  ELSE LET members == inner_tuple(kind)[1]
       IN  <<ListField("components",
               [i \in DOMAIN members |-> <<TypeField(members[i])>> \o ComponentsOf(members[i])])>>

(* A mutant: the components of an array of tuples are not written. *)
serialize_direct(visitor, p) ==
  Optional(p.internal_type, "internalType") \o Optional(p.name, "name")
    \o <<TypeField(p.kind[1])>>
    \o (IF visitor = "EventParam" THEN <<FlagField("indexed", p.indexed[1])>> ELSE <<>>)
    \o (IF p.kind[1].kind = "Tuple" THEN ComponentsOf(p.kind[1]) ELSE <<>>)

serialize(visitor, p) ==
  Optional(p.internal_type, "internalType") \o Optional(p.name, "name")
    \o <<TypeField(p.kind[1])>>
    \o (IF visitor = "EventParam" THEN <<FlagField("indexed", p.indexed[1])>> ELSE <<>>)
    \o ComponentsOf(p.kind[1])

WriteAndReread ==
  /\ phase = "written"
  /\ stack' = <<Frame(source.visitor, serialize(source.visitor, param))>>
  /\ first' = param /\ param' = Nothing
  /\ phase' = "reread"
  /\ UNCHANGED <<source, streamed>>

-----------------------------------------------------------------------------
Init ==
  /\ source \in Objects /\ streamed \in BOOLEAN
  /\ stack = <<Frame(source.visitor, source.fields)>>
  /\ phase = "read" /\ param = Nothing /\ first = Nothing

Next ==
  \/ ReadName \/ ReadType \/ ReadInternalType \/ ReadIndexed
  \/ ReadComponents \/ OpenComponent \/ EndComponents
  \/ RefuseField \/ UnknownField \/ EndMap
  \/ WriteAndReread

Spec == Init /\ [][Next]_vars

-----------------------------------------------------------------------------
(* The variables have their types: visitors are open exactly while an      *)
(* object is read, and only the innermost one is not in its components.    *)
TypeOK ==
  /\ phase \in {"read", "written", "reread", "done"} \cup Failures
  /\ streamed \in BOOLEAN
  /\ Reading <=> stack # <<>>
  /\ \A k \in DOMAIN stack :
       /\ stack[k].visitor \in Visitors
       /\ stack[k].next \in 1..(Len(stack[k].fields) + 1)
       /\ k < Len(stack) => stack[k].listing
       /\ k > 1 => stack[k].visitor = "TupleParam"

-----------------------------------------------------------------------------
(* What an object means, by its keys and not by their order. *)

Under(fields, key) == {i \in DOMAIN fields : fields[i].key = key}

Has(fields, key)   == Under(fields, key) # {}
FieldOf(fields, key) == fields[CHOOSE i \in Under(fields, key) : TRUE]

RECURSIVE Meaning(_, _), Filled(_, _)

(* The kind with the members of its tuple in place. *)
Filled(kind, members) ==
  CASE kind.kind \in {"Array", "FixedArray"} ->
         ParamType(kind.kind, kind.size, <<Filled(kind.subs[1], members)>>)
    [] kind.kind = "Tuple" -> TupleT(kind.subs \o members)
    [] OTHER -> kind

(* The kind that the object stands for: not Ok if the object is ill-formed *)
(* at any depth.                                                           *)
Meaning(visitor, fields) ==
  LET keys     == {fields[i].key : i \in DOMAIN fields}
      kind     == read(FieldOf(fields, "type").text)
      parts    == IF ~Has(fields, "components") THEN <<>>
                  ELSE LET es == FieldOf(fields, "components").elements
                       IN  [i \in DOMAIN es |-> Meaning("TupleParam", es[i])]
  IN  IF /\ \A key \in keys \cap Keys(visitor) :
              Cardinality(Under(fields, key)) = 1 /\ FieldOf(fields, key).sound
         /\ streamed => keys \subseteq Keys(visitor)
         /\ Has(fields, "type") /\ IsOk(kind)
         /\ \A i \in DOMAIN parts : IsOk(parts[i])
         /\ visitor # "TupleParam" => Has(fields, "name")
         /\ inner_tuple(kind.val) # <<>> => Has(fields, "components")
      THEN Ok(Filled(kind.val, [i \in DOMAIN parts |-> parts[i].val]))
      ELSE Err

Expected ==
  LET fields == source.fields
      text(key) == IF Has(fields, key) THEN <<FieldOf(fields, key).text>> ELSE <<>>
      event  == source.visitor = "EventParam"
  IN  [name |-> text("name"),
       kind |-> <<Meaning(source.visitor, fields).val>>,
       internal_type |-> IF event THEN <<>> ELSE text("internalType"),
       indexed |-> IF event THEN <<Has(fields, "indexed") /\ FieldOf(fields, "indexed").flag>>
                            ELSE <<>>]

(* Whatever the order of the fields, at every depth, an object is read iff *)
(* it is well-formed, and gives the parameter that its keys name: no       *)
(* visitor takes a field of another, and the components end up in the      *)
(* tuple behind all dimensions, in their order.                            *)
OrderIrrelevant ==
  /\ phase = "written" =>
       IsOk(Meaning(source.visitor, source.fields)) /\ param = Expected
  /\ phase \in Failures => ~IsOk(Meaning(source.visitor, source.fields))

(* A parameter that is serialized is read again, as the same parameter,    *)
(* although its tuples are written as a word and a list.                   *)
ReloadsSame == /\ phase = "done" => param = first
               /\ first # Nothing => phase \notin Failures

RECURSIVE Texts(_)
Texts(fields) == UNION {
  {fields[i].text} \cup UNION {Texts(fields[i].elements[j]) : j \in DOMAIN fields[i].elements} :
  i \in DOMAIN fields}

Structure == {"(", ")", "[", "]", ","}

(* Each "]" ends a dimension: a "[" and a number, or nothing, before it. *)
DimensionsClosed(s) ==
  \A k \in DOMAIN s : s[k] = "]" =>
    \E j \in 1..(k - 1) : /\ s[j] = "["
                          /\ \A i \in (j + 1)..(k - 1) : s[i] \notin Structure

(* Reading an ABI panics on no text that is ASCII and has its dimensions   *)
(* closed, however its parentheses and commas are mixed up.                *)
PanicsOnlyUnclosed ==
  phase = "Panic" => \E s \in Texts(source.fields) : ~IsAscii(s) \/ ~DimensionsClosed(s)

-----------------------------------------------------------------------------
(* A tuple in a tuple is read back from its name; one that is deeper, or   *)
(* empty, is not, unless it is the last one.                               *)
RECURSIVE Depth(_)
Depth(t) ==
  (IF t.kind = "Tuple" THEN 1 ELSE 0)
    + Max({0} \cup {Depth(t.subs[i]) : i \in DOMAIN t.subs})

RECURSIVE HasEmpty(_)
HasEmpty(t) == \/ t.kind = "Tuple" /\ t.subs = <<>>
               \/ \E i \in DOMAIN t.subs : HasEmpty(t.subs[i])

NameReadsBack == phase = "written" => read(write(param.kind[1])) = Ok(param.kind[1])

(* The name that a signature or the command line gives a type is read as   *)
(* that type, if no tuple is empty and none is nested twice.               *)
ShallowReadsBack ==
  phase = "written" /\ ~HasEmpty(param.kind[1]) /\ Depth(param.kind[1]) <= 2
    => NameReadsBack

(* Reader is to "build the nested tuple structure" (reader.rs) of a name,  *)
(* however deep; module MCParamJson has a counterexample.                  *)
NestedReadsBack ==
  phase = "written" /\ ~HasEmpty(param.kind[1]) => NameReadsBack
=============================================================================
