------------------------------ MODULE LogSpec ------------------------------
(***************************************************************************)
(* What a contract emits, and how a node selects logs: the Solidity ABI    *)
(* specification's "Events" and "Encoding of indexed event parameters",    *)
(* stated apart from the code.  Events are those of module EventLog.       *)
(***************************************************************************)
EXTENDS AbiSpec, Hashes

ValueKinds == {"Address", "Int", "Uint", "Bool", "FixedBytes"}

(* Indexed arrays and tuples are hashed element after element, each padded *)
(* to a word, without offsets and lengths; bytes and strings as they are.  *)
in_place[t \in ParamTypes] == [token \in Tokens |->
  CASE t.kind \in ValueKinds          -> enc[t][token]
    [] t.kind \in {"Bytes", "String"} -> PadRight(token.val)
    [] OTHER -> FlattenSeq([i \in DOMAIN token.subs |->
                              in_place[TypeOf(t, i)][token.subs[i]]])]

TopicOf(token, t) ==
  CASE t.kind \in ValueKinds          -> enc[t][token]
    [] t.kind \in {"Bytes", "String"} -> Keccak(token.val)
    [] OTHER                          -> Keccak(in_place[t][token])

Kind(event)  == [i \in DOMAIN event.inputs |-> event.inputs[i].kind]
Places(event, indexed) ==
  FlattenSeq([i \in DOMAIN event.inputs |->
                IF event.inputs[i].indexed = indexed THEN <<i>> ELSE <<>>])

(* The log of an event with these values. *)
Emission(event, values) ==
  LET ins  == Places(event, TRUE)
      outs == Places(event, FALSE)
  IN  [ topics |->
          (IF event.anonymous THEN <<>>
                              ELSE <<Signature(event.name, Kind(event))>>)
            \o [k \in DOMAIN ins |-> TopicOf(values[ins[k]], Kind(event)[ins[k]])],
        data   |-> EncAll([k \in DOMAIN outs |-> values[outs[k]]],
                          [k \in DOMAIN outs |-> Kind(event)[outs[k]]]) ]

(* A node selects a log whose topics are among the accepted ones. *)
Selects(filter, topics) ==
  \A k \in DOMAIN filter :
    \/ filter[k].kind = "Any"
    \/ k <= Len(topics) /\ topics[k] \in Range(filter[k].accepted)
=============================================================================
