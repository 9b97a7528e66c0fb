------------------------------ MODULE Filters ------------------------------
(***************************************************************************)
(* The topic filter of an event (event.rs, filter.rs): each value of an    *)
(* indexed parameter that is asked for becomes a topic, hashed if its      *)
(* encoding is not one word.                                               *)
(***************************************************************************)
EXTENDS Encoder, Events

(* Topic: any value, or one of these; This(t) is OneOf(<<t>>). *)
AnyTopic  == [kind |-> "Any", accepted |-> <<>>]
OneOf(vs) == [kind |-> "OneOf", accepted |-> vs]

convert_token(token, kind) ==
  LET encoded == encode(<<token>>)
  IN  CASE type_check[token][kind] = "no"    -> Err
        [] type_check[token][kind] = "panic" -> Panic
        [] type_check[token][kind] = "yes"   ->
             Ok(IF Len(encoded) = WordLen THEN encoded ELSE Keccak(encoded))

(* kinds.get(k): the k-th indexed parameter may not exist. *)
convert_topic(topic, kinds, k) ==
  IF topic.kind = "Any" THEN Ok(AnyTopic)
  ELSE IF k \notin DOMAIN kinds THEN Err
  ELSE AndThen(Collect([i \in DOMAIN topic.accepted |->
                          convert_token(topic.accepted[i], kinds[k])]),
               LAMBDA encoded : Ok(OneOf(encoded)))

(* A mutant: an anonymous event keeps its first topic free. *)
topic_filter_shifted(e, r) ==
  LET kinds == KindsOf(indexed_params(e, TRUE))
  IN  AndThen(Collect([k \in 1..3 |-> convert_topic(r[k], kinds, k)]), LAMBDA topics :
        Ok(<<IF e.anonymous THEN AnyTopic ELSE OneOf(<<signature(e)>>)>> \o topics))

topic_filter(e, r) ==
  LET kinds == KindsOf(indexed_params(e, TRUE))
  IN  AndThen(Collect([k \in 1..3 |-> convert_topic(r[k], kinds, k)]), LAMBDA topics :
        Ok(IF e.anonymous THEN topics \o <<AnyTopic>>
                          ELSE <<OneOf(<<signature(e)>>)>> \o topics))
=============================================================================
