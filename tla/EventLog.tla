------------------------------ MODULE EventLog ------------------------------
(***************************************************************************)
(* Events (event.rs, filter.rs) with their user, who computes a topic      *)
(* filter and then has a log parsed, as module LogParser does it.          *)
(***************************************************************************)
EXTENDS LogParser, Filters, LogSpec

VARIABLES
  raw,       \* the RawTopicFilter: three topics over tokens
  origin,    \* the values the log was emitted with, if it was
  filter     \* what Event::filter returned

everything == <<parserVars, raw, origin, filter>>

(* An emitted log is what the event's contract makes of some values, each  *)
(* bytesN with its N bytes.                                                *)
ASSUME EmittedAssumption ==
  \A s \in Sessions : s.origin.emitted =>
    LET inputs == s.event.inputs
        values == s.origin.values
    IN  /\ values \in Seq(Tokens) /\ Len(values) = Len(inputs)
        /\ \A i \in DOMAIN inputs : Settled(inputs[i].kind, values[i])
        /\ s.log = Emission(s.event, values)

(* A RawTopicFilter. *)
ASSUME RawAssumption ==
  \A s \in Sessions : DOMAIN s.raw = 1..3 /\ \A k \in 1..3 :
    \/ s.raw[k] = AnyTopic
    \/ s.raw[k] = OneOf(s.raw[k].accepted) /\ s.raw[k].accepted \in Seq(Tokens)

-----------------------------------------------------------------------------
Filter ==
  /\ phase = "log" /\ filter = NoResult
  /\ filter' = topic_filter(event, raw)
  /\ UNCHANGED <<parserVars, raw, origin>>

Parse ==
  /\ filter # NoResult
  /\ ParserNext
  /\ UNCHANGED <<raw, origin, filter>>

(* A session is an event, a log, and what the user filters for. *)
EventInit ==
  /\ \E s \in Sessions : /\ event = s.event /\ log = s.log
                         /\ raw = s.raw /\ origin = s.origin
  /\ filter = NoResult /\ parsed = NoResult
  /\ phase = "log" /\ topic_tokens = <<>>
  /\ types = <<>> /\ data = <<>> /\ validate \in BOOLEAN
  /\ stack = <<>> /\ acc = <<>> /\ status = "start"

EventNext == Filter \/ Parse

EventSpec == EventInit /\ [][EventNext]_everything
-----------------------------------------------------------------------------
IndexedKinds == {p.kind : p \in Range(indexed_params(event, TRUE))}
DataKinds    == {p.kind : p \in Range(indexed_params(event, FALSE))}

(* What remains in the log of the value of a parameter. *)
Seen(i) ==
  LET p == event.inputs[i]
  IN  IF p.indexed /\ ~IsValue(p.kind)
      THEN Token("FixedBytes", TopicOf(origin.values[i], p.kind), <<>>)
      ELSE origin.values[i]

AllRetrieved ==
  parsed = Ok([i \in DOMAIN event.inputs |-> LogParam(event.inputs[i].name, Seen(i))])

(* Its lengths and offsets are u32. *)
LogFits ==
  /\ Len(flat_topics(event, log)) < U32 + WordLen
  /\ Len(log.data) < U32 + WordLen

(* decode refuses no bytes, unless all types are known to have none. *)
DataReadable == log.data = <<>> => \A t \in DataKinds : is_empty_bytes_valid_encoding(t)

(* A log that the event's contract emitted is parsed to its values in the  *)
(* order of their declaration, however indexed parameters and the others   *)
(* are mixed in it; parse_log_validate does so where the data has no tail. *)
ParsesEmission ==
  /\ origin.emitted /\ phase = "done" /\ DistinctNames
  /\ LogFits /\ DataReadable
  /\ validate => DataKinds \cap DynamicTypes = {}
  => AllRetrieved

(* parse_log_validate "checks, that decoded data is exact as input         *)
(* provided" (event.rs): where no value holds a boolean, is hashed or is   *)
(* in a tail, the log it accepts is the emission of the values it returns. *)
StrictLogExact ==
  /\ parsed.status = "Ok" /\ validate /\ DistinctNames
  /\ \A kind \in IndexedKinds : IsValue(kind)
  /\ \A kind \in IndexedKinds \cup DataKinds : ~has_bool[kind]
  /\ DataKinds \cap DynamicTypes = {}
  => log = Emission(event, [i \in DOMAIN parsed.val |-> parsed.val[i].value])

(* The raw filter accepts these values of the indexed parameters. *)
RawSelects ==
  LET places == Places(event, TRUE)
  IN  \A k \in DOMAIN raw :
        raw[k].kind = "OneOf" => origin.values[places[k]] \in Range(raw[k].accepted)

FilterAgrees ==
  origin.emitted /\ filter.status = "Ok" =>
    (Selects(filter.val, log.topics) <=> RawSelects)

(* Each bytesN is asked for with its N bytes, for instance: a shorter one  *)
(* passes for it.                                                          *)
AsksForValues ==
  LET kinds == KindsOf(indexed_params(event, TRUE))
  IN  \A k \in DOMAIN raw \cap DOMAIN kinds : \A v \in Range(raw[k].accepted) :
        v.kind = kinds[k].kind => Settled(kinds[k], v)

(* The filter made of some values selects, of the event's logs, those that *)
(* were emitted with these values and no other.                            *)
FilterSelects ==
  AsksForValues /\ (\A kind \in IndexedKinds : IsValue(kind)) => FilterAgrees

(* "Retrieves all log params" (event.rs), whatever their names are; module *)
(* MCEventLog has a counterexample.                                        *)
RetrievesAll ==
  origin.emitted /\ phase = "done" /\ ~validate => AllRetrieved

(* Topics "follow the encoding of these indexed param types" of Solidity   *)
(* (event.rs), in filters too; module MCEventLog has a counterexample.     *)
FilterSelectsReferences == FilterAgrees
=============================================================================
