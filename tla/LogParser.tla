----------------------------- MODULE LogParser -----------------------------
(***************************************************************************)
(* parse_log and parse_log_validate (event.rs) call the decoder twice, on  *)
(* the topics laid end to end and on the data; the steps of these calls    *)
(* are those of the machine of module Decoder.                             *)
(***************************************************************************)
EXTENDS Decoder, Events

CONSTANT Sessions    \* an event and a log: the arguments of a call

(* The bytes of the topics, and the data, are slices. *)
ASSUME SessionsAssumption ==
  \A s \in Sessions :
    /\ s.event.inputs \in Seq(EventParam) /\ s.event.anonymous \in BOOLEAN
    /\ s.log.topics \in Seq(Hash) /\ 2 * (WordLen * Len(s.log.topics)) < UsizeSize
    /\ s.log.data \in Seq(Byte) /\ 2 * Len(s.log.data) < UsizeSize
    /\ s.log = [topics |-> s.log.topics, data |-> s.log.data]

(* A topic of a reference type is read as a whole word of bytes. *)
ASSUME TopicAssumption == FixedBytesT(WordLen) \in ParamTypes

VARIABLES
  event,     \* name, inputs (name, kind, indexed) and anonymous
  log,       \* the RawLog
  phase,     \* "log", "topics", "data" or "done"
  topic_tokens,
  parsed     \* what parse_log returned

logVars    == <<event, log, phase, topic_tokens, parsed>>
parserVars == <<vars, logVars>>

-----------------------------------------------------------------------------
(* The decoder is called with these types on these bytes. *)
CallDecode(ts, d) ==
  /\ types' = ts /\ data' = d
  /\ status' = "start" /\ stack' = <<>> /\ acc' = <<>>
  /\ UNCHANGED validate

Fail(outcome) ==
  /\ parsed' = [status |-> outcome, val |-> <<>>]
  /\ phase' = "done"
  /\ UNCHANGED <<vars, event, log, topic_tokens>>

OwnSignature ==
  event.anonymous \/ (log.topics # <<>> /\ log.topics[1] = signature(event))

ParseLog ==
  /\ phase = "log"
  /\ \/ ~OwnSignature /\ Fail("Err")
     \/ /\ OwnSignature
        /\ CallDecode(topic_types(event), flat_topics(event, log))
        /\ phase' = "topics"
        /\ UNCHANGED <<event, log, topic_tokens, parsed>>

DecoderStep ==
  /\ phase \in {"topics", "data"}
  /\ Next
  /\ UNCHANGED logVars

(* A mutant: topics may be left over. *)
Accounted_always(tokens) == TRUE

(* A topic may be only one word: there is one token for each. *)
Accounted(tokens) == Len(tokens) = Len(log.topics) - to_skip(event)

DecodeTopics ==
  /\ phase = "topics" /\ status \in Outcomes
  /\ \/ status # "Ok" /\ Fail(status)
     \/ status = "Ok" /\ ~Accounted(acc[1]) /\ Fail("Err")
     \/ /\ status = "Ok" /\ Accounted(acc[1])
        /\ topic_tokens' = acc[1]
        /\ CallDecode(data_types(event), log.data)
        /\ phase' = "data"
        /\ UNCHANGED <<event, log, parsed>>

DecodeData ==
  /\ phase = "data" /\ status \in Outcomes
  /\ \/ status # "Ok" /\ Fail(status)
     \/ /\ status = "Ok"
        /\ parsed' = decoded_params(event, named_tokens(
                       named(indexed_params(event, TRUE), topic_tokens)
                         \o named(indexed_params(event, FALSE), acc[1])))
        /\ phase' = "done"
        /\ UNCHANGED <<vars, event, log, topic_tokens>>

-----------------------------------------------------------------------------
NoResult == [status |-> "none", val |-> <<>>]

ParserInit ==
  /\ \E s \in Sessions : event = s.event /\ log = s.log
  /\ parsed = NoResult
  /\ phase = "log" /\ topic_tokens = <<>>
  /\ types = <<>> /\ data = <<>> /\ validate \in BOOLEAN
  /\ stack = <<>> /\ acc = <<>> /\ status = "start"

ParserNext == ParseLog \/ DecoderStep \/ DecodeTopics \/ DecodeData

ParserSpec == ParserInit /\ [][ParserNext]_parserVars
-----------------------------------------------------------------------------
DistinctNames ==
  \A i, j \in DOMAIN event.inputs :
    event.inputs[i].name = event.inputs[j].name => i = j

(* The types whose values stand in a topic themselves. *)
IsValue(kind) == kind.kind \in {"Address", "Int", "Uint", "Bool", "FixedBytes"}

(* No log whatever makes parse_log panic: each name that it looks up has a *)
(* token, and the decoder does not panic on topics laid end to end.        *)
ParseNeverPanics == parsed.status # "Panic"

(* What parse_log returns follows the declaration, whatever the log holds: *)
(* every topic is some parameter's, and each value has the variant of its  *)
(* parameter, or is bytes for a reference type in a topic.                 *)
ParamsFollowInputs ==
  parsed.status = "Ok" /\ DistinctNames =>
    /\ Len(log.topics) = to_skip(event) + Len(indexed_params(event, TRUE))
    /\ Len(parsed.val) = Len(event.inputs)
    /\ \A i \in DOMAIN parsed.val :
         LET p == event.inputs[i]
         IN  /\ parsed.val[i].name = p.name
             /\ parsed.val[i].value.kind =
                  IF p.indexed /\ ~IsValue(p.kind) THEN "FixedBytes" ELSE p.kind.kind
=============================================================================
