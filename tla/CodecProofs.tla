---------------------------- MODULE CodecProofs ----------------------------
(***************************************************************************)
(* The proofs about sessions: that in their rounds the data and the tokens *)
(* are what module EncodingProofs shows them to be.                        *)
(***************************************************************************)
EXTENDS Codec, EncodingProofs

-----------------------------------------------------------------------------
(* The rounds of a session. *)

(* No reservation fails, so that Err tells something about the data. *)
Roomy == ~MayRunOut /\ \A call \in Calls : Len(call.types) <= AllocLimit

(* What the lax round has read is all that there is to read. *)
LaxHasRead ==
  \A no \in BOOLEAN : ~no /\ Abstract!Decoded(types, data, no).defined =>
    results["lax"] = Result("Ok", Abstract!Decoded(types, data, no).val)

SInv ==
  /\ types \in Seq(ParamTypes) /\ Asked
  /\ results = [r \in Rounds |-> results[r]]
  /\ round \in Rounds \cup {"done"}
  /\ round = "call" =>
       \E call \in Calls : types = call.types /\ sent = call.tokens
  /\ round \in {"lax", "strict"} =>
       VInv /\ Answered /\ (validate <=> round = "strict")
  /\ round = "strict" => LaxHasRead
  /\ round \in {"call", "lax", "strict"} => results["strict"] = NotYet
  /\ round \in {"again", "done"} => StrictRefinesLax

(* A round begins with a call of the decoder. *)
LEMMA RoundStarts ==
  ASSUME types \in Seq(ParamTypes), Asked, NEW d \in Seq(Byte), 2 * Len(d) < UsizeSize,
         NEW strict \in BOOLEAN, CallDecoder(d, strict)
  PROVE  VInv' /\ Answered' /\ types' = types /\ data' = d /\ validate' = strict
  <1>1. /\ types' = types /\ data' = d /\ validate' = strict
        /\ stack' = <<>> /\ acc' = <<>> /\ status' = "start"
    BY DEF CallDecoder
  <1> QED
    BY <1>1, CallStarts DEF Asked

(* A session begins with a call or with data. *)
LEMMA SessionBegins == ASSUME Roomy PROVE SessionInit => SInv
  <1> SUFFICES ASSUME SessionInit PROVE SInv
    OBVIOUS
  <1>1. /\ results = [r \in Rounds |-> results[r]] /\ results["strict"] = NotYet
        /\ validate = FALSE /\ status = "start" /\ stack = <<>> /\ acc = <<>>
    BY DEF SessionInit, Rounds
  <1>2. CASE InitCall
    <2>1. PICK call \in Calls : types = call.types /\ sent = call.tokens
      BY <1>2 DEF InitCall
    <2>2. types \in Seq(ParamTypes) /\ Asked
      BY <2>1, CallsAssumption DEF Roomy, Asked
    <2> QED
      BY <1>1, <1>2, <2>1, <2>2 DEF InitCall, SInv, Rounds
  <1>3. CASE InitReceived
    <2>1. Init /\ round = "lax"
      BY <1>1, <1>3, Zenon DEF InitReceived, Init
    <2>2. VInv
      BY <2>1, InitValues
    <2>3. types \in Seq(ParamTypes) /\ Asked
      BY <2>2 DEF VInv, HInv, TInv, IInv, TypeOK
    <2>4. Answered
      BY <1>1 DEF Answered
    <2> QED
      BY <1>1, <2>1, <2>2, <2>3, <2>4 DEF SInv, Rounds
  <1> QED
    BY <1>2, <1>3 DEF SessionInit

(* Every step of a session keeps the invariant. *)
LEMMA SessionStep ==
  ASSUME Wide, Roomy, SInv, [SessionNext]_allVars
  PROVE  SInv'
  <1> USE DEF Rounds
  <1>1. CASE EncodeInput
    <2>1. /\ round = "call" /\ results["strict"] = NotYet
          /\ types \in Seq(ParamTypes) /\ Asked
          /\ results = [r \in Rounds |-> results[r]]
      BY <1>1 DEF EncodeInput, SInv
    <2>2. PICK call \in Calls : types = call.types /\ sent = call.tokens
      BY <2>1 DEF SInv
    <2>3. CASE types_check(sent, types) = "yes"
      <3>1. /\ CallDecoder(encode(sent), FALSE) /\ round' = "lax"
            /\ Conclude("call", Result("Ok", sent))
        BY <1>1, <2>3, Zenon DEF EncodeInput
      <3>2. encode(sent) \in Seq(Byte) /\ 2 * Len(encode(sent)) < UsizeSize
        BY <2>2, <2>3, CallsAssumption
      <3>3. VInv' /\ Answered' /\ types' = types /\ ~validate'
        BY <2>1, <3>1, <3>2, RoundStarts, Zenon
      <3>4. results' = [r \in Rounds |-> results'[r]] /\ results'["strict"] = NotYet
        BY <2>1, <3>1, Zenon DEF Conclude
      <3>5. Asked'
        BY <2>1, <3>3 DEF Asked
      <3> QED
        BY <2>1, <3>1, <3>3, <3>4, <3>5 DEF SInv
    <2>4. CASE types_check(sent, types) # "yes"
      <3>1. UNCHANGED vars /\ round' = "done" /\ results'["strict"] = NotYet
            /\ results' = [r \in Rounds |-> results'[r]]
        BY <1>1, <2>1, <2>4, Zenon DEF EncodeInput, Conclude
      <3>2. types' = types /\ Asked'
        BY <2>1, <3>1 DEF vars, Asked
      <3>3. StrictRefinesLax'
        BY <3>1 DEF StrictRefinesLax, NotYet, Result
      <3> QED
        BY <2>1, <3>1, <3>2, <3>3 DEF SInv
    <2> QED
      BY <2>3, <2>4
  <1>2. CASE DecoderStep
    <2>1. /\ round \in {"lax", "strict", "again"} /\ Next
          /\ UNCHANGED <<sent, called, round, results>>
      BY <1>2 DEF DecoderStep, session
    <2>2. UNCHANGED <<types, validate>>
      BY <2>1, Zenon DEF Next, Start, DecodeAddress, DecodeInt, DecodeBool, DecodeFixedBytes,
                  DecodeBytes, DecodeString, DecodeArray, DecodeStaticComponents,
                  DecodeDynamicComponents, Leave, Finish, Take, Deliver, Return, Open,
                  TryOpen, OpenComponents
    <2>3. CASE round \in {"lax", "strict"}
      <3>1. VInv' /\ Answered' /\ data' = data
        BY <2>1, <2>3, CallContinues DEF SInv, Roomy
      <3>2. round = "strict" => LaxHasRead'
        BY <2>1, <2>2, <3>1 DEF SInv, LaxHasRead
      <3> QED
        BY <2>1, <2>2, <2>3, <3>1, <3>2 DEF SInv, Asked
    <2>4. CASE round = "again"
      BY <2>1, <2>2, <2>4 DEF SInv, Asked, StrictRefinesLax
    <2> QED
      BY <2>1, <2>3, <2>4
  <1>3. CASE Validate
    <2>1. /\ round = "lax" /\ status \in Outcomes /\ round' = "strict"
          /\ Conclude("lax", Returned) /\ CallDecoder(data, TRUE)
      BY <1>3 DEF Validate
    <2>2. /\ VInv /\ Answered /\ ~validate /\ results["strict"] = NotYet
          /\ types \in Seq(ParamTypes) /\ Asked
          /\ results = [r \in Rounds |-> results[r]]
      BY <2>1 DEF SInv
    <2>3. data \in Seq(Byte) /\ 2 * Len(data) < UsizeSize /\ status # "Panic"
      BY <2>2 DEF VInv, HInv, TInv, IInv, TypeOK, DataFits, NoPanic
    <2>4. VInv' /\ Answered' /\ types' = types /\ data' = data /\ validate'
      BY <2>1, <2>2, <2>3, RoundStarts, Zenon
    <2>5. /\ results' = [r \in Rounds |-> results'[r]] /\ results'["strict"] = NotYet
          /\ results'["lax"] = Returned
      BY <2>1, <2>2, Zenon DEF Conclude
    <2>6. ASSUME NEW no \in BOOLEAN, ~no, Abstract!Decoded(types, data, no).defined
          PROVE  Returned = Result("Ok", Abstract!Decoded(types, data, no).val)
      <3>1. no = validate
        BY <2>2, <2>6 DEF VInv, HInv, TInv, IInv, TypeOK
      <3>2. Abstract!Decoded(types, data, validate).defined
            /\ Abstract!Decoded(types, data, no).val
                 = Abstract!Decoded(types, data, validate).val
        BY <2>6, <3>1
      <3>3. status = "Ok"
        BY <2>1, <2>2, <2>3, <3>2 DEF Answered, Outcomes
      <3> QED
        BY <2>2, <3>2, <3>3 DEF Answered, Returned
    <2>7. LaxHasRead'
      BY <2>4, <2>5, <2>6 DEF LaxHasRead
    <2>8. Asked'
      BY <2>2, <2>4 DEF Asked
    <2> QED
      BY <2>1, <2>2, <2>4, <2>5, <2>7, <2>8 DEF SInv
  <1>4. CASE EncodeAgain
    <2>1. /\ round = "strict" /\ round' \in {"again", "done"} /\ types' = types
          /\ Conclude("strict", Returned)
      BY <1>4 DEF EncodeAgain, CallDecoder, vars
    <2>2. /\ VInv /\ Answered /\ validate /\ LaxHasRead
          /\ types \in Seq(ParamTypes) /\ Asked
          /\ results = [r \in Rounds |-> results[r]]
      BY <2>1 DEF SInv
    <2>3. /\ results' = [r \in Rounds |-> results'[r]]
          /\ results'["strict"] = Returned /\ results'["lax"] = results["lax"]
      BY <2>1, <2>2, Zenon DEF Conclude
    <2>4. ASSUME status = "Ok"
          PROVE  Returned = results["lax"]
      <3>1. /\ Abstract!Decoded(types, data, validate).defined
            /\ Abstract!Decoded(types, data, validate).val = acc[1]
            /\ data \in Seq(Byte) /\ validate = TRUE
        BY <2>2, <2>4, Zenon DEF Answered, VInv, HInv, TInv, IInv, TypeOK
      <3>2. PICK no \in BOOLEAN : no = FALSE
        BY Zenon
      <3>3. Abstract!Decoded(types, data, no) = Abstract!Decoded(types, data, validate)
        BY <2>2, <3>1, <3>2, StrictDecoded
      <3>4. results["lax"] = Result("Ok", acc[1])
        BY <2>2, <3>1, <3>2, <3>3, Zenon DEF LaxHasRead
      <3> QED
        BY <2>4, <3>4 DEF Returned
    <2>5. StrictRefinesLax'
      BY <2>3, <2>4 DEF StrictRefinesLax, Returned, Result
    <2>6. Asked'
      BY <2>1, <2>2 DEF Asked
    <2> QED
      BY <2>1, <2>2, <2>3, <2>5, <2>6 DEF SInv
  <1>5. CASE Conclusion
    <2>1. /\ round = "again" /\ round' = "done" /\ types' = types
          /\ Conclude("again", Returned)
      BY <1>5 DEF Conclusion, vars
    <2>2. /\ results' = [r \in Rounds |-> results'[r]]
          /\ results'["strict"] = results["strict"] /\ results'["lax"] = results["lax"]
      BY <2>1, Zenon DEF Conclude, SInv
    <2> QED
      BY <2>1, <2>2 DEF SInv, Asked, StrictRefinesLax
  <1>6. CASE UNCHANGED allVars
    <2>1. UNCHANGED vars /\ UNCHANGED <<sent, called, round, results>>
      BY <1>6 DEF allVars, session
    <2>2. UNCHANGED <<types, data, validate, stack, acc, status>>
      BY <2>1 DEF vars
    <2>3. round \in {"lax", "strict"} => VInv' /\ Answered'
      BY <2>1, CallContinues DEF SInv, Roomy
    <2>4. round = "strict" => LaxHasRead'
      BY <2>1, <2>2 DEF SInv, LaxHasRead
    <2> QED
      BY <2>1, <2>2, <2>3, <2>4 DEF SInv, Asked, StrictRefinesLax
  <1> QED
    BY <1>1, <1>2, <1>3, <1>4, <1>5, <1>6 DEF SessionNext

(* decode_validate only refuses more: for all types, all data and all      *)
(* callers, what it accepts, decode accepts, and they read the same        *)
(* tokens, unless memory runs out in one of them.                          *)
THEOREM StrictAlwaysRefines ==
  ASSUME Wide, Roomy PROVE SessionSpec => []StrictRefinesLax
  <1>1. SessionInit => SInv
    BY SessionBegins
  <1>2. SInv /\ [SessionNext]_allVars => SInv'
    BY SessionStep
  <1>3. SInv => StrictRefinesLax
    BY DEF SInv, StrictRefinesLax, NotYet, Result, Rounds
  <1> QED
    BY <1>1, <1>2, <1>3, PTL DEF SessionSpec

-----------------------------------------------------------------------------
(* What a session has encoded. *)

(* What a caller is told of his tokens, and the data made of them. *)
EInv ==
  /\ results = [r \in Rounds |-> results[r]]
  /\ round \in Rounds \cup {"done"}
  /\ round = "call" =>
       /\ \E call \in Calls : types = call.types /\ sent = call.tokens
       /\ results["call"] = NotYet
  /\ Accepted =>
       /\ types \in Seq(ParamTypes) /\ sent \in Seq(Tokens) /\ Len(sent) = Len(types)
       /\ round \in {"lax", "strict"} => data = encode(sent)

(* A session begins with no caller, or with one that is told nothing yet.  *)
LEMMA EncodingBegins == ASSUME SessionInit PROVE EInv
  <1>1. /\ results = [r \in Rounds |-> results[r]] /\ results["call"] = NotYet
    BY DEF SessionInit, Rounds
  <1>2. ~Accepted
    BY <1>1 DEF Accepted, NotYet, Result
  <1>3. round \in {"call", "lax"} /\ (round = "call" => InitCall)
    BY DEF SessionInit, InitCall, InitReceived
  <1>4. round = "call" => \E call \in Calls : types = call.types /\ sent = call.tokens
    BY <1>3 DEF InitCall
  <1> QED
    BY <1>1, <1>2, <1>3, <1>4 DEF EInv, Rounds

(* Every step of a session keeps this. *)
LEMMA EncodingStep == ASSUME EInv, [SessionNext]_allVars PROVE EInv'
  <1> USE DEF Rounds
  <1>1. CASE EncodeInput
    <2>1. round = "call" /\ UNCHANGED <<sent, called>>
      BY <1>1 DEF EncodeInput
    <2>2. PICK call \in Calls : types = call.types /\ sent = call.tokens
      BY <2>1 DEF EInv
    <2>3. CASE types_check(sent, types) = "yes"
      <3>1. /\ CallDecoder(encode(sent), FALSE) /\ round' = "lax"
            /\ Conclude("call", Result("Ok", sent))
        BY <1>1, <2>3, Zenon DEF EncodeInput
      <3>2. /\ types \in Seq(ParamTypes) /\ sent \in Seq(Tokens)
            /\ Len(sent) = Len(types)
        BY <2>2, <2>3, CallsAssumption DEF types_check
      <3>3. types' = types /\ data' = encode(sent)
        BY <3>1 DEF CallDecoder
      <3>4. results' = [r \in Rounds |-> results'[r]]
        BY <3>1, Zenon DEF Conclude, EInv
      <3> QED
        BY <2>1, <3>1, <3>2, <3>3, <3>4 DEF EInv
    <2>4. CASE types_check(sent, types) # "yes"
      <3>1. round' = "done" /\ results'["call"].status # "Ok"
            /\ results' = [r \in Rounds |-> results'[r]]
        <4>1. /\ Conclude("call",
                   Result(IF types_check(sent, types) = "no" THEN "Err" ELSE "Panic", <<>>))
              /\ round' = "done"
          BY <1>1, <2>4, Zenon DEF EncodeInput
        <4>2. results' = [results EXCEPT !["call"] =
                   Result(IF types_check(sent, types) = "no" THEN "Err" ELSE "Panic", <<>>)]
          BY <4>1 DEF Conclude
        <4> QED
          BY <4>1, <4>2 DEF EInv, Result
      <3>2. ~Accepted'
        BY <3>1 DEF Accepted
      <3> QED
        BY <3>1, <3>2 DEF EInv
    <2> QED
      BY <2>3, <2>4
  <1>2. CASE DecoderStep
    <2>1. round \in {"lax", "strict", "again"} /\ Next
          /\ UNCHANGED <<sent, called, round, results>>
      BY <1>2 DEF DecoderStep, session
    <2>2. UNCHANGED <<types, data>>
      BY <2>1, SameQuestion
    <2> QED
      BY <2>1, <2>2 DEF EInv, Accepted
  <1>3. CASE Validate
    <2>1. /\ round = "lax" /\ round' = "strict" /\ Conclude("lax", Returned)
          /\ UNCHANGED <<types, data, sent, called>>
      BY <1>3 DEF Validate, CallDecoder
    <2>2. results' = [r \in Rounds |-> results'[r]] /\ results'["call"] = results["call"]
      BY <2>1, Zenon DEF Conclude, EInv
    <2> QED
      BY <2>1, <2>2 DEF EInv, Accepted
  <1>4. CASE EncodeAgain
    <2>1. /\ round = "strict" /\ round' \in {"again", "done"}
          /\ Conclude("strict", Returned) /\ UNCHANGED <<types, sent, called>>
      BY <1>4 DEF EncodeAgain, CallDecoder, vars
    <2>2. results' = [r \in Rounds |-> results'[r]] /\ results'["call"] = results["call"]
      BY <2>1, Zenon DEF Conclude, EInv
    <2> QED
      BY <2>1, <2>2 DEF EInv, Accepted
  <1>5. CASE Conclusion
    <2>1. /\ round = "again" /\ round' = "done"
          /\ Conclude("again", Returned) /\ UNCHANGED <<types, sent, called>>
      BY <1>5 DEF Conclusion, vars
    <2>2. results' = [r \in Rounds |-> results'[r]] /\ results'["call"] = results["call"]
      BY <2>1, Zenon DEF Conclude, EInv
    <2> QED
      BY <2>1, <2>2 DEF EInv, Accepted
  <1>6. CASE UNCHANGED allVars
    BY <1>6 DEF allVars, vars, session, EInv, Accepted
  <1> QED
    BY <1>1, <1>2, <1>3, <1>4, <1>5, <1>6 DEF SessionNext

(* Whatever the types, and whatever values of them a caller passes: the    *)
(* bytes that encode_input hands out are the encoding that the ABI         *)
(* defines, as long as a u32 holds its offsets.                            *)
THEOREM EncodingAlwaysCanonical == SessionSpec => []EncodingIsCanonical
  <1>1. SessionInit => EInv
    BY EncodingBegins
  <1>2. EInv /\ [SessionNext]_allVars => EInv'
    BY EncodingStep
  <1>3. EInv => EncodingIsCanonical
    <2> SUFFICES ASSUME EInv, Encodable, round \in {"lax", "strict"}
                 PROVE  data = EncAll(sent, types)
      BY DEF EncodingIsCanonical
    <2>1. /\ types \in Seq(ParamTypes) /\ sent \in Seq(Tokens) /\ Len(sent) = Len(types)
          /\ data = encode(sent)
      BY DEF EInv, Encodable
    <2>2. /\ \A i \in DOMAIN types : is_value[types[i]][sent[i]]
          /\ Len(EncAll(sent, types)) < U32 + WordLen
      <3>1. DOMAIN types = DOMAIN sent
        BY <2>1, LenProperties
      <3> QED
        BY <3>1 DEF Encodable, FitsU32
    <2> QED
      BY <2>1, <2>2, EncodeIsCanonical
  <1> QED
    BY <1>1, <1>2, <1>3, PTL DEF SessionSpec

-----------------------------------------------------------------------------
(* What a session has read of it. *)

(* The first half of StaticStrict. *)
StaticRoundTrip ==
  AllStatic /\ Decodable /\ results["strict"] # NotYet => results["strict"] = Meant

(* What the rounds have made of an encoding. *)
RInv ==
  /\ SInv /\ EInv
  /\ round \in {"call", "lax"} => results["lax"] = NotYet
  /\ RoundTrip /\ StaticRoundTrip

(* These depend on nothing but the caller and what he was told. *)
LEMMA SameCaller ==
  ASSUME UNCHANGED <<types, sent, called>>, results'["call"] = results["call"]
  PROVE  /\ Decodable' <=> Decodable
         /\ AllStatic' <=> AllStatic
         /\ Meant' = Meant
  <1>1. types' = types /\ sent' = sent /\ called' = called
    OBVIOUS
  <1>2. Accepted' <=> Accepted
    BY <1>1 DEF Accepted
  <1>3. FitsU32' <=> FitsU32
    BY <1>1 DEF FitsU32
  <1>4. Encodable' <=> Encodable
    BY <1>1, <1>2, <1>3 DEF Encodable
  <1>5. Decodable' <=> Decodable
    BY <1>1, <1>4 DEF Decodable
  <1>6. AllStatic' <=> AllStatic
    BY <1>1 DEF AllStatic
  <1>7. Meant' = Meant
    BY <1>1 DEF Meant
  <1> QED
    BY <1>5, <1>6, <1>7

(* The decoder returns what the caller meant: a lax one always, a strict   *)
(* one if all types are static.                                            *)
LEMMA ReturnsMeant ==
  ASSUME Decodable, EInv, SInv, round \in {"lax", "strict"}, status \in Outcomes,
         validate => AllStatic
  PROVE  Returned = Meant
  <1>1. /\ types \in Seq(ParamTypes) /\ sent \in Seq(Tokens) /\ Len(sent) = Len(types)
        /\ data = encode(sent)
    BY DEF EInv, Decodable, Encodable
  <1>2. DOMAIN sent = DOMAIN types
    BY <1>1, LenProperties
  <1>3. /\ \A i \in DOMAIN types : is_value[types[i]][sent[i]]
        /\ Len(EncAll(sent, types)) < U32 + WordLen
    BY <1>2 DEF Decodable, Encodable, FitsU32
  <1>4. data = EncAll(sent, types)
    BY <1>1, <1>3, EncodeIsCanonical
  <1>5. data = <<>> => \A i \in DOMAIN types : is_empty_bytes_valid_encoding(types[i])
    BY <1>1 DEF Decodable
  <1>6. VInv /\ Answered
    BY DEF SInv
  <1>7. validate \in BOOLEAN /\ status # "Panic"
    BY <1>6 DEF VInv, HInv, TInv, IInv, TypeOK, NoPanic
  <1>8. validate => \A i \in DOMAIN types : types[i] \notin DynamicTypes
    BY DEF AllStatic
  <1>9. Abstract!Decoded(types, data, validate)
          = Abstract!Some([i \in DOMAIN sent |-> as_read[types[i]][sent[i]]])
    BY <1>1, <1>3, <1>4, <1>5, <1>7, <1>8, DecodedIsMeant
  <1>10. \A v : Abstract!Some(v).defined /\ Abstract!Some(v).val = v
    BY Zenon DEF Abstract!Some
  <1>11. status = "Ok"
    BY <1>6, <1>7, <1>9, <1>10 DEF Answered, Outcomes
  <1>12. acc[1] = [i \in DOMAIN sent |-> as_read[types[i]][sent[i]]]
    BY <1>6, <1>9, <1>10, <1>11 DEF Answered
  <1> QED
    BY <1>11, <1>12 DEF Returned, Meant

(* Every step of a session keeps this. *)
LEMMA RoundTripStep ==
  ASSUME Wide, Roomy, RInv, [SessionNext]_allVars
  PROVE  RInv'
  <1> USE DEF Rounds
  <1>1. SInv' /\ EInv' /\ SInv /\ EInv
    BY SessionStep, EncodingStep DEF RInv
  <1>2. results = [r \in Rounds |-> results[r]] /\ results["strict"] = results["strict"]
    BY <1>1 DEF EInv
  <1>3. ASSUME UNCHANGED <<types, sent, called>>, results'["call"] = results["call"],
               results'["lax"] = results["lax"], results'["strict"] = results["strict"]
        PROVE  RoundTrip' /\ StaticRoundTrip'
    BY <1>3, SameCaller DEF RInv, RoundTrip, StaticRoundTrip
  <1>4. CASE EncodeInput
    <2>1. round = "call" /\ round' \in {"lax", "done"}
          /\ \E res : Conclude("call", res)
      BY <1>4 DEF EncodeInput
    <2>2. results["lax"] = NotYet /\ results["strict"] = NotYet
      BY <2>1 DEF RInv, SInv
    <2>3. results'["lax"] = NotYet /\ results'["strict"] = NotYet
      BY <1>2, <2>1, <2>2, Zenon DEF Conclude
    <2> QED
      BY <1>1, <2>1, <2>3 DEF RInv, RoundTrip, StaticRoundTrip
  <1>5. CASE DecoderStep
    <2>1. round' = round /\ UNCHANGED <<types, sent, called, results>>
      BY <1>5, SameQuestion DEF DecoderStep, session
    <2> QED
      BY <1>1, <1>3, <2>1 DEF RInv
  <1>6. CASE Validate
    <2>1. /\ round = "lax" /\ round' = "strict" /\ Conclude("lax", Returned)
          /\ status \in Outcomes /\ UNCHANGED <<types, sent, called>>
      BY <1>6 DEF Validate, CallDecoder
    <2>2. /\ results'["call"] = results["call"] /\ results'["lax"] = Returned
          /\ results'["strict"] = results["strict"]
      BY <1>2, <2>1, Zenon DEF Conclude
    <2>3. ~validate /\ results["strict"] = NotYet
      BY <1>1, <2>1 DEF SInv
    <2>4. Decodable => Returned = Meant
      BY <1>1, <2>1, <2>3, ReturnsMeant
    <2>5. RoundTrip' /\ StaticRoundTrip'
      BY <2>1, <2>2, <2>3, <2>4, SameCaller DEF RoundTrip, StaticRoundTrip
    <2> QED
      BY <1>1, <2>1, <2>5 DEF RInv
  <1>7. CASE EncodeAgain
    <2>1. /\ round = "strict" /\ round' \in {"again", "done"}
          /\ Conclude("strict", Returned) /\ status \in Outcomes
          /\ UNCHANGED <<types, sent, called>>
      BY <1>7 DEF EncodeAgain, CallDecoder, vars
    <2>2. /\ results'["call"] = results["call"] /\ results'["lax"] = results["lax"]
          /\ results'["strict"] = Returned
      BY <1>2, <2>1, Zenon DEF Conclude
    <2>3. Decodable /\ AllStatic => Returned = Meant
      BY <1>1, <2>1, ReturnsMeant
    <2>4. RoundTrip' /\ StaticRoundTrip'
      BY <2>1, <2>2, <2>3, SameCaller DEF RInv, RoundTrip, StaticRoundTrip
    <2> QED
      BY <1>1, <2>1, <2>4 DEF RInv
  <1>8. CASE Conclusion
    <2>1. /\ round' = "done" /\ Conclude("again", Returned)
          /\ UNCHANGED <<types, sent, called>>
      BY <1>8 DEF Conclusion, vars
    <2>2. /\ results'["call"] = results["call"] /\ results'["lax"] = results["lax"]
          /\ results'["strict"] = results["strict"]
      BY <1>2, <2>1, Zenon DEF Conclude
    <2> QED
      BY <1>1, <1>3, <2>1, <2>2 DEF RInv
  <1>9. CASE UNCHANGED allVars
    <2>1. UNCHANGED <<types, sent, called, round, results>>
      BY <1>9 DEF allVars, vars, session
    <2> QED
      BY <1>1, <1>3, <2>1 DEF RInv
  <1> QED
    BY <1>4, <1>5, <1>6, <1>7, <1>8, <1>9 DEF SessionNext

(* It holds of every session. *)
LEMMA SessionsRead == ASSUME Wide, Roomy PROVE SessionSpec => []RInv
  <1>1. ASSUME SessionInit PROVE RInv
    <2>1. SInv /\ EInv
      BY <1>1, SessionBegins, EncodingBegins
    <2>2. results["lax"] = NotYet /\ results["strict"] = NotYet
      BY <1>1 DEF SessionInit, Rounds
    <2> QED
      BY <2>1, <2>2 DEF RInv, RoundTrip, StaticRoundTrip
  <1>2. RInv /\ [SessionNext]_allVars => RInv'
    BY RoundTripStep
  <1> QED
    BY <1>1, <1>2, PTL DEF SessionSpec

(* Whatever the types and the values of them that a caller passes: decode  *)
(* reads them back from the encoding, with every bytesN at its full        *)
(* length.                                                                 *)
THEOREM AlwaysRoundTrips == ASSUME Wide, Roomy PROVE SessionSpec => []RoundTrip
  <1>1. RInv => RoundTrip
    BY DEF RInv
  <1> QED
    BY <1>1, SessionsRead, PTL

(* The same holds of decode_validate where no type is dynamic. *)
THEOREM StaticAlwaysRoundTrips ==
  ASSUME Wide, Roomy PROVE SessionSpec => []StaticRoundTrip
  <1>1. RInv => StaticRoundTrip
    BY DEF RInv
  <1> QED
    BY <1>1, SessionsRead, PTL

-----------------------------------------------------------------------------
(* What is encoded again. *)

(* The tokens decode has read. *)
Read == results["lax"].tokens

(* They are of usual types and can be encoded, and decode does not refuse the encoding for having *)
(* no bytes.                                                               *)
Reencodable ==
  results["lax"].status = "Ok" =>
    /\ \A i \in DOMAIN types : usual[types[i]]
    /\ Read \in Seq(Tokens) /\ Len(EncAll(Read, types)) < U32 + WordLen
    /\ encode(Read) = <<>> => \A i \in DOMAIN types : is_empty_bytes_valid_encoding(types[i])

(* They are values that decode reads as they are. *)
ReadSettled ==
  Len(Read) = Len(types) /\ \A i \in DOMAIN types : Settled(types[i], Read[i])

NInv ==
  /\ SInv
  /\ results["lax"] = Result(results["lax"].status, Read)
  /\ round # "done" => results["again"] = NotYet
  /\ Reencodable =>
       /\ round \in {"strict", "again"} /\ results["lax"].status = "Ok" => ReadSettled
       /\ round = "again" =>
            /\ results["lax"].status = "Ok"
            /\ VInv /\ Answered /\ ~validate /\ data = encode(Read)
       /\ Normalising

(* What is encoded of values that decode reads as they are. *)
LEMMA EncodingOfRead ==
  ASSUME Wide, Reencodable, results["lax"].status = "Ok", ReadSettled,
         types \in Seq(ParamTypes)
  PROVE  /\ encode(Read) = EncAll(Read, types)
         /\ encode(Read) \in Seq(Byte) /\ 2 * Len(encode(Read)) < UsizeSize
         /\ \A no \in BOOLEAN : ~no =>
              Abstract!Decoded(types, encode(Read), no) = Abstract!Some(Read)
  <1> DEFINE tokens == Read
             d == EncAll(tokens, types)
  <1>1. /\ tokens \in Seq(Tokens) /\ Len(d) < U32 + WordLen /\ Len(tokens) = Len(types)
        /\ encode(tokens) = <<>> =>
             \A i \in DOMAIN types : is_empty_bytes_valid_encoding(types[i])
        /\ \A i \in DOMAIN types : Settled(types[i], tokens[i])
    BY DEF Reencodable, ReadSettled
  <1> HIDE DEF tokens
  <1>2. \A i \in DOMAIN types : is_value[types[i]][tokens[i]]
    BY <1>1 DEF Settled
  <1>3. encode(tokens) = d
    BY <1>1, <1>2, EncodeIsCanonical
  <1>4. d \in Seq(Byte)
    <2>1. /\ d = Layout(CallParts(tokens, types), CallDyns(types))
          /\ CallParts(tokens, types) \in Seq(Seq(Byte))
      BY <1>1, <1>2, CallEncodes DEF Encodes
    <2> HIDE DEF d
    <2>2. Layout(CallParts(tokens, types), CallDyns(types)) \in Seq(Byte)
      BY <2>1, LayoutFacts, Zenon
    <2> QED BY <2>1, <2>2
  <1>5. 2 * Len(d) < UsizeSize
    <2> HIDE DEF d
    <2>1. Len(d) \in Nat /\ 2 * (U32 + 2 * WordLen) <= UsizeSize
      BY <1>4, LenProperties DEF Wide
    <2> QED BY <1>1, <2>1, WordAssumption, RadixFacts
  <1>6. ASSUME NEW no \in BOOLEAN, ~no
        PROVE  Abstract!Decoded(types, d, no) = Abstract!Some(tokens)
    <2> DEFINE meant == [i \in DOMAIN tokens |-> as_read[types[i]][tokens[i]]]
    <2>1. d = <<>> => \A i \in DOMAIN types : is_empty_bytes_valid_encoding(types[i])
      BY <1>1, <1>3
    <2>2. Abstract!Decoded(types, d, no) = Abstract!Some(meant)
      <3>1. no => \A i \in DOMAIN types : types[i] \notin DynamicTypes
        BY <1>6
      <3>2. d = EncAll(tokens, types)
        OBVIOUS
      <3> HIDE DEF d
      <3> QED BY <1>1, <1>2, <2>1, <3>1, <3>2, DecodedIsMeant
    <2>3. meant = tokens
      <3>1. DOMAIN tokens = DOMAIN types /\ tokens = [i \in DOMAIN tokens |-> tokens[i]]
        BY <1>1, LenProperties
      <3>2. \A i \in DOMAIN tokens : as_read[types[i]][tokens[i]] = tokens[i]
        BY <1>1, <3>1 DEF Settled
      <3> QED BY <3>1, <3>2
    <2> QED BY <2>2, <2>3
  <1> QED BY <1>3, <1>4, <1>5, <1>6 DEF tokens

(* What a lax round returns are such values. *)
LEMMA ReturnsSettled ==
  ASSUME SInv, \A i \in DOMAIN types : usual[types[i]], round = "lax", status = "Ok", acc[1] \in Seq(Tokens)
  PROVE  Len(acc[1]) = Len(types) /\ \A i \in DOMAIN types : Settled(types[i], acc[1][i])
  <1>1. /\ types \in Seq(ParamTypes) /\ data \in Seq(Byte) /\ validate \in BOOLEAN
        /\ Abstract!Decoded(types, data, validate).defined
        /\ Abstract!Decoded(types, data, validate).val = acc[1]
    BY DEF SInv, VInv, HInv, TInv, IInv, TypeOK, Answered
  <1> QED
    BY <1>1, DecodedSettled

(* What the last round returns is what the first one did. *)
LEMMA ReturnsRead ==
  ASSUME Wide, NInv, Reencodable, round = "again", status \in Outcomes
  PROVE  Returned = results["lax"]
  <1>1. /\ results["lax"].status = "Ok" /\ VInv /\ Answered /\ ~validate
        /\ data = encode(Read) /\ ReadSettled /\ types \in Seq(ParamTypes)
        /\ results["lax"] = Result(results["lax"].status, Read)
    BY DEF NInv, SInv
  <1>2. validate \in BOOLEAN /\ status # "Panic"
    BY <1>1 DEF VInv, HInv, TInv, IInv, TypeOK, NoPanic
  <1>3. Abstract!Decoded(types, data, validate) = Abstract!Some(Read)
    BY <1>1, <1>2, EncodingOfRead
  <1>4. \A v : Abstract!Some(v).defined /\ Abstract!Some(v).val = v
    BY Zenon DEF Abstract!Some
  <1>5. status = "Ok"
    BY <1>1, <1>2, <1>3, <1>4 DEF Answered, Outcomes
  <1>6. acc[1] = Read
    BY <1>1, <1>3, <1>4, <1>5 DEF Answered
  <1> QED
    BY <1>1, <1>5, <1>6 DEF Returned

(* Every step of a session keeps this. *)
LEMMA NormalisingStep ==
  ASSUME Wide, Roomy, NInv, [SessionNext]_allVars
  PROVE  NInv'
  <1> USE DEF Rounds
  <1>1. SInv' /\ SInv
    BY SessionStep DEF NInv
  <1>2. /\ results = [r \in Rounds |-> results[r]] /\ types \in Seq(ParamTypes)
        /\ round \in Rounds \cup {"done"}
        /\ results["lax"] = Result(results["lax"].status, Read)
    BY <1>1 DEF SInv, NInv
  <1>3. ASSUME types' = types, results'["lax"] = results["lax"]
        PROVE  /\ Read' = Read
               /\ (Reencodable' <=> Reencodable)
               /\ (ReadSettled' <=> ReadSettled)
               /\ results'["lax"] = Result(results'["lax"].status, Read')
    <2>1. Read' = Read
      BY <1>3 DEF Read
    <2> QED BY <1>2, <1>3, <2>1 DEF Reencodable, ReadSettled
  <1>4. ASSUME results'["again"] = NotYet
        PROVE  Normalising'
    BY <1>4 DEF Normalising
  <1>5. CASE EncodeInput
    <2>1. round = "call" /\ round' \in {"lax", "done"} /\ types' = types
          /\ \E res : Conclude("call", res)
      BY <1>5 DEF EncodeInput, CallDecoder, vars
    <2>2. results'["lax"] = results["lax"] /\ results'["again"] = results["again"]
      BY <1>2, <2>1, Zenon DEF Conclude
    <2>3. results'["again"] = NotYet
      BY <2>1, <2>2 DEF NInv
    <2> QED BY <1>1, <1>3, <1>4, <2>1, <2>2, <2>3 DEF NInv
  <1>6. CASE DecoderStep
    <2>1. round \in {"lax", "strict", "again"} /\ Next
          /\ UNCHANGED <<sent, called, round, results>>
      BY <1>6 DEF DecoderStep, session
    <2>2. UNCHANGED <<types, data, validate>>
      BY <2>1, SameQuestion
    <2>3. /\ Read' = Read
          /\ (Reencodable' <=> Reencodable)
          /\ (ReadSettled' <=> ReadSettled)
          /\ results'["lax"] = Result(results'["lax"].status, Read')
      BY <1>3, <2>1, <2>2
    <2>4. Normalising' <=> Normalising
      BY <2>1 DEF Normalising
    <2>5. ASSUME Reencodable, round = "again"
          PROVE  VInv' /\ Answered' /\ ~validate' /\ data' = encode(Read')
      <3>1. VInv /\ Answered /\ ~validate /\ data = encode(Read)
        BY <2>5 DEF NInv
      <3>2. VInv' /\ Answered'
        BY <2>1, <3>1, CallContinues DEF Roomy
      <3> QED BY <2>2, <2>3, <3>1, <3>2
    <2> QED BY <1>1, <2>1, <2>3, <2>4, <2>5 DEF NInv
  <1>7. CASE Validate
    <2>1. /\ round = "lax" /\ round' = "strict" /\ Conclude("lax", Returned)
          /\ status \in Outcomes /\ types' = types
      BY <1>7 DEF Validate, CallDecoder
    <2>2. /\ results'["lax"] = Returned /\ results'["again"] = results["again"]
      BY <1>2, <2>1, Zenon DEF Conclude
    <2>3. results'["again"] = NotYet
      BY <2>1, <2>2 DEF NInv
    <2>4. /\ results'["lax"].status = status
          /\ Read' = IF status = "Ok" THEN acc[1] ELSE <<>>
          /\ results'["lax"] = Result(results'["lax"].status, Read')
      <3>1. /\ results'["lax"] = Result(status, IF status = "Ok" THEN acc[1] ELSE <<>>)
            /\ Read' = results'["lax"].tokens
        BY <2>2, Zenon DEF Returned, Read
      <3>2. \A o, ts : Result(o, ts).status = o /\ Result(o, ts).tokens = ts
        BY Zenon DEF Result
      <3> QED BY <3>1, <3>2
    <2>5. ASSUME Reencodable', results'["lax"].status = "Ok"
          PROVE  ReadSettled'
      <3>1. status = "Ok" /\ Read' = acc[1] /\ acc[1] \in Seq(Tokens)
            /\ \A i \in DOMAIN types : usual[types[i]]
        BY <2>1, <2>4, <2>5 DEF Reencodable
      <3>2. Len(acc[1]) = Len(types)
            /\ \A i \in DOMAIN types : Settled(types[i], acc[1][i])
        BY <1>1, <2>1, <3>1, ReturnsSettled
      <3> QED BY <2>1, <3>1, <3>2 DEF ReadSettled
    <2> QED BY <1>1, <1>4, <2>1, <2>3, <2>4, <2>5 DEF NInv
  <1>8. CASE EncodeAgain
    <2>1. /\ round = "strict" /\ Conclude("strict", Returned) /\ types' = types
          /\ \/ /\ results["lax"].status = "Ok" /\ round' = "again"
                /\ CallDecoder(encode(Read), FALSE)
             \/ round' = "done"
      BY <1>8, Zenon DEF EncodeAgain, CallDecoder, vars, Read
    <2>2. /\ results'["lax"] = results["lax"] /\ results'["again"] = results["again"]
      BY <1>2, <2>1, Zenon DEF Conclude
    <2>3. results'["again"] = NotYet
      BY <2>1, <2>2 DEF NInv
    <2>4. /\ Read' = Read
          /\ (Reencodable' <=> Reencodable)
          /\ (ReadSettled' <=> ReadSettled)
          /\ results'["lax"] = Result(results'["lax"].status, Read')
      BY <1>3, <2>1, <2>2
    <2>5. ASSUME Reencodable, round' = "again"
          PROVE  /\ results["lax"].status = "Ok" /\ ReadSettled
                 /\ VInv' /\ Answered' /\ ~validate' /\ data' = encode(Read')
      <3>1. results["lax"].status = "Ok" /\ CallDecoder(encode(Read), FALSE)
        BY <2>1, <2>5
      <3>2. ReadSettled
        BY <2>1, <2>5, <3>1 DEF NInv
      <3>3. encode(Read) \in Seq(Byte) /\ 2 * Len(encode(Read)) < UsizeSize
        BY <1>2, <2>5, <3>1, <3>2, EncodingOfRead
      <3>4. Asked
        BY <1>1 DEF SInv
      <3>5. VInv' /\ Answered' /\ data' = encode(Read) /\ ~validate'
        BY <1>2, <3>1, <3>3, <3>4, RoundStarts, Zenon
      <3> QED BY <2>4, <3>1, <3>2, <3>5
    <2> QED BY <1>1, <1>4, <2>1, <2>2, <2>3, <2>4, <2>5 DEF NInv
  <1>9. CASE Conclusion
    <2>1. /\ round = "again" /\ round' = "done" /\ Conclude("again", Returned)
          /\ status \in Outcomes /\ types' = types
      BY <1>9 DEF Conclusion, vars
    <2>2. results'["lax"] = results["lax"] /\ results'["again"] = Returned
      BY <1>2, <2>1, Zenon DEF Conclude
    <2>3. /\ (Reencodable' <=> Reencodable)
          /\ results'["lax"] = Result(results'["lax"].status, Read')
      BY <1>3, <2>1, <2>2
    <2>4. Reencodable => Normalising'
      BY <2>1, <2>2, ReturnsRead DEF Normalising
    <2> QED BY <1>1, <2>1, <2>3, <2>4 DEF NInv
  <1>10. CASE UNCHANGED allVars
    <2>1. UNCHANGED vars /\ UNCHANGED <<sent, called, round, results>>
      BY <1>10 DEF allVars, session
    <2>2. UNCHANGED <<types, data, validate>>
      BY <2>1 DEF vars
    <2>3. /\ Read' = Read
          /\ (Reencodable' <=> Reencodable)
          /\ (ReadSettled' <=> ReadSettled)
          /\ results'["lax"] = Result(results'["lax"].status, Read')
      BY <1>3, <2>1, <2>2
    <2>4. Normalising' <=> Normalising
      BY <2>1 DEF Normalising
    <2>5. ASSUME Reencodable, round = "again"
          PROVE  VInv' /\ Answered' /\ ~validate' /\ data' = encode(Read')
      <3>1. VInv /\ Answered /\ ~validate /\ data = encode(Read)
        BY <2>5 DEF NInv
      <3>2. VInv' /\ Answered'
        BY <2>1, <3>1, CallContinues DEF Roomy
      <3> QED BY <2>2, <2>3, <3>1, <3>2
    <2> QED BY <1>1, <2>1, <2>3, <2>4, <2>5 DEF NInv
  <1> QED
    BY <1>5, <1>6, <1>7, <1>8, <1>9, <1>10 DEF SessionNext

(* Whatever the data, and whatever usual types it is read as: the tokens   *)
(* that decode returned encode to data that decodes to the same tokens, as *)
(* long as a u32 holds the offsets of that data.                           *)
THEOREM AlwaysNormalises ==
  ASSUME Wide, Roomy PROVE SessionSpec => [](Reencodable => Normalising)
  <1>1. ASSUME SessionInit PROVE NInv
    <2>1. SInv /\ results["lax"] = NotYet /\ results["again"] = NotYet
          /\ round \in {"call", "lax"}
      BY <1>1, SessionBegins, Zenon DEF SessionInit, Rounds, InitCall, InitReceived
    <2>2. results["lax"] = Result(results["lax"].status, Read)
      BY <2>1, Zenon DEF NotYet, Result, Read
    <2> QED BY <2>1, <2>2 DEF NInv, Normalising
  <1>2. NInv /\ [SessionNext]_allVars => NInv'
    BY NormalisingStep
  <1>3. NInv => (Reencodable => Normalising)
    BY DEF NInv
  <1> QED
    BY <1>1, <1>2, <1>3, PTL DEF SessionSpec

-----------------------------------------------------------------------------
(* The strict rounds of sessions. *)

(* What decode_validate has accepted is data of usual types that can be    *)
(* encoded, with offsets that are u32.                                     *)
Exactable ==
  round = "strict" /\ status = "Ok" =>
    /\ \A i \in DOMAIN types : usual[types[i]]
    /\ acc[1] \in Seq(Tokens) /\ Len(data) < U32 + WordLen

(* Whatever the types, if they are static: decode_validate accepts the     *)
(* encoding of every value, and, booleans aside, nothing else.             *)
THEOREM StaticAlwaysStrict ==
  ASSUME Wide, Roomy PROVE SessionSpec => [](Exactable => StaticStrict)
  <1>1. ASSUME RInv, Exactable, AllStatic, \A i \in DOMAIN types : ~has_bool[types[i]]
        PROVE  Exact
    <2> SUFFICES ASSUME round = "strict", status = "Ok" PROVE encode(acc[1]) = data
      BY DEF Exact
    <2>1. /\ types \in Seq(ParamTypes) /\ data \in Seq(Byte) /\ validate \in BOOLEAN
          /\ validate /\ Abstract!Decoded(types, data, validate).defined
          /\ Abstract!Decoded(types, data, validate).val = acc[1]
      BY <1>1 DEF RInv, SInv, VInv, HInv, TInv, IInv, TypeOK, Answered
    <2>2. /\ acc[1] \in Seq(Tokens) /\ Len(data) < U32 + WordLen
          /\ \A i \in DOMAIN types : Plain(types[i])
      BY <1>1 DEF Exactable, AllStatic, Plain
    <2> QED BY <2>1, <2>2, DecodedExact
  <1>2. RInv => (Exactable => StaticStrict)
    BY <1>1 DEF RInv, StaticRoundTrip, StaticStrict
  <1> QED
    BY <1>2, SessionsRead, PTL
=============================================================================
