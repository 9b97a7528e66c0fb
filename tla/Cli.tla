-------------------------------- MODULE Cli --------------------------------
(***************************************************************************)
(* A session at the command line (cli/src/main.rs).  A user has values as  *)
(* text and encodes them, for types that are named or for a function; what *)
(* is printed is sent and read: by "decode params", whose output can be    *)
(* encoded again, or by the contract, whose answer "decode function"       *)
(* prints.  Constructors and errors have no command: a program tokenizes   *)
(* their arguments and calls them.                                         *)
(***************************************************************************)
EXTENDS Calls, Tokenizer

CONSTANTS
  Requests,    \* what users ask for
  Answers,     \* the tokens that a contract returns from a function
  Code         \* the code of the contract deployed

(* A request: for "params" the arguments are types and values by turns,    *)
(* for a callable they are the values of its inputs, and for an event the  *)
(* topics of a log and its data.  The tokens that the user wrote down, or  *)
(* that the event was emitted with, are "meant".                           *)
Request(command, callable, args, lenient, meant) ==
  [command |-> command, callable |-> callable, args |-> args, lenient |-> lenient,
   meant |-> meant]

VARIABLES
  request,
  phase,       \* "asked", "encoded", "received", "printed", "again", or a failure
  parsed,      \* the tokens of the arguments
  output,      \* what was printed last: digits
  seen,        \* what the reader of the output found
  lines        \* the values printed by a decode command

vars == <<request, phase, parsed, output, seen, lines>>

Failures == {"Err", "Panic"}

-----------------------------------------------------------------------------
(* Values and types of the arguments. *)

values(args) == [i \in 1..(Len(args) \div 2) |-> args[2 * i]]
names(args)  == [i \in 1..(Len(args) \div 2) |-> args[2 * i - 1]]

read_types(args) == Collect([i \in DOMAIN names(args) |-> read(names(args)[i])])

(* zip: the shorter of the two lists ends the pairs. *)
parse_tokens(ts, texts, lenient) ==
  Collect([i \in 1..Min({Len(ts), Len(texts)}) |-> tokenize(ts[i], texts[i], lenient)])

(* main() fails with what the step failed with. *)
Fail(res) ==
  /\ phase' = res.status
  /\ UNCHANGED <<request, parsed, output, seen, lines>>

(* What an encode command does with its tokens. *)
PrintEncoding(tokens, encoded) ==
  \/ ~IsOk(encoded) /\ Fail(encoded)
  \/ /\ IsOk(encoded)
     /\ parsed' = tokens.val /\ output' = hex_encode(encoded.val) /\ phase' = "encoded"
     /\ UNCHANGED <<request, seen, lines>>

encode_params(args, lenient) ==
  IF Len(args) % 2 = 1 THEN Panic
  ELSE AndThen(read_types(args), LAMBDA ts : parse_tokens(ts, values(args), lenient))

(* The tokens are not checked against the types. *)
EncodeParams ==
  /\ phase = "asked" /\ request.command = "params"
  /\ \E tokens \in {encode_params(request.args, request.lenient)} :
       IF IsOk(tokens) THEN PrintEncoding(tokens, Ok(encode(tokens.val))) ELSE Fail(tokens)

(* The arguments of a callable, as tokens; values beyond its inputs are    *)
(* dropped.                                                                *)
arguments == parse_tokens(request.callable.inputs, request.args, request.lenient)

EncodeInput ==
  /\ phase = "asked" /\ request.command = "function"
  /\ \E tokens \in {arguments} :
       IF IsOk(tokens) THEN PrintEncoding(tokens, function_encode_input(request.callable, tokens.val))
       ELSE Fail(tokens)

EncodeConstructor ==
  /\ phase = "asked" /\ request.command = "constructor"
  /\ \E tokens \in {arguments} :
       IF IsOk(tokens) THEN PrintEncoding(tokens, constructor_encode_input(request.callable, Code, tokens.val))
       ELSE Fail(tokens)

EncodeError ==
  /\ phase = "asked" /\ request.command = "error"
  /\ \E tokens \in {arguments} :
       IF IsOk(tokens) THEN PrintEncoding(tokens, error_encode(request.callable, tokens.val))
       ELSE Fail(tokens)

-----------------------------------------------------------------------------
(* The reader of the output. *)

(* What a callable's arguments are behind. *)
prefix_len == IF request.command = "constructor" THEN Len(Code) ELSE 4

(* The contract, or whoever gets the error, takes the prefix off. *)
Receive ==
  /\ phase = "encoded" /\ request.command # "params"
  /\ LET bytes == hex_decode(output).val
         input == SubSeq(bytes, prefix_len + 1, Len(bytes))
     IN  \E tokens \in {IF request.command = "error"
                        THEN error_decode(request.callable, input)
                        ELSE function_decode_input(request.callable, input)} :
           /\ seen' = tokens
           /\ phase' = IF IsOk(tokens) THEN "received" ELSE "refused"
  /\ UNCHANGED <<request, parsed, output, lines>>

(* A decode command prints a line for each type. *)
Decode(tokens) ==
  /\ seen' = tokens
  /\ IF IsOk(tokens)
     THEN lines' = [i \in DOMAIN tokens.val |-> display(tokens.val[i])] /\ phase' = "printed"
     ELSE phase' = "refused" /\ UNCHANGED lines

DecodeCallOutput ==
  /\ phase = "received" /\ request.command = "function"
  /\ \E answer \in Answers[request.callable.outputs] :
       /\ output' = hex_encode(encode(answer)) /\ parsed' = answer
       /\ \E tokens \in {function_decode_output(request.callable, hex_decode(output').val)} :
            Decode(tokens)
  /\ UNCHANGED request

DecodeParams ==
  /\ phase = "encoded" /\ request.command = "params"
  /\ LET ts    == read_types(request.args)
         bytes == hex_decode(output)
     IN  \E tokens \in {decode(ts.val, bytes.val)} : Decode(tokens)
  /\ UNCHANGED <<request, parsed, output>>

(* str::parse of a topic, which may have a prefix. *)
parse_hash(s) ==
  LET bytes == hex_decode(strip_prefix(s))
  IN  IF IsOk(bytes) /\ Len(bytes.val) = WordLen THEN bytes ELSE Err

decode_log(e, args) ==
  AndThen(Collect([i \in 1..(Len(args) - 1) |-> parse_hash(args[i])]), LAMBDA topics :
    AndThen(hex_decode(Last(args)), LAMBDA data : parse_log(e, [topics |-> topics, data |-> data])))

DecodeLog ==
  /\ phase = "asked" /\ request.command = "log"
  /\ \E params \in {decode_log(request.callable, request.args)} :
       IF IsOk(params)
       THEN /\ lines' = [i \in DOMAIN params.val |-> display(params.val[i].value)]
            /\ phase' = "logged"
            /\ UNCHANGED <<request, parsed, output, seen>>
       ELSE Fail(params)

(* The printed values are encoded, in the user's mode, for their types. *)
EncodeAgain ==
  /\ phase = "printed"
  /\ LET ts == IF request.command = "params" THEN read_types(request.args).val
               ELSE request.callable.outputs
     IN  \E tokens \in {parse_tokens(ts, lines, request.lenient)} :
           IF IsOk(tokens)
           THEN /\ phase' = "again" /\ output' = hex_encode(encode(tokens.val))
                /\ UNCHANGED <<request, parsed, seen, lines>>
           ELSE Fail(tokens)

-----------------------------------------------------------------------------
Init ==
  /\ request \in Requests
  /\ phase = "asked" /\ parsed = <<>> /\ output = <<>> /\ seen = Err /\ lines = <<>>

Next ==
  \/ EncodeParams \/ EncodeInput \/ EncodeConstructor \/ EncodeError
  \/ Receive \/ DecodeCallOutput \/ DecodeParams \/ DecodeLog \/ EncodeAgain

Spec == Init /\ [][Next]_vars
-----------------------------------------------------------------------------
(* The types that the values have in this phase. *)
types ==
  CASE request.command = "params"      -> read_types(request.args).val
    [] phase \in {"printed", "again"} -> request.callable.outputs
    [] OTHER                           -> request.callable.inputs

texts == IF request.command = "params" THEN values(request.args) ELSE request.args

(* A tuple has all of its members, in a value of any depth. *)
RECURSIVE Complete(_, _)
Complete(token, t) ==
  /\ t.kind = "Tuple" => Len(token.subs) = Len(t.subs)
  /\ \A i \in DOMAIN token.subs :
       Complete(token.subs[i], t.subs[IF t.kind = "Tuple" THEN i ELSE 1])

(* What an encode command printed is read by the other side as the tokens  *)
(* that the user's texts stood for: by decode params, by the contract      *)
(* behind the selector or its code, and by the decoder of an error; and    *)
(* what the contract answers is read by decode function.  Only a text with *)
(* too few members of a tuple, which no check refuses, is not.             *)
EncodedIsRead ==
  phase \in {"received", "printed", "refused", "again"} =>
    \/ seen = Ok(parsed)
    \/ \E i \in DOMAIN parsed : ~Complete(parsed[i], types[i])

Brackets == {"(", ")", "[", "]"}

IsQuoted(s) == Len(s) > 1 /\ Head(s) = Quote /\ Last(s) = Quote
                 /\ Quote \notin Range(SubSeq(s, 2, Len(s) - 1))

(* A token that can be told from its text, inside of lists of these kinds. *)
(* A string in a list needs quotes around commas and brackets; quotes are  *)
(* not seen by a scanner that is in brackets of the other kind; and a list *)
(* of one empty item is written as the empty list is.                      *)
RECURSIVE Legible(_, _)
Legible(token, lists) ==
  IF token.kind = "String"
  THEN LET s == from_bytes(token.val)
       IN  \/ lists = {} \/ Range(s) \cap (Brackets \cup {",", Quote}) = {}
           \/ IsQuoted(s) /\ (Range(s) \cap Brackets = {} \/ Cardinality(lists) = 1)
  ELSE /\ Len(token.subs) = 1 => display(token.subs[1]) # <<>>
       /\ \A i \in DOMAIN token.subs :
            Legible(token.subs[i], lists \cup {IF token.kind = "Tuple" THEN "(" ELSE "["})

AllLegible(ts) == \A i \in DOMAIN ts : Legible(ts[i], {})

(* Tokens that are written down, with commas and brackets around them and  *)
(* strings in quotes, are the tokens that are encoded, in either mode: the *)
(* scanners cut every list, in lists of both kinds, where its items end,   *)
(* and a word in hexadecimal is one even if all its digits are decimal.    *)
ReadsWhatWasMeant ==
  request.meant # <<>> /\ AllLegible(request.meant) =>
    /\ phase = "Err" => lines # <<>>
    /\ phase = "encoded" => parsed = request.meant

(* No value in ASCII panics, whatever its brackets, commas and quotes: the *)
(* items are cut at positions that are in the text and in order.           *)
AsciiNeverPanics ==
  phase = "Panic" =>
    \/ \E i \in DOMAIN texts : ~IsAscii(texts[i])
    \/ request.command = "params" /\ (Len(request.args) % 2 = 1
                                       \/ read_types(request.args) = Panic)

(* The value, in units of the smallest fraction, of a decimal amount.      *)
SmallestUnits(amount) ==
  FoldLeft(LAMBDA n, c : Ten * n + Digit[c], 0, Integer(amount) \o Fraction(amount))

(* An amount with a unit is accepted iff it is a whole number of wei and   *)
(* fits, and is then exactly that number.                                  *)
NumbersExact ==
  \A i \in DOMAIN texts \cap DOMAIN types :
    LET amount == Amount(texts[i])
        wei    == SmallestUnits(amount) * Power(Ten, Decimals[Last(texts[i])])
        parts  == Power(Ten, Len(Fraction(amount)))
        fits   == Len(Fraction(amount)) <= Decimals[Last(texts[i])] /\ wei \div parts <= MaxUint
    IN  request.lenient /\ types[i] = UintT(256) /\ IsQuantity(texts[i]) =>
          /\ phase = "encoded" => fits /\ Number(parsed[i].val) * parts = wei
          /\ phase = "Err" /\ lines = <<>> => \E j \in DOMAIN texts : i # j \/ ~fits

Emitter == INSTANCE LogSpec WITH Signature <- long_signature

(* A log that the event was emitted with is printed value by value in the  *)
(* order of its declaration, whatever its event mixes: from the hexadecimal*)
(* digits of its topics and data, over the signature of its types' names,  *)
(* to the digits of the values; a hashed parameter shows its hash.         *)
PrintsTheLog ==
  request.command = "log" /\ request.meant # <<>> /\ phase # "asked" =>
    LET shown(i) ==
          LET p == request.callable.inputs[i]
          IN  IF p.indexed /\ p.kind.kind \notin Emitter!ValueKinds
              THEN hex_encode(Emitter!TopicOf(request.meant[i], p.kind))
              ELSE display(request.meant[i])
    IN  phase = "logged" /\ lines = [i \in DOMAIN request.meant |-> shown(i)]

(* The integers in a token, and whether one has all the digits of a word.  *)
RECURSIVE Integers(_)
Integers(token) ==
  IF token.kind \in {"Int", "Uint"} THEN {token.val}
  ELSE UNION {Integers(token.subs[i]) : i \in DOMAIN token.subs}

InWord(w) == Len(lower_hex(w)) = 2 * WordLen

(* Values that a decode command printed can be given to an encode command, *)
(* which makes the same data of them, except for integers: one that has    *)
(* zeros in front is printed without them, in an odd number of digits at   *)
(* times.  No such integer passes for another in strict mode, where it is  *)
(* refused; in lenient mode a single decimal digit still is what it was.   *)
PrintedReadsBack ==
  phase \in {"again"} \cup Failures /\ lines # <<>> /\ AllLegible(seen.val) =>
    LET printed == UNION {Integers(seen.val[i]) : i \in DOMAIN seen.val}
        same    == phase = "again" /\ output = hex_encode(encode(seen.val))
    IN  IF request.lenient THEN same <=> \A w \in printed : InWord(w) \/ Number(w) < Ten
        ELSE IF \A w \in printed : InWord(w) THEN same ELSE phase = "Err"
=============================================================================
