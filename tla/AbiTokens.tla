----------------------------- MODULE AbiTokens -----------------------------
(***************************************************************************)
(* The tokens (token/token.rs): their tree, its classification by          *)
(* Token::is_dynamic, and Token::type_check and types_check, which a       *)
(* caller runs before encoding.  A check says "yes" or "no", or it panics  *)
(* on an index out of range.                                               *)
(***************************************************************************)
EXTENDS AbiTypes

CONSTANT Depth    \* tokens are nested at most this deep; the code has no bound

ASSUME DepthAssumption == Depth \in Nat

(* Token, nested at most n deep. *)
TokensTo[n \in Nat] ==
  [kind : Kinds, val : Seq(Byte),
   subs : IF n = 0 THEN {<<>>} ELSE Seq(TokensTo[n - 1])]

Tokens == TokensTo[Depth]

token_is_dynamic[token \in Tokens] ==
  \/ token.kind \in {"Bytes", "String", "Array"}
  \/ /\ token.kind \in {"FixedArray", "Tuple"}
     /\ \E i \in DOMAIN token.subs : token_is_dynamic[token.subs[i]]

(* Iterator::all over checks: the first that is not "yes" settles it. *)
AllYes(checks) ==
  LET others == {i \in DOMAIN checks : checks[i] # "yes"}
  IN  IF others = {} THEN "yes"
      ELSE checks[CHOOSE i \in others : \A j \in others : i <= j]

type_check[token \in Tokens] == [t \in ParamTypes |->
  LET subs     == token.subs
      elements == AllYes([i \in DOMAIN subs |-> type_check[subs[i]][t.subs[1]]])
      members  == AllYes([i \in DOMAIN subs |->
                            IF i \in DOMAIN t.subs THEN type_check[subs[i]][t.subs[i]]
                                                   ELSE "panic"])
  IN  IF token.kind # t.kind THEN "no"
      ELSE CASE t.kind = "FixedBytes" -> IF t.size >= Len(token.val) THEN "yes" ELSE "no"
             [] t.kind = "FixedArray" -> IF t.size = Len(subs) THEN elements ELSE "no"
             [] t.kind = "Array"      -> elements
             [] t.kind = "Tuple"      -> members
             [] OTHER                 -> "yes"]

(* A mutant: the arguments are counted as the members of a tuple are. *)
types_check_uncounted(tokens, ts) ==
  AllYes([i \in DOMAIN tokens |->
            IF i \in DOMAIN ts THEN type_check[tokens[i]][ts[i]] ELSE "panic"])

types_check(tokens, ts) ==
  IF Len(ts) # Len(tokens) THEN "no"
  ELSE AllYes([i \in DOMAIN ts |-> type_check[tokens[i]][ts[i]]])
=============================================================================
