----------------------------- MODULE MCContract -----------------------------
(***************************************************************************)
(* Contract on every ABI of a few elements.                                *)
(***************************************************************************)
EXTENDS Contract

CONSTANT MaxElements    \* elements of an ABI

(* Functions with and without results, overloads, a name with parentheses, *)
(* an event and an error that have a function's name.                      *)
MCElements ==
  { Element("function", 2, NoRest, "u", NoOutputs), Element("function", 2, NoRest, "b", "u"),
    Element("function", 2, "(u)", "u", NoOutputs), Element("function", 1, NoRest, "u", "u"),
    Element("event", 2, NoRest, "u", NoOutputs), Element("event", 2, NoRest, "b", NoOutputs),
    Element("error", 1, NoRest, "b", NoOutputs),
    Bare("constructor", "u"), Bare("constructor", "b"),
    Bare("fallback", NoInputs), Bare("receive", NoInputs), Invalid }

MCSources == UNION {[1..n -> MCElements] : n \in 0..MaxElements}
=============================================================================
