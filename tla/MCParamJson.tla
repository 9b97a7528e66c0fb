----------------------------- MODULE MCParamJson -----------------------------
(***************************************************************************)
(* ParamJson on fields in every order, twice, missing or of another type,  *)
(* on components inside of components, and on every short text as a type.  *)
(***************************************************************************)
EXTENDS ParamJson

CONSTANT Length    \* characters of the arbitrary texts

Name  == TextField("name", <<"a">>)
Typed(text) == TextField("type", text)

BoolText  == <<"bool">>
Tuples    == {<<"tuple">>, <<"tuple", "[", "]">>, <<"tuple", "[", "2", "]", "[", "]">>}
MoreTypes == {<<"uint", "8", "[", "2", "]", "[", "]">>, <<"(", "address", ")">>, <<"int", "a">>,
              <<"bool", "[", "+", "2", "]">>, <<"uint", "9", "9", "9", "9", "9">>}

(* A member is a bool, a tuple of the members below, or an array of these. *)
RECURSIVE Members(_)
Members(depth) ==
  {<<Typed(BoolText)>>, <<Name, Typed(<<"string">>)>>}
  \cup IF depth = 0 THEN {}
       ELSE {<<Typed(<<"tuple", "[", "]">>), ListField("components", ms)>> :
               ms \in {<<m>> : m \in Members(depth - 1)}}
            \cup {<<ListField("components", ms), Typed(<<"tuple">>)>> :
                    ms \in {<<m, <<Typed(BoolText)>>>> : m \in Members(depth - 1)}
                             \cup {<<<<Typed(BoolText)>>, m>> : m \in Members(depth - 1)}}

(* Two names for a type, and lists with a member that is not sound. *)
Broken == {<<Typed(BoolText), Typed(BoolText)>>, <<Name>>, <<Typed(<<"tuple">>)>>,
           <<Field("type", <<>>, <<>>, FALSE, FALSE)>>,
           <<Typed(BoolText), TextField("other", <<>>)>>}

Fields ==
  {Name, TextField("internalType", <<"b">>), FlagField("indexed", TRUE),
   ListField("components", <<>>),
   ListField("components", <<<<Typed(BoolText)>>, <<Typed(<<"string">>)>>>>),
   Field("name", <<>>, <<>>, FALSE, FALSE), TextField("other", <<>>)}
  \cup {Typed(text) : text \in {BoolText, <<"tuple", "[", "]">>}}

Sets == {s \in SUBSET (Fields \cup {Typed(text) : text \in Tuples \cup MoreTypes}) :
           /\ Cardinality(s) = 4
           /\ Cardinality({f.key : f \in s}) = 4 /\ \A f \in s : f.sound}

FieldLists == UNION {[1..n -> Fields] : n \in 0..3} \cup UNION {SetToSeqs(s) : s \in Sets}

Alphabet == {"(", ")", "[", "]", ",", "bool", "2"}

AnyTexts == UNION {[1..n -> Alphabet] : n \in 0..Length}
  \cup [1..3 -> {"(", ",", ")", "a"}]
  \cup { <<"(", Lead, Cont, ",", "a", ")">>, <<"a", Lead, Cont>>,
         <<"(", Lead, Cont, "a", ")">> }

MCObjects ==
  [visitor : Visitors, fields : FieldLists]
  \cup [visitor : {"Param"}, fields : {<<Name, Typed(text)>> : text \in AnyTexts}]
  \cup [visitor : Visitors,
        fields : {<<Name, Typed(<<"tuple", "[", "2", "]">>), ListField("components", <<m, n>>)>> :
                    m \in Members(2), n \in Members(1) \cup Broken}]

NestedObjects ==
  [visitor : {"Param"},
   fields : {<<Name, Typed(<<"tuple">>), ListField("components", <<m>>)>> : m \in Members(2)}]
=============================================================================
