------------------------- MODULE MCExpressionPlan -------------------------
(***************************************************************************)
(* Expressions for TLC.                                                    *)
(***************************************************************************)
EXTENDS ExpressionPlan

CONSTANTS
  MaxTokens,  \* the longest expression of the common operators
  MaxPair,    \* the longest expression of a projection of two
  MaxKinds    \* the longest expression of all operators

\* A column of integers, one of doubles and one of dates.
MCColumnTypes == <<"INT32", "FLOAT32", "DATE32">>
Types == [c \in Columns |-> MCColumnTypes[c + 1]]

Operator(kind, id) == [kind |-> kind, id |-> id]
Number == Operator("int", 0)
Float == Operator("float", 0)
Sum == Operator("binary", ARITHMETIC)
Compare == Operator("binary", COMPARISON)
Coalesce == Operator("coalesce", 0)
Unary == Operator("unary", 0)
IsNull == Operator("is_null", 0)
Unknown == Operator("other", 0)

\* The expressions of n tokens with the operators unary and binary.
Grown(of, n, unary, binary) ==
  {<<o>> \o e : o \in unary, e \in of[n - 1]}
  \cup UNION {{<<o>> \o l \o r : o \in binary, l \in of[k], r \in of[n - 1 - k]} : k \in 1 .. n - 2}

\* No operator has literals only, and no COALESCE begins with one.
Plain(e) == \A i \in DOMAIN e : /\ ReadsColumn(e, i)
                                /\ e[i].kind = "coalesce" => ~is_literal(e[i + 1])
Common[n \in 1 .. MaxTokens] ==
  IF n = 1 THEN {<<Column(c)>> : c \in Columns \ {2}} \cup {<<Number>>}
  ELSE {e \in Grown(Common, n, {Unary, IsNull}, {Sum, Coalesce}) : Plain(e)}

\* All operators, known or not, of all columns and literals.
All[n \in 1 .. MaxKinds] ==
  IF n = 1 THEN {<<Column(c)>> : c \in Columns} \cup {<<Number>>, <<Float>>, <<Unknown>>}
  ELSE Grown(All, n, {Unary, Operator("unary", TRIGONOMETRIC), IsNull},
             {Sum, Compare, Operator("binary", POWER), Coalesce})

Evaluated(of, m, n) == {e \in UNION {of[k] : k \in m .. n} : is_operator_token(e[1])}

Projected == {<<e>> : e \in Evaluated(Common, 2, MaxTokens) \cup Evaluated(All, 2, MaxKinds)}
             \cup (Evaluated(Common, 2, MaxPair) \X Evaluated(Common, 2, MaxPair))

\* Conditions: one test or two of them.
Tests == {<<Unknown>>} \cup {e \in Evaluated(All, 2, MaxKinds) : e[1] \in {Compare, IsNull}}
Conjunctions == {<<Sum>> \o d \o e : d, e \in {t \in Tests : Len(t) < MaxKinds}}
Filtered == {<<e>> : e \in Tests \cup Conjunctions}

\* One column is compared with a number and another, or the same, is null.
WithNullCheck ==
  {<< <<Sum, Compare>> \o c \o <<Number, IsNull>> \o d >> :
     c \in {<<Column(n)>> : n \in Columns}, d \in {<<Column(n)>> : n \in Columns}}
NoConditions == {}
=============================================================================
