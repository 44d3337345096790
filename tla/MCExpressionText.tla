-------------------------- MODULE MCExpressionText --------------------------
(***************************************************************************)
(* Expressions for TLC: everything of two levels over a few leaves, some   *)
(* of three, and texts the reader does not support.                        *)
(***************************************************************************)
EXTENDS ExpressionText

Leaf(l) == [leaf |-> <<l>>]
String(content) == [leaf |-> <<"'">> \o content \o <<"'">>]
Op(op, args) == [op |-> op, args |-> args]
Cast(t, to) == [op |-> "CAST", args |-> <<t>>, to |-> to]

Cols == {Leaf("$0"), Leaf("$1")}
Leaves == Cols \cup {Leaf("1")}

\* Strings that look like expressions, and one that does not.
Strings == {String(<<"a", ",", " ", "b", ")">>), String(<<"AND", "(">>)}
MoreStrings ==
  {String(<<"a", " ", "AND", " ", "$1">>), String(<<>>), String(<<"(", "FLOOR", "(">>),
   String(<<"a", " ", "IS NULL">>), String(<<"IS NOT NULL", ",">>), String(<<"a", " NOT NULL">>),
   String(<<"CAST", "(", "a", ")", ":DOUBLE", "b">>), String(<<")", ")", "OR", "(", "b">>),
   String(<<"EXTRACT(FLAG(YEAR), ", "$0", ")">>)}

Comparisons == {Op("=", <<Leaf("$0"), x>>) : x \in Strings}
                 \cup {Op(">", <<Leaf("$1"), Leaf("1")>>), Op("IS NOT NULL", <<Leaf("$0")>>)}

Many(ops, args) ==
  {Op(o, a) : o \in ops, a \in UNION {[1 .. n -> args] : n \in 2 .. 3}}

Two == Many({"AND", "OR"}, Comparisons)
Chosen == {Op("OR", <<a, b, a>>) : a, b \in Comparisons}
            \cup {Op("AND", <<a, b>>) : a, b \in Comparisons}
Conditions ==
  Cols \cup Two \cup Many({"AND"}, {Op("IS NULL", <<Leaf("$0")>>), Leaf("$1")})
    \cup {Op(o, <<a, b, c>>) : o \in {"AND", "OR"}, a, c \in Comparisons, b \in Chosen}
    \cup {Op("NOT", <<c>>) : c \in Chosen}
    \cup {Op("AND", [i \in 1 .. 4 |-> c]) : c \in Chosen}
    \cup {Op("OR", <<Op("=", <<Leaf("$0"), s>>), Op("AND", <<a, Op("=", <<Leaf("$1"), r>>), a>>), a>>) :
            s, r \in MoreStrings \cup Strings, a \in Comparisons}

Arithmetic == {Op(o, a) : o \in {"+", "=", "POWER", "COALESCE"}, a \in [1 .. 2 -> Leaves]}
Unary == {Op(o, <<x>>) : o \in {"SIN", "IS NULL", "YEAR", "FLOOR"}, x \in Leaves}
           \cup {Cast(x, ":DOUBLE") : x \in Cols}
Small == Arithmetic \cup Unary
Fields ==
  {<<Op("=", <<Leaf("$0"), s>>), Op("COALESCE", <<Op("AND", <<x, Leaf("$1"), Op("=", <<r, Leaf("$1")>>)>>), s>>)>> :
     s \in MoreStrings \cup Strings, r \in MoreStrings \cup {String(<<"]", " ", "=[">>)},
     x \in {Leaf("$0"), Cast(Leaf("$1"), ":DOUBLE")}}
    \cup
  {<<t>> : t \in Cols \cup Small} \cup {<<t, Leaf("$1")>> : t \in Unary}
    \cup {<<Op(o, <<a, b>>)>> : o \in {"+", "OR"}, a \in Unary \cup Strings, b \in Small}
    \cup {<<Leaf("$1"), Op("AND", <<a, b, a>>)>> : a, b \in Comparisons \cup Unary}

Schemas == {<<"INT64", "FLOAT32">>, <<"DATE32", "STRING_CATEGORY">>, <<"INT8", "FLOAT64">>}

Equal(a, b) == Op("=", <<Leaf(a), Leaf(b)>>)
Equalities == {Equal("$0", "$2"), Equal("$3", "$1"), Equal("$2", "$1")}
Joins == Equalities \cup Many({"AND"}, Equalities)
           \cup {Op("AND", <<a, Op("AND", <<b, a, b>>), b>>) : a, b \in Equalities}

Unsupported ==
  {[kind |-> "filter", fields |-> <<Op("AND", <<a, b, b>>)>>, types |-> <<"INT64", "INT64">>] :
     a \in {Op("=", <<Leaf("$0"), String(<<"a", "'", "'", "b">>)>>),
            Op(">", <<Cast(Leaf("$0"), ":INTEGER"), Leaf("1")>>),
            Op("=", <<Leaf("$0"), String(<<"]">>)>>)},
     b \in {Op(">", <<Leaf("$1"), Leaf("2")>>)}}
  \cup {[kind |-> "project", fields |-> f, types |-> <<"INT64", "INT64">>] :
     f \in {<<Leaf("1")>>, <<String(<<"a">>)>>, <<Op("IS NOT NULL", <<Leaf("$0")>>)>>,
            <<Cast(Leaf("$0"), ":INTEGER")>>, <<Cast(Leaf("$0"), ":INTEGER"), Leaf("$1")>>}}
  \cup {[kind |-> "join", fields |-> <<Op(">", <<Leaf("$0"), Leaf("$1")>>)>>,
         types |-> <<"INT64", "INT64">>]}

MCInputs ==
  {[kind |-> "filter", fields |-> <<c>>, types |-> <<"INT64", "INT64">>] : c \in Conditions}
    \cup {[kind |-> "project", fields |-> f, types |-> s] : f \in Fields, s \in Schemas}
    \cup {[kind |-> "join", fields |-> <<j>>, types |-> <<"INT64", "INT64", "INT64", "INT64">>] : j \in Joins}
    \cup Unsupported
=============================================================================
