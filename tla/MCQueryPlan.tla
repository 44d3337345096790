----------------------------- MODULE MCQueryPlan -----------------------------
(* Plans of up to MaxLines lines.                                           *)
EXTENDS QueryPlan

CONSTANTS MaxLines

(* The indentations of a tree of n operators.                               *)
Depths(n) ==
  {d \in [1 .. n -> 0 .. n - 1] :
     d[1] = 0 /\ \A i \in 2 .. n : d[i] >= 1 /\ d[i] <= d[i - 1] + 1}

Kids(d, i) ==
  {j \in i + 1 .. Len(d) : d[j] = d[i] + 1 /\ \A k \in i + 1 .. j : d[k] > d[i]}

Line(op, depth, table, columns, width) ==
  [op |-> op, depth |-> depth, table |-> table, columns |-> columns, width |-> width]

(* The operators a line may have, by the number of its inputs: unions of    *)
(* three inputs are plans that Calcite makes.                               *)
LinesOf(d, i) ==
  LET kids == Kids(d, i) IN
  CASE kids = {} -> {Line("scan", d[i], "t", <<2>>, 0), Line("scan", d[i], "t", <<1, 2>>, 0)}
    [] \E j \in kids : kids = {j} ->
         {Line("filter", d[i], "", <<>>, 0), Line("project", d[i], "", <<>>, 1)}
    [] \E j, k \in kids : j # k /\ kids = {j, k} ->
         {Line("join", d[i], "", <<>>, 0), Line("union", d[i], "", <<>>, 0)}
    [] OTHER -> {Line("union", d[i], "", <<>>, 0)}

PlansOf(d) ==
  LET upTo[i \in 0 .. Len(d)] ==
        IF i = 0 THEN {<<>>}
        ELSE {Append(p, l) : p \in upTo[i - 1], l \in LinesOf(d, i)}
  IN upTo[Len(d)]

(* The other operators, each in a plan of a few lines.                      *)
S(depth) == Line("scan", depth, "t", <<1, 2>>, 0)
Op(op, depth) == Line(op, depth, "", <<>>, 2)
OtherPlans ==
  {<<Op("join", 0), Op(a, 1), S(2), Op(b, 1), S(2)>> :
     a, b \in {"sort", "aggregate", "filter", "other"}}
    \cup {<<Op("union distinct", 0), S(1), S(1)>>, <<Op("filter", 0), Op("values", 1)>>,
          <<Op("sort", 0), Line("scan", 1, "unknown", <<1>>, 0)>>}

MCPlans == OtherPlans \cup UNION {PlansOf(d) : d \in UNION {Depths(n) : n \in 1 .. MaxLines}}
=============================================================================
