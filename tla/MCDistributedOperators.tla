----------------------- MODULE MCDistributedOperators -----------------------
(* Tables for DistributedOperators on small clusters.                      *)
EXTENDS DistributedOperators

CONSTANTS
  MaxRows,    \* rows all nodes may have together, and one less for aggregations
  FewKeys,    \* the keys of aggregations and joins
  Numbers     \* the values that are aggregated

Op(kind, how) == [kind |-> kind, how |-> how]

\* The ways in which up to n rows can lie on the nodes: a sequence of rows and
\* where it is cut.
Cuts(n) == {c \in [0 .. N -> 0 .. n] : c[0] = 0 /\ c[N] = n /\ \A i \in Node : c[i - 1] <= c[i]}
Cut(s, c) == [i \in Node |-> SubSeq(s, c[i - 1] + 1, c[i])]
Spread(rows, n) ==
  UNION {{Cut(s, c) : s \in [1 .. l -> rows], c \in Cuts(l)} : l \in 0 .. n}

KeyTables == Spread([key : Keys, value : {Null}], MaxRows)
ValueTables(keys) == Spread([key : keys, value : Numbers \cup {Null}], MaxRows - 1)
NoTables == {[n \in Node |-> <<>>]}

\* The rows of a join carry the node they come from.
JoinTables ==
  {[n \in Node |-> [i \in DOMAIN t[n] |-> Row(t[n][i], n)]] :
     t \in [Node -> {<<>>} \cup {<<k>> : k \in FewKeys}]}

MCInputs(o) ==
  CASE o.kind \in {"sort", "group"} -> KeyTables
    [] o.kind = "aggregate" -> ValueTables(FewKeys)
    [] o.kind = "total" -> ValueTables({NullKey})
    [] o.kind = "join" -> JoinTables
MCOthers(o) == IF o.kind = "join" THEN JoinTables ELSE NoTables

AllOps ==
  {Op("sort", "ASC"), Op("sort", "DESC"), Op("group", "none")}
  \cup {Op(k, a) : k \in {"aggregate", "total"}, a \in {"COUNT", "SUM", "MIN", "MAX", "AVG"}}
  \cup {Op("join", t) : t \in {"inner", "left", "full"}}
Descending == {Op("sort", "DESC")}
=============================================================================
