-------------------------- MODULE OneNodeOperator --------------------------
(***************************************************************************)
(* What a relational operator promises: the result that one node would     *)
(* compute if it had all the rows (single_node_sort,                       *)
(* single_node_groupby_without_aggregations, single_node_aggregations and  *)
(* LocalJoinOperator).  How the rows are spread over the nodes must not    *)
(* show.  Where the distributed operators promise less, the promise says   *)
(* so: a descending sort only keeps the rows, an average is some number    *)
(* between the least and the greatest value, and an outer join may lose    *)
(* rows that have no partner.                                              *)
(***************************************************************************)
EXTENDS RelationalOperators

CONSTANT Pending  \* there is no result yet

VARIABLES
  op,      \* the operator: its kind, and its direction, aggregation or type
  rows,    \* all rows of the (left) table
  others,  \* all rows of the right table of a join
  result   \* the rows of the result, or Pending

vars == <<op, rows, others, result>>

single_node_sort == Sort(rows, op.how)
single_node_groupby_without_aggregations == groupby_without_aggregations(rows)
single_node_aggregations == compute_aggregations(rows, op.how, op.kind = "aggregate")
LocalJoin(type) == Join(rows, others, type)

Between(v, table) ==
  IF v = Null THEN Reduce(table, "AVG") = Null
  ELSE Reduce(table, "MIN") <= v /\ v <= Reduce(table, "MAX")

Contained(s, t) == \A r \in ToSet(s) : Count(s, r) <= Count(t, r)

(* process_sort, process_aggregate and process_join.                       *)
Promised(res) ==
  CASE op.kind = "sort" /\ op.how = "ASC" ->
         /\ SameRows(res, rows)
         /\ [i \in DOMAIN res |-> res[i].key]
              = [i \in DOMAIN single_node_sort |-> single_node_sort[i].key]
    [] op.kind = "sort" /\ op.how = "DESC" -> SameRows(res, rows)
    [] op.kind = "group" -> SameRows(res, single_node_groupby_without_aggregations)
    [] op.kind \in {"aggregate", "total"} /\ op.how # "AVG" -> SameRows(res, single_node_aggregations)
    [] op.kind \in {"aggregate", "total"} /\ op.how = "AVG" ->
         LET exact == single_node_aggregations IN
         /\ Len(res) = Len(exact)
         /\ \A i \in DOMAIN exact : \E j \in DOMAIN res :
              /\ res[j].key = exact[i].key
              /\ Between(res[j].value, IF op.kind = "total" THEN rows ELSE Keyed(rows, exact[i].key))
    [] op.kind = "join" ->
         /\ Contained(LocalJoin("inner"), res)
         /\ Contained(res, LocalJoin(op.how))

Init == result = Pending

Evaluate ==
  /\ result = Pending /\ result' # Pending
  /\ Promised(result')
  /\ UNCHANGED <<op, rows, others>>

Spec == Init /\ [][Evaluate]_vars
=============================================================================
