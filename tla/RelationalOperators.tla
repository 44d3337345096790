------------------------ MODULE RelationalOperators ------------------------
(***************************************************************************)
(* What the operators of the worker compute from the rows of one node      *)
(* (operators/OrderBy.cpp, GroupBy.cpp, JoinOperator.cpp, JoinProcessor.cpp *)
(* and ColumnManipulation.cu).  A table is a sequence of rows; a row has a *)
(* key, the columns sorted, grouped or joined by, and a value, the column  *)
(* that is aggregated or carried along.  The kernels are those of cuDF     *)
(* (external): gdf_order_by, gdf_group_by_without_aggregations, groupby,   *)
(* reduce and the joins, modelled by what they return.                     *)
(***************************************************************************)
EXTENDS Lists, SequencesExt

CONSTANTS
  NullKey,  \* a key that is null: the largest one (GDF_NULL_AS_LARGEST)
  Null      \* a value that is null

ASSUME NullKeyIsNumber == NullKey \in Int

Row(k, v) == [key |-> k, value |-> v]
NullRow == Row(NullKey, Null)
KeysOf(table) == {table[i].key : i \in DOMAIN table}
Keyed(table, k) == Kept(table, {r \in ToSet(table) : r.key = k})

(* Two tables with the same rows, in any order.                            *)
Count(table, r) == Cardinality({i \in DOMAIN table : table[i] = r})
SameRows(s, t) == \A r \in ToSet(s) \cup ToSet(t) : Count(s, r) = Count(t, r)

-----------------------------------------------------------------------------
(* materialize_column: row i of the output is row indices[i] of the input; *)
(* an index that names no row (-1 in the code) makes a null.               *)
NoRow == 0
Materialize(table, indices) ==
  [i \in DOMAIN indices |-> IF indices[i] = NoRow THEN NullRow ELSE table[indices[i]]]

(* gdf_order_by: the indices of the rows in order.                         *)
OrderBy(table, direction) ==
  LET Before(i, j) ==
        LET a == table[i].key  b == table[j].key IN
        \/ IF direction = "DESC" THEN a > b ELSE a < b
        \/ a = b /\ i < j
  IN InOrder(DOMAIN table, Before)

Sort(table, direction) == Materialize(table, OrderBy(table, direction))

(* The group of every key of the table.  Null is a key like any other.     *)
groupby_without_aggregations(table) ==
  LET keys == InOrder(KeysOf(table), <)
  IN [i \in DOMAIN keys |-> Row(keys[i], Null)]

-----------------------------------------------------------------------------
(* Aggregations skip nulls; of nothing but nulls they make a null, except  *)
(* COUNT.                                                                  *)
Values(table) ==
  LET rows == Kept(table, {r \in ToSet(table) : r.value # Null})
  IN [i \in DOMAIN rows |-> rows[i].value]

Reduce(table, agg) ==
  LET vs == Values(table) IN
  IF agg = "COUNT" THEN Len(vs)
  ELSE IF vs = <<>> THEN Null
  ELSE CASE agg = "SUM" -> SumOf(vs)
         [] agg = "MIN" -> CHOOSE v \in ToSet(vs) : \A w \in ToSet(vs) : v <= w
         [] agg = "MAX" -> CHOOSE v \in ToSet(vs) : \A w \in ToSet(vs) : v >= w
         [] agg = "AVG" -> SumOf(vs) \div Len(vs)

aggregations_with_groupby(table, agg) ==
  LET groups == groupby_without_aggregations(table)
  IN [i \in DOMAIN groups |-> Row(groups[i].key, Reduce(Keyed(table, groups[i].key), agg))]

(* One row, also for an empty table.                                       *)
aggregations_without_groupby(table, agg) == <<Row(NullKey, Reduce(table, agg))>>

compute_aggregations(table, agg, grouped) ==
  IF grouped THEN aggregations_with_groupby(table, agg)
             ELSE aggregations_without_groupby(table, agg)

-----------------------------------------------------------------------------
(* The indices of the joined rows (gdf_inner_join, gdf_left_join,          *)
(* gdf_full_join).  A null key equals no key.                              *)
Matches(left, right) ==
  {p \in (DOMAIN left) \X (DOMAIN right) :
     left[p[1]].key = right[p[2]].key /\ left[p[1]].key # NullKey}

JoinIndices(left, right, type) ==
  LET matches == Matches(left, right)
      Lonely == {<<i, NoRow>> : i \in {k \in DOMAIN left : \A p \in matches : p[1] # k}}
      Unmatched == {<<NoRow, j>> : j \in {k \in DOMAIN right : \A p \in matches : p[2] # k}}
  IN matches \cup (IF type \in {"left", "full"} THEN Lonely ELSE {})
             \cup (IF type = "full" THEN Unmatched ELSE {})

(* Left rows in turn, the rows without a left partner last.                *)
JoinBefore(p, q) ==
  \/ p[1] # q[1] /\ (q[1] = NoRow \/ (p[1] # NoRow /\ p[1] < q[1]))
  \/ p[1] = q[1] /\ p[2] < q[2]

(* evaluate_join: without rows on one side there is no join, of any type.  *)
evaluate_join(left, right, type) ==
  IF left # <<>> /\ right # <<>> THEN InOrder(JoinIndices(left, right, type), JoinBefore) ELSE <<>>

(* A joined row has the columns of both tables.                            *)
Join(left, right, type) ==
  LET indices == evaluate_join(left, right, type)
      lefts == Materialize(left, [i \in DOMAIN indices |-> indices[i][1]])
      rights == Materialize(right, [i \in DOMAIN indices |-> indices[i][2]])
  IN [i \in DOMAIN indices |-> Row(lefts[i], rights[i])]
=============================================================================
