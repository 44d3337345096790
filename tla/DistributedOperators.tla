------------------------ MODULE DistributedOperators ------------------------
(***************************************************************************)
(* One distributed operator and the rows it moves: the nodes sample their  *)
(* keys, the master makes pivots of the samples, every node splits its     *)
(* rows into one part per node, and every node merges the parts that come  *)
(* to it, in the order in which they arrive, its own last.  How the        *)
(* messages of the steps interleave is the subject of DistributedQuery;    *)
(* here all nodes split in one step and the order of arrival is a choice.  *)
(* cudf::upper_bound, cudf::split, cudf::merge and gdf_hash_partition are   *)
(* external.                                                               *)
(***************************************************************************)
EXTENDS RelationalOperators

CONSTANTS
  N,            \* number of nodes, context.getTotalNodes()
  Master,       \* context.getMasterNode()
  Keys,         \* the keys that occur
  Ops,          \* the operators
  Inputs(_),    \* the tables an operator may meet on the nodes
  Others(_),    \* the right tables of a join
  SampleOneIn   \* one row of so many is sampled: 10 for the ratio 0.1

Node == 1 .. N

ASSUME Distributed == N \in Nat /\ N > 1
ASSUME MasterIsNode == Master \in Node
ASSUME NullKeyIsLargest == Keys \subseteq Int /\ NullKey \in Keys /\ \A k \in Keys : k <= NullKey
ASSUME RatioIsNumber == SampleOneIn \in Nat \ {0}

Tables == [Node -> Seq([key : Keys, value : Int \cup {Null}])]

(* An operator: a sort and its direction, a group by, an aggregation with  *)
(* or without a group by, or a join and its type.                          *)
Aggregation == {"COUNT", "SUM", "MIN", "MAX", "AVG"}
Operator ==
  [kind : {"sort"}, how : {"ASC", "DESC"}] \cup [kind : {"group"}, how : {"none"}]
  \cup [kind : {"aggregate", "total"}, how : Aggregation]
  \cup [kind : {"join"}, how : {"inner", "left", "full"}]

ASSUME OperatorsMeetTables ==
  Ops \subseteq Operator /\ \A o \in Ops : Inputs(o) \cup Others(o) \subseteq Tables

VARIABLES
  op,      \* the operator
  table,   \* the rows of each node, input
  other,   \* the rows of the right table of a join
  hash,    \* the hash of a key, modulo the number of nodes
  stage,   \* what the nodes do next: "plan", "split", "merge", or "done"
  pivots,  \* the partition plan
  parts,   \* the parts each node has made, NodeColumns by node
  others,  \* those of the right table
  output   \* what each node has merged, or Pending

CONSTANT Pending

(* A null is not a number (it is a bit of the valid mask), and what a node *)
(* has not merged yet is not a table.                                      *)
ASSUME NullIsNoNumber == Null \notin Int
ASSUME PendingIsNoTable ==
  LET rows == [key : Keys, value : Int \cup {Null}]
  IN Pending \notin Seq(rows) \cup Seq([key : rows, value : rows])

inputs == <<op, table, other, hash>>
vars == <<inputs, stage, pivots, parts, others, output>>

NoParts == [n \in Node |-> [d \in Node |-> <<>>]]
Sampled == op.kind \in {"sort", "group", "aggregate"}

(* A join hashes its keys in any way; keys that do not occur, and the other *)
(* operators, have no hash, here 1.                                        *)
Whole(t) == FlattenSeq([n \in Node |-> t[n]])
Hashes ==
  LET hashed == IF op.kind = "join" THEN KeysOf(Whole(table)) \cup KeysOf(Whole(other)) ELSE {}
  IN {h \in [Keys -> Node] : \A k \in Keys \ hashed : h[k] = 1}

Init ==
  /\ op \in Ops
  /\ table \in Inputs(op)
  /\ other \in Others(op)
  /\ hash \in Hashes
  /\ stage = IF Sampled THEN "plan" ELSE "split"
  /\ pivots = <<>>
  /\ parts = NoParts
  /\ others = NoParts
  /\ output = [n \in Node |-> Pending]

-----------------------------------------------------------------------------
(* generateSample: one row of SampleOneIn, rounded up, each drawn from all *)
(* rows of the table.  The keys of the sample:                             *)
SampleSize(t) == (Len(t) + SampleOneIn - 1) \div SampleOneIn
Samples(t) == [1 .. SampleSize(t) -> KeysOf(t)]

(* The samples of all nodes, one after the other.                          *)
AllSamples ==
  LET Of[n \in 0 .. N] ==
        IF n = 0 THEN {<<>>} ELSE {s \o t : s \in Of[n - 1], t \in Samples(table[n])}
  IN Of[N]

(* Mutant: gather rows 0, step, 2 * step, ...                              *)
GatheredFromFirst(sorted) ==
  IF sorted = <<>> THEN [1 .. N - 1 -> Keys]
  ELSE {[i \in 1 .. N |-> sorted[(i - 1) * (Len(sorted) \div N) + 1]]}

(* Gather rows step, 2 * step, ... of the sorted samples.  Without samples *)
(* the gather reads beyond the column and the pivots are anything.         *)
Gathered(sorted) ==
  LET step == Len(sorted) \div N
  IN IF sorted = <<>> THEN [1 .. N - 1 -> Keys]
     ELSE {[i \in 1 .. N - 1 |-> sorted[i * step + 1]]}

(* generatePartitionPlans sorts as the sort does.                          *)
generatePartitionPlans(samples, direction) ==
  LET t == Sort([i \in DOMAIN samples |-> Row(samples[i], Null)], direction)
  IN Gathered([i \in DOMAIN t |-> t[i].key])

(* generatePartitionPlansGroupBy takes every key once, ascending.          *)
generatePartitionPlansGroupBy(samples) ==
  LET t == groupby_without_aggregations([i \in DOMAIN samples |-> Row(samples[i], Null)])
  IN Gathered([i \in DOMAIN t |-> t[i].key])

PartitionPlans(samples) ==
  IF op.kind = "sort" THEN generatePartitionPlans(samples, op.how)
  ELSE generatePartitionPlansGroupBy(samples)

-----------------------------------------------------------------------------
(* Mutant: the index of the row instead of the number of rows before it.   *)
UpperBoundPast(t, pivot) ==
  LET before == Cardinality({i \in DOMAIN t : t[i].key <= pivot})
  IN IF before < Len(t) THEN before + 1 ELSE before

(* cudf::upper_bound, a binary search for the first row whose key is       *)
(* greater than the pivot: how many rows come before it, a number between  *)
(* the bounds b.  The flags say ascending, whatever the order of the rows. *)
Narrowed(t, pivot, b) ==
  LET mid == (b[1] + b[2]) \div 2
  IN IF b[1] = b[2] THEN b
     ELSE IF pivot < t[mid + 1].key THEN <<b[1], mid>> ELSE <<mid + 1, b[2]>>

UpperBound(t, pivot) ==
  LET bounds[i \in 0 .. Len(t)] ==
        IF i = 0 THEN <<0, Len(t)>> ELSE Narrowed(t, pivot, bounds[i - 1])
  IN bounds[Len(t)][1]

(* Mutant: the last row is cut off.                                        *)
SplitLosing(t, indices) ==
  [n \in Node |-> SubSeq(t, (IF n = 1 THEN 0 ELSE indices[n - 1]) + 1,
                            IF n = N THEN Len(t) - 1 ELSE indices[n])]

(* split_data_into_NodeColumns: cudf::split at the indices.                *)
Split(t, indices) ==
  [n \in Node |-> SubSeq(t, (IF n = 1 THEN 0 ELSE indices[n - 1]) + 1,
                            IF n = N THEN Len(t) ELSE indices[n])]

(* partitionData.                                                          *)
partitionData(t, isTableSorted) ==
  IF t = <<>> THEN [n \in Node |-> t]
  ELSE LET sorted == IF isTableSorted THEN t ELSE Sort(t, "ASC")
           indexes == [i \in DOMAIN pivots |-> UpperBound(sorted, pivots[i])]
           order == Ranked(indexes)
       IN Split(sorted, [i \in DOMAIN pivots |-> indexes[order[i]]])

(* generateJoinPartitions: the rows by the hash of their key, in the order *)
(* of the table, split at the offsets gdf_hash_partition returns.          *)
generateJoinPartitions(t) ==
  IF t = <<>> THEN [n \in Node |-> t]
  ELSE LET Hashed(n) == Kept(t, {r \in ToSet(t) : hash[r.key] = n})
           output_columns == FlattenSeq([n \in Node |-> Hashed(n)])
           partition_offset == [n \in 1 .. N - 1 |->
                                  Cardinality({i \in DOMAIN t : hash[t[i].key] <= n})]
       IN Split(output_columns, partition_offset)

(* An aggregation without group by sends everything to the master.         *)
ToMaster(t) == [n \in Node |-> IF n = Master THEN t ELSE <<>>]

(* What a node does to its rows before they are split.                     *)
Partitions(t) ==
  CASE op.kind = "sort"      -> partitionData(Sort(t, op.how), TRUE)
    [] op.kind = "group"     -> partitionData(groupby_without_aggregations(t), FALSE)
    [] op.kind = "aggregate" -> partitionData(compute_aggregations(t, op.how, TRUE), FALSE)
    [] op.kind = "total"     -> ToMaster(compute_aggregations(t, op.how, FALSE))
    [] op.kind = "join"      -> generateJoinPartitions(t)

-----------------------------------------------------------------------------
(* The parts a node merges: the others' as they arrive, its own last.      *)
Arrivals(n) == {a \in [1 .. N - 1 -> Node \ {n}] : \A i, j \in 1 .. N - 1 : i # j => a[i] # a[j]}
Received(p, n, arrival) == [i \in 1 .. N |-> IF i = N THEN p[n][n] ELSE p[arrival[i]][n]]

(* sortedMerger: cudf::merge of the sorted parts, one after the other.     *)
sortedMerger(columns, direction) == Sort(FlattenSeq(columns), direction)

groupByWithoutAggregationsMerger(groups) == groupby_without_aggregations(FlattenSeq(groups))

(* Mutant: counts are counted.                                             *)
MergedWithCounted(agg) == agg

(* Counts are summed.  An average of averages is an average.               *)
MergedWith(agg) == IF agg = "COUNT" THEN "SUM" ELSE agg

aggregationsMerger(aggregations, agg, grouped) ==
  LET concat == FlattenSeq(aggregations)
  IN IF concat = <<>> THEN aggregations[1] ELSE compute_aggregations(concat, MergedWith(agg), grouped)

(* concat_columns puts the own part first.                                 *)
concat_columns(columns) == columns[N] \o FlattenSeq(SubSeq(columns, 1, N - 1))

(* What node n makes of the parts: of one table, of two for a join.        *)
Merged(n, columns, right) ==
  CASE op.kind = "sort"      -> sortedMerger(columns, op.how)
    [] op.kind = "group"     -> groupByWithoutAggregationsMerger(columns)
    [] op.kind = "aggregate" -> aggregationsMerger(columns, op.how, TRUE)
    [] op.kind = "total"     -> IF n = Master THEN aggregationsMerger(columns, op.how, FALSE) ELSE <<>>
    [] op.kind = "join"      -> Join(concat_columns(columns), concat_columns(right), op.how)

-----------------------------------------------------------------------------
(* The master has the samples, makes the plan and sends it to all.         *)
Plan ==
  /\ stage = "plan"
  /\ \E s \in AllSamples : pivots' \in PartitionPlans(s)
  /\ stage' = "split"
  /\ UNCHANGED <<inputs, parts, others, output>>

(* Every node splits its rows and sends the parts.                         *)
Distribute ==
  /\ stage = "split"
  /\ parts' = [n \in Node |-> Partitions(table[n])]
  /\ others' = IF op.kind = "join" THEN [n \in Node |-> Partitions(other[n])] ELSE others
  /\ stage' = "merge"
  /\ UNCHANGED <<inputs, pivots, output>>

(* Every node merges its parts, which came to it in some order; for a join *)
(* the parts of one table and then those of the other.                     *)
Merges(n) ==
  IF op.kind = "join"
  THEN {Merged(n, Received(parts, n, a), Received(others, n, b)) : a, b \in Arrivals(n)}
  ELSE {Merged(n, Received(parts, n, a), <<>>) : a \in Arrivals(n)}

Merge ==
  /\ stage = "merge"
  /\ output' \in {o \in [Node -> UNION {Merges(n) : n \in Node}] : \A n \in Node : o[n] \in Merges(n)}
  /\ stage' = "done"
  /\ UNCHANGED <<inputs, pivots, parts, others>>

Next ==
  \/ Plan
  \/ Distribute
  \/ Merge

Spec == Init /\ [][Next]_vars

-----------------------------------------------------------------------------
Done == stage = "done"

TypeOK ==
  /\ table \in Tables /\ other \in Tables
  /\ hash \in [Keys -> Node]
  /\ stage \in {"plan", "split", "merge", "done"}
  /\ stage # "plan" /\ Sampled => pivots \in [1 .. N - 1 -> Keys]
  /\ parts \in [Node -> Tables] /\ others \in [Node -> Tables]
  /\ ~Done => output = [n \in Node |-> Pending]

(* No row is lost or sent twice on the way: the parts that all nodes send  *)
(* to all nodes are the rows they had (or had grouped) before they split   *)
(* them, whatever the pivots are and in whichever order the rows were      *)
(* (partitionData, generateJoinPartitions).                                *)
NothingLost ==
  stage \in {"merge", "done"} =>
    /\ op.kind \in {"sort", "join"} =>
         SameRows(FlattenSeq([n \in Node |-> Whole(parts[n])]), Whole(table))
    /\ op.kind = "join" =>
         SameRows(FlattenSeq([n \in Node |-> Whole(others[n])]), Whole(other))
    /\ op.kind \in {"group", "aggregate"} =>
         \A n \in Node : KeysOf(Whole(parts[n])) = KeysOf(table[n])

(* Rows with the same key meet on one node, whichever nodes they come from *)
(* and whichever table (partitionData, generateJoinPartitions): else a     *)
(* group would have two results and a pair of rows would not join.         *)
KeysMeet ==
  stage \in {"merge", "done"} /\ op.how # "DESC" =>
    \A m, n, c, d \in Node : c # d =>
      /\ KeysOf(parts[m][c]) \cap KeysOf(parts[n][d]) = {}
      /\ KeysOf(parts[m][c]) \cap KeysOf(others[n][d]) = {}

(* The operator keeps the promises of OneNodeOperator: how the rows are    *)
(* spread over the nodes, what was sampled and in which order the parts    *)
(* arrived does not show in the outputs, taken node after node             *)
(* (distributed_sort, distributed_groupby_without_aggregations, the        *)
(* distributed aggregations and joins against those of a single node).     *)
OneNode == INSTANCE OneNodeOperator WITH
  rows <- Whole(table),
  others <- Whole(other),
  result <- IF Done THEN Whole(output) ELSE Pending
AsOnOneNode == OneNode!Spec

(* A sort in descending order is in descending order from the first node   *)
(* to the last (distributed_sort).                                         *)
SortsDescending ==
  op.kind = "sort" /\ op.how = "DESC" /\ Done =>
    \A i \in 1 .. Len(Whole(output)) - 1 : Whole(output)[i].key >= Whole(output)[i + 1].key
=============================================================================
