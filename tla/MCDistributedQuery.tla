------------------------- MODULE MCDistributedQuery -------------------------
(* Queries for DistributedQuery on small clusters.                         *)
EXTENDS DistributedQuery

On(n, plans, fails) == [nodes : {n}, plan : plans, faulty : {fails}]

(* Every round after the first begins with samples and a plan.             *)
Barrier(rest) == {<<k>> \o rest : k \in Kind}

(* On two nodes the rounds come in any order; on three nodes, and where    *)
(* messages are lost and nodes fail, they follow a barrier.                *)
SeparateRounds ==
  On(2, UNION {[1 .. l -> Kind] : l \in 1 .. 3}, FALSE)
    \cup On(2, Barrier(<<"ordered", "ordered">>), TRUE)
    \cup On(3, Barrier(<<"ordered", "ordered">>), FALSE)
    \cup On(3, Barrier(<<"ordered">>), TRUE)

(* The two tables of one join.                                             *)
JoinOfThree == On(3, {<<"table", "table">>}, FALSE)
=============================================================================
