-------------------------- MODULE DistributedQuery --------------------------
(***************************************************************************)
(* The distributed operators of one query (operators/OrderBy.cpp,          *)
(* GroupBy.cpp, JoinOperator.cpp) over the exchange primitives of          *)
(* distribution/primitives.cpp.  Every node runs the same plan; its        *)
(* distributed operators, in the order evaluate_split_query meets them,    *)
(* are the rounds of the query:                                            *)
(*   "ordered"  sort, group by: samples to the master, plan from the       *)
(*              master, then partitions between all nodes;                 *)
(*   "table"    one table of a join: partitions between all nodes;         *)
(*   "total"    aggregation without group by: partitions to the master.    *)
(* A message carries its kind, the context of the query and its sender,    *)
(* and nothing that tells one round from another (MessageFactory.cpp): the *)
(* field "round" below is for the properties only.  The message server     *)
(* (blazingdb::communication, external) keeps for each kind the messages   *)
(* of the context in the order in which they arrive.                       *)
(***************************************************************************)
EXTENDS Naturals, Sequences, FiniteSets

CONSTANTS
  Master,   \* context.getMasterNode()
  Queries   \* the queries: their nodes, their rounds, whether something fails

Kind == {"ordered", "table", "total"}
Query == [nodes : Nat, plan : Seq(Kind), faulty : BOOLEAN]
Largest == CHOOSE n \in {q.nodes : q \in Queries} : \A q \in Queries : q.nodes <= n

ASSUME QueriesAreDistributed == \A q \in Queries : q \in Query /\ q.nodes > 1
ASSUME MasterIsNode == \A q \in Queries : Master \in 1 .. q.nodes

VARIABLES
  query,     \* the query
  round,     \* the round each node is in
  phase,     \* what it does in that round
  todo,      \* the nodes it still has to send to
  taken,     \* the messages its present loop has collected
  planRound, \* the round of the partition plan it uses
  samples,   \* message queues of each node: SampleToNodeMasterMessage
  pivots,    \*   PartitionPivotsMessage
  columns    \*   ColumnDataMessage

queues == <<samples, pivots, columns>>
vars == <<query, round, phase, todo, taken, planRound, queues>>

N == query.nodes      \* context.getTotalNodes()
plan == query.plan
faulty == query.faulty

Node == 1 .. N
Worker == Node \ {Master}
Message == [from : Node, round : Nat]
Phase == {"compute", "sendSamples", "collectSamples", "distributePlan", "getPlan",
          "distribute", "collectPartitions", "failed"}

TypeOK ==
  /\ query \in Queries
  /\ round \in [Node -> 1 .. Len(plan) + 1]
  /\ phase \in [Node -> Phase]
  /\ todo \in [Node -> SUBSET Node]
  /\ taken \in [Node -> Seq(Message)]
  /\ planRound \in [Node -> 0 .. Len(plan)]
  /\ samples \in [Node -> Seq(Message)]
  /\ pivots \in [Node -> Seq(Message)]
  /\ columns \in [Node -> Seq(Message)]

Init ==
  /\ query \in Queries
  /\ round = [n \in Node |-> 1]
  /\ phase = [n \in Node |-> "compute"]
  /\ todo = [n \in Node |-> {}]
  /\ taken = [n \in Node |-> <<>>]
  /\ planRound = [n \in Node |-> 0]
  /\ samples = [n \in Node |-> <<>>]
  /\ pivots = [n \in Node |-> <<>>]
  /\ columns = [n \in Node |-> <<>>]

-----------------------------------------------------------------------------
Goes(n, p) == phase' = [phase EXCEPT ![n] = p]

(* Client::send puts the message in the queue of the other node, or fails  *)
(* and nobody notices.                                                     *)
Sent(queue, n, d) == [queue EXCEPT ![d] = Append(@, [from |-> n, round |-> round[n]])]
Sends(queue, n, d) == {Sent(queue, n, d)} \cup IF faulty THEN {queue} ELSE {}

(* Server::getMessage waits for a message and removes it.                  *)
Gets(queue, n) == queue[n] # <<>> /\ taken' = [taken EXCEPT ![n] = Append(@, Head(queue[n]))]

Rest(queue, n) == [queue EXCEPT ![n] = Tail(@)]

(* How many messages collectSamples and collectPartitions wait for.        *)

(* Mutants: one too few, one too many.                                     *)
ExpectedTooFew == N - 2
ExpectedTooMany == N

Expected == N - 1
Collected(n) == Len(taken[n]) + 1 = Expected

(* The loops over the nodes of the context send in the order of the nodes. *)
InTurn(n, d) == d \in todo[n] /\ \A e \in todo[n] : d <= e

(* Mutant: an operator is skipped.                                         *)
EndTwoRounds(n) ==
  /\ round' = [round EXCEPT ![n] = @ + 2]
  /\ Goes(n, "compute")

EndRound(n) ==
  /\ round' = [round EXCEPT ![n] = @ + 1]
  /\ Goes(n, "compute")

-----------------------------------------------------------------------------
(* The node has done its local work and starts the operator: the samples   *)
(* of sort and group by, or the partitions of the other operators.         *)
Begin(n) ==
  /\ phase[n] = "compute" /\ round[n] <= Len(plan)
  /\ taken' = [taken EXCEPT ![n] = <<>>]
  /\ CASE plan[round[n]] = "ordered" ->
            /\ Goes(n, IF n = Master THEN "collectSamples" ELSE "sendSamples")
            /\ UNCHANGED todo
       [] plan[round[n]] = "table" ->
            /\ Goes(n, "distribute")
            /\ todo' = [todo EXCEPT ![n] = Node \ {n}]
       [] plan[round[n]] = "total" ->
            /\ Goes(n, IF n = Master THEN "collectPartitions" ELSE "distribute")
            /\ todo' = [todo EXCEPT ![n] = IF n = Master THEN {} ELSE {Master}]
  /\ UNCHANGED <<query, round, planRound, queues>>

(* sendSamplesToMaster.                                                    *)
SendSamples(n) ==
  /\ phase[n] = "sendSamples"
  /\ samples' \in Sends(samples, n, Master)
  /\ Goes(n, "getPlan")
  /\ UNCHANGED <<query, round, todo, taken, planRound, pivots, columns>>

(* collectSamples, one turn of its loop, generatePartitionPlans after the  *)
(* last one.                                                               *)
CollectSample(n) ==
  /\ phase[n] = "collectSamples"
  /\ Gets(samples, n)
  /\ samples' = Rest(samples, n)
  /\ IF Collected(n)
       THEN /\ Goes(n, "distributePlan")
            /\ todo' = [todo EXCEPT ![n] = Worker]
            /\ planRound' = [planRound EXCEPT ![n] = round[n]]
       ELSE UNCHANGED <<phase, todo, planRound>>
  /\ UNCHANGED <<query, round, pivots, columns>>

(* The exchange of the partitions starts with nothing collected.           *)
StartDistribute(n) ==
  /\ Goes(n, "distribute")
  /\ todo' = [todo EXCEPT ![n] = Node \ {n}]
  /\ taken' = [taken EXCEPT ![n] = <<>>]

(* distributePartitionPlan, one turn of its loop.                          *)
DistributePlan(n) ==
  /\ phase[n] = "distributePlan"
  /\ \E d \in Worker :
       /\ InTurn(n, d)
       /\ pivots' \in Sends(pivots, n, d)
       /\ IF todo[n] = {d}
            THEN StartDistribute(n)
            ELSE todo' = [todo EXCEPT ![n] = @ \ {d}] /\ UNCHANGED <<phase, taken>>
  /\ UNCHANGED <<query, round, planRound, samples, columns>>

(* Mutant: a worker partitions without waiting for the plan.               *)
GetPlanAtOnce(n) ==
  /\ phase[n] = "getPlan"
  /\ planRound' = [planRound EXCEPT ![n] = round[n]]
  /\ StartDistribute(n)
  /\ UNCHANGED <<query, round, queues>>

(* getPartitionPlan.                                                       *)
GetPlan(n) ==
  /\ phase[n] = "getPlan"
  /\ pivots[n] # <<>>
  /\ planRound' = [planRound EXCEPT ![n] = Head(pivots[n]).round]
  /\ pivots' = Rest(pivots, n)
  /\ StartDistribute(n)
  /\ UNCHANGED <<query, round, samples, columns>>

(* distributePartitions, one turn of its loop.  After an aggregation       *)
(* without group by a worker is done.                                      *)
Distribute(n) ==
  /\ phase[n] = "distribute"
  /\ \E d \in Node :
       /\ InTurn(n, d)
       /\ columns' \in Sends(columns, n, d)
       /\ todo' = [todo EXCEPT ![n] = @ \ {d}]
       /\ IF todo[n] # {d} THEN UNCHANGED <<phase, round>>
          ELSE IF plan[round[n]] = "total" THEN EndRound(n)
          ELSE Goes(n, "collectPartitions") /\ UNCHANGED round
  /\ UNCHANGED <<query, taken, planRound, samples, pivots>>

(* collectPartitions, one turn of its loop; the merge ends the round.      *)
CollectPartition(n) ==
  /\ phase[n] = "collectPartitions"
  /\ Gets(columns, n)
  /\ columns' = Rest(columns, n)
  /\ IF Collected(n) THEN EndRound(n) ELSE UNCHANGED <<phase, round>>
  /\ UNCHANGED <<query, todo, planRound, samples, pivots>>

(* Something throws: the thread of the query stores an error and ends, and *)
(* the other nodes are not told.                                           *)
Fail(n) ==
  /\ faulty
  /\ phase[n] # "failed" /\ round[n] <= Len(plan)
  /\ Goes(n, "failed")
  /\ UNCHANGED <<query, round, todo, taken, planRound, queues>>

Next ==
  \/ \E n \in Node : Begin(n)
  \/ \E n \in Node : SendSamples(n)
  \/ \E n \in Node : CollectSample(n)
  \/ \E n \in Node : DistributePlan(n)
  \/ \E n \in Node : GetPlan(n)
  \/ \E n \in Node : Distribute(n)
  \/ \E n \in Node : CollectPartition(n)
  \/ \E n \in Node : Fail(n)

Spec == Init /\ [][Next]_vars

Step(n) ==
  \/ Begin(n) \/ SendSamples(n) \/ CollectSample(n) \/ DistributePlan(n)
  \/ GetPlan(n) \/ Distribute(n) \/ CollectPartition(n)

(* The thread of the query on each node runs as long as it can.            *)
FairSpec == Spec /\ \A n \in 1 .. Largest : WF_vars(n \in Node /\ Step(n))

-----------------------------------------------------------------------------
(* collectSamples and collectPartitions never take a message of another    *)
(* operator of the query, nor a second one of a node, the last message     *)
(* included; and a node partitions with the plan made from the samples of  *)
(* the same operator.                                                      *)
OfTheRound(q, r) ==
  /\ \A i \in DOMAIN q : q[i].round = r
  /\ \A i, j \in DOMAIN q : i # j => q[i].from # q[j].from

RoundsDoNotMix ==
  [][\A n \in Node :
       /\ taken'[n] # taken[n] => OfTheRound(taken'[n], round[n])
       /\ phase[n] # "distribute" /\ phase'[n] = "distribute" /\ plan[round[n]] = "ordered"
            => planRound'[n] = round[n]]_vars

(* Node m has sent to node n what it owes it in round k, or it threw in    *)
(* that round, before or after.                                            *)
HasSent(m, n, k) ==
  \/ round[m] > k
  \/ round[m] = k /\ phase[m] \in {"collectPartitions", "failed"}
  \/ round[m] = k /\ phase[m] = "distribute" /\ n \notin todo[m]

(* A node leaves a round when all the nodes it merges the data of have     *)
(* sent them (collectPartitions waits for that many).                      *)
LeavesWithAll ==
  [][\A n \in Node : round'[n] # round[n] /\ (n = Master \/ plan[round[n]] # "total") =>
       \A m \in Node \ {n} : HasSent(m, n, round[n])]_vars

(* When nothing fails, every node comes to the end of the query.           *)
AllFinish == ~faulty => <>[](\A n \in Node : round[n] = Len(plan) + 1)
=============================================================================
