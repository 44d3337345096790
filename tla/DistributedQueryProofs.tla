----------------------- MODULE DistributedQueryProofs -----------------------
(***************************************************************************)
(* The exchanges of a query on any number of nodes, with lost messages and *)
(* failing nodes.  When every round after the first is a sort or a group   *)
(* by, its samples and its partition plan hold the nodes together: no      *)
(* message of one round can be taken for one of another.  On two nodes     *)
(* without faults that holds for every plan (the last section).            *)
(***************************************************************************)
EXTENDS DistributedQuery, FiniteSetTheorems, FunctionTheorems, TLAPS

(* What most theorems assume of the queries: only the first round may be   *)
(* one without a partition plan.                                           *)
LaterRoundsAreOrdered ==
  \A q \in Queries : \A r \in 2 .. Len(q.plan) : q.plan[r] = "ordered"

IsOrdered(r) == r \in 1 .. Len(plan) /\ plan[r] = "ordered"
Total(r) == plan[r] = "total"

-----------------------------------------------------------------------------
(* Queues as sets of messages.                                             *)

Messages(q) == {q[i] : i \in DOMAIN q}
NoDuplicate(q) == \A i, j \in DOMAIN q : q[i] = q[j] => i = j
Queue(q) == q \in Seq(Message) /\ NoDuplicate(q)

-----------------------------------------------------------------------------
(* The invariant.                                                          *)

Types ==
  /\ query \in Queries
  /\ round \in [Node -> 1 .. Len(plan) + 1]
  /\ phase \in [Node -> Phase]
  /\ todo \in [Node -> SUBSET Node]
  /\ planRound \in [Node -> 0 .. Len(plan)]
  /\ taken \in [Node -> Seq(Message)]
  /\ samples \in [Node -> Seq(Message)]
  /\ pivots \in [Node -> Seq(Message)]
  /\ columns \in [Node -> Seq(Message)]

(* No message is sent twice.                                               *)
Distinct ==
  \A n \in Node : NoDuplicate(taken[n]) /\ NoDuplicate(samples[n]) /\ NoDuplicate(columns[n])

(* Each phase belongs to a kind of round and of node.                      *)
Role(n) ==
  /\ phase[n] # "compute" => round[n] <= Len(plan)
  /\ phase[n] \in {"collectSamples", "distributePlan"} => n = Master /\ IsOrdered(round[n])
  /\ phase[n] \in {"sendSamples", "getPlan"} => n # Master /\ IsOrdered(round[n])
  /\ phase[n] = "collectPartitions" /\ Total(round[n]) => n = Master
  /\ phase[n] = "distribute" => todo[n] \subseteq Node \ {n} /\ taken[n] = <<>>
  /\ phase[n] = "distribute" /\ Total(round[n]) => n # Master /\ todo[n] \subseteq {Master}
  /\ phase[n] = "distributePlan" => todo[n] \subseteq Worker

Roles == \A n \in Node : Role(n)

(* A node has left only rounds in which all nodes sent it their part.      *)
LeftWithAll ==
  \A d \in Node, n \in Node :
    n # d => \A r \in 1 .. round[d] - 1 : d = Master \/ ~Total(r) => HasSent(n, d, r)

(* The sample of worker w for round r is on its way or was lost.           *)
SentSample(w, r) ==
  \/ round[w] > r
  \/ round[w] = r /\ phase[w] \notin {"compute", "sendSamples"}

SamplesAreNew ==
  /\ \A s \in Messages(samples[Master]) :
       /\ s.from \in Worker /\ IsOrdered(s.round) /\ SentSample(s.from, s.round)
       /\ s.round >= round[Master]
       /\ s.round = round[Master] => phase[Master] \in {"compute", "collectSamples", "failed"}
  /\ phase[Master] = "collectSamples" =>
       \A s \in Messages(taken[Master]) :
         /\ s.from \in Worker /\ s.round = round[Master] /\ SentSample(s.from, s.round)
         /\ s \notin Messages(samples[Master])

(* The master has the samples of all when it makes the plan.               *)
PlannedWithAll ==
  phase[Master] \in {"distributePlan", "distribute", "collectPartitions"}
    /\ IsOrdered(round[Master]) => \A w \in Worker : SentSample(w, round[Master])

AllReached(r) == \A d \in Node : round[d] >= r

(* The master has sent the plan of round r to worker w, or failed.         *)
PlanSent(w, r) ==
  \/ round[Master] > r
  \/ round[Master] = r /\ phase[Master] \in {"distribute", "collectPartitions", "failed"}
  \/ round[Master] = r /\ phase[Master] = "distributePlan" /\ w \notin todo[Master]

PlanIsNew(w) ==
  /\ pivots[w] # <<>> => phase[w] \in {"getPlan", "failed"}
  /\ pivots[w] # <<>> /\ phase[w] = "getPlan" =>
       /\ Len(pivots[w]) = 1 /\ Head(pivots[w]).round = round[w]
       /\ AllReached(round[w]) /\ PlanSent(w, round[w])
  /\ phase[w] \in {"distribute", "collectPartitions"} /\ IsOrdered(round[w]) =>
       PlanSent(w, round[w])
  /\ phase[Master] = "distributePlan" /\ w \in todo[Master] =>
       \/ phase[w] = "failed"
       \/ phase[w] = "getPlan" /\ round[w] = round[Master] /\ pivots[w] = <<>>

PlansAreNew == \A w \in Worker : PlanIsNew(w)

PlanOfTheRound ==
  \A n \in Node :
    /\ phase[n] \in {"distribute", "collectPartitions"} /\ IsOrdered(round[n]) =>
         planRound[n] = round[n] /\ AllReached(round[n])
    /\ phase[n] = "distributePlan" => planRound[n] = round[n]

(* A partition for n belongs to the round n is in.                         *)
PartOf(m, n) ==
  /\ m.from \in Node \ {n} /\ m.round = round[n] /\ round[n] <= Len(plan)
  /\ HasSent(m.from, n, m.round) /\ (Total(m.round) => n = Master)

PartsOf(n) ==
  /\ \A m \in Messages(columns[n]) : PartOf(m, n)
  /\ phase[n] = "collectPartitions" =>
       \A m \in Messages(taken[n]) : PartOf(m, n) /\ m \notin Messages(columns[n])

PartsAreNew == \A n \in Node : PartsOf(n)

IInv ==
  /\ Types /\ Distinct /\ Roles /\ LeftWithAll /\ SamplesAreNew /\ PlannedWithAll
  /\ PlansAreNew /\ PlanOfTheRound /\ PartsAreNew

-----------------------------------------------------------------------------
LEMMA AppendMessage ==
  ASSUME NEW q, Queue(q), NEW m \in Message
  PROVE  /\ Append(q, m) \in Seq(Message)
         /\ Messages(Append(q, m)) = Messages(q) \cup {m}
         /\ m \notin Messages(q) => NoDuplicate(Append(q, m))
<1>1. /\ q \in Seq(Message) /\ Len(q) \in Nat /\ DOMAIN q = 1 .. Len(q)
      /\ DOMAIN Append(q, m) = 1 .. Len(q) + 1
      /\ \A i \in DOMAIN q : Append(q, m)[i] = q[i]
      /\ Append(q, m)[Len(q) + 1] = m
  BY DEF Queue
<1>2. Messages(Append(q, m)) = Messages(q) \cup {m}
  <2>1. \A i \in DOMAIN Append(q, m) : i \in DOMAIN q \/ i = Len(q) + 1
    BY <1>1
  <2>2. DOMAIN q \subseteq DOMAIN Append(q, m) /\ Len(q) + 1 \in DOMAIN Append(q, m)
    BY <1>1
  <2>3. QED
    BY <1>1, <2>1, <2>2 DEF Messages
<1>3. ASSUME m \notin Messages(q) PROVE NoDuplicate(Append(q, m))
  <2>1. \A i \in DOMAIN q : q[i] # m
    BY <1>3 DEF Messages
  <2>2. QED
    BY <1>1, <2>1 DEF Queue, NoDuplicate
<1>4. QED
  BY <1>1, <1>2, <1>3

LEMMA TakeMessage ==
  ASSUME NEW q, Queue(q), q # <<>>
  PROVE  /\ Head(q) \in Messages(q) /\ Head(q) \in Message
         /\ Queue(Tail(q)) /\ Messages(Tail(q)) = Messages(q) \ {Head(q)}
<1>1. /\ q \in Seq(Message) /\ Len(q) \in Nat \ {0} /\ DOMAIN q = 1 .. Len(q)
      /\ Head(q) = q[1] /\ Tail(q) \in Seq(Message)
      /\ DOMAIN Tail(q) = 1 .. Len(q) - 1
      /\ \A i \in DOMAIN Tail(q) : Tail(q)[i] = q[i + 1]
  BY DEF Queue
<1>2. Head(q) \in Messages(q) /\ Head(q) \in Message
  BY <1>1 DEF Messages
<1>3. NoDuplicate(Tail(q))
  <2>1. ASSUME NEW i \in DOMAIN Tail(q), NEW j \in DOMAIN Tail(q), Tail(q)[i] = Tail(q)[j]
        PROVE  i = j
    <3>1. i + 1 \in DOMAIN q /\ j + 1 \in DOMAIN q /\ q[i + 1] = q[j + 1]
      BY <1>1, <2>1
    <3>2. i + 1 = j + 1
      BY <3>1 DEF Queue, NoDuplicate
    <3>3. QED
      BY <1>1, <3>2
  <2>2. QED
    BY <2>1 DEF NoDuplicate
<1>4. Messages(Tail(q)) = Messages(q) \ {Head(q)}
  <2>1. ASSUME NEW i \in DOMAIN Tail(q) PROVE Tail(q)[i] \in Messages(q) \ {Head(q)}
    <3>1. i + 1 \in DOMAIN q /\ Tail(q)[i] = q[i + 1] /\ 1 \in DOMAIN q /\ i + 1 # 1
      BY <1>1, <2>1
    <3>2. q[i + 1] # q[1]
      BY <3>1 DEF Queue, NoDuplicate
    <3>3. QED
      BY <1>1, <3>1, <3>2 DEF Messages
  <2>2. ASSUME NEW k \in DOMAIN q, q[k] # Head(q) PROVE q[k] \in Messages(Tail(q))
    <3>1. k - 1 \in DOMAIN Tail(q) /\ Tail(q)[k - 1] = q[k]
      BY <1>1, <2>2
    <3>2. QED
      BY <3>1 DEF Messages
  <2>3. QED
    BY <2>1, <2>2 DEF Messages
<1>5. QED
  BY <1>1, <1>2, <1>3, <1>4 DEF Queue

LEMMA MessagesOf ==
  ASSUME NEW q, Queue(q)
  PROVE  Messages(q) \subseteq Message
<1>1. \A i \in DOMAIN q : q[i] \in Message
  BY DEF Queue
<1>2. QED
  BY <1>1 DEF Messages

LEMMA NoMessages ==
  /\ Queue(<<>>) /\ Messages(<<>>) = {}
  /\ \A q : Queue(q) /\ Messages(q) = {} => q = <<>>
BY DEF Queue, NoDuplicate, Messages

-----------------------------------------------------------------------------
(* The query does not change, and all messages are of nodes and rounds.    *)

LEMMA QueryFacts ==
  ASSUME Types
  PROVE  /\ N \in Nat /\ N > 1 /\ Master \in Node /\ Node \subseteq Nat
         /\ plan \in Seq(Kind) /\ Len(plan) \in Nat /\ DOMAIN plan = 1 .. Len(plan)
         /\ faulty \in BOOLEAN
<1>1. query \in Queries /\ query \in Query /\ N > 1 /\ Master \in 1 .. N
  BY QueriesAreDistributed, MasterIsNode DEF Types, N
<1>2. N \in Nat /\ plan \in Seq(Kind) /\ faulty \in BOOLEAN
  BY <1>1 DEF Query, N, plan, faulty
<1>3. QED
  BY <1>1, <1>2 DEF Node

(* The types of what belongs to a node.                                    *)
LEMMA TypeFacts ==
  ASSUME Types, NEW n \in Node
  PROVE  /\ n \in Nat /\ round[n] \in Nat \ {0} /\ round[n] <= Len(plan) + 1
         /\ phase[n] \in Phase /\ todo[n] \subseteq Node
         /\ taken[n] \in Seq(Message) /\ samples[n] \in Seq(Message)
         /\ pivots[n] \in Seq(Message) /\ columns[n] \in Seq(Message)
<1>1. Len(plan) \in Nat /\ n \in Nat
  BY QueryFacts
<1>2. round[n] \in 1 .. Len(plan) + 1
  BY DEF Types
<1>3. round[n] \in Nat \ {0} /\ round[n] <= Len(plan) + 1
  BY <1>1, <1>2
<1>4. QED
  BY <1>1, <1>3 DEF Types

LEMMA Fixed ==
  ASSUME query' = query
  PROVE  /\ N' = N /\ plan' = plan /\ faulty' = faulty
         /\ Node' = Node /\ Worker' = Worker /\ Message' = Message
BY DEF N, plan, faulty, Node, Worker, Message

LEMMA QueryStays ==
  ASSUME Next
  PROVE  query' = query
BY DEF Next, Begin, SendSamples, CollectSample, DistributePlan, GetPlan, Distribute,
       CollectPartition, Fail

Out(n) == [from |-> n, round |-> round[n]]

(* What Client::send does to the queues.                                   *)
LEMMA SendEffect ==
  ASSUME NEW queue, NEW n, NEW d, NEW next, next \in Sends(queue, n, d),
         Types, queue \in [Node -> Seq(Message)], n \in Node, d \in Node
  PROVE  /\ next \in [Node -> Seq(Message)]
         /\ \A e \in Node : e # d => next[e] = queue[e]
         /\ next[d] = queue[d] \/ next[d] = Append(queue[d], Out(n))
         /\ Out(n) \in Message
<1>1. Out(n) \in Message
  BY TypeFacts DEF Out, Message
<1>2. next = queue \/ next = [queue EXCEPT ![d] = Append(queue[d], Out(n))]
  BY DEF Sends, Sent, Out
<1>3. Append(queue[d], Out(n)) \in Seq(Message)
  BY <1>1
<1>4. QED
  BY <1>1, <1>2, <1>3

(* What Server::getMessage does to them.                                   *)
LEMMA GetEffect ==
  ASSUME NEW queue, NEW n, queue \in [Node -> Seq(Message)], n \in Node, queue[n] # <<>>
  PROVE  /\ Rest(queue, n) \in [Node -> Seq(Message)]
         /\ Rest(queue, n)[n] = Tail(queue[n])
         /\ \A e \in Node : e # n => Rest(queue, n)[e] = queue[e]
         /\ Head(queue[n]) \in Message
<1>1. queue[n] \in Seq(Message) /\ Tail(queue[n]) \in Seq(Message)
         /\ Head(queue[n]) \in Message
  OBVIOUS
<1>2. QED
  BY <1>1 DEF Rest

-----------------------------------------------------------------------------
(* What each action changes, node by node.                                 *)

Others(n) ==
  \A m \in Node \ {n} :
    /\ round'[m] = round[m] /\ phase'[m] = phase[m] /\ todo'[m] = todo[m]
    /\ taken'[m] = taken[m] /\ planRound'[m] = planRound[m]

NodeTypes ==
  /\ round' \in [Node -> 1 .. Len(plan) + 1]
  /\ phase' \in [Node -> Phase]
  /\ todo' \in [Node -> SUBSET Node]
  /\ planRound' \in [Node -> 0 .. Len(plan)]
  /\ taken' \in [Node -> Seq(Message)]

LEMMA GoesEffect ==
  ASSUME Types, NEW n \in Node, NEW p \in Phase, Goes(n, p)
  PROVE  /\ phase' \in [Node -> Phase] /\ phase'[n] = p
         /\ \A m \in Node \ {n} : phase'[m] = phase[m]
BY DEF Types, Goes

LEMMA EndRoundEffect ==
  ASSUME Types, NEW n \in Node, round[n] <= Len(plan), EndRound(n)
  PROVE  /\ phase' \in [Node -> Phase] /\ phase'[n] = "compute"
         /\ \A m \in Node \ {n} : phase'[m] = phase[m] /\ round'[m] = round[m]
         /\ round' \in [Node -> 1 .. Len(plan) + 1] /\ round'[n] = round[n] + 1
<1>1. "compute" \in Phase /\ Goes(n, "compute")
  BY DEF Phase, EndRound
<1>2. round[n] + 1 \in 1 .. Len(plan) + 1
  BY TypeFacts, QueryFacts
<1>3. round' = [round EXCEPT ![n] = round[n] + 1] /\ round \in [Node -> 1 .. Len(plan) + 1]
  BY DEF EndRound, Types
<1>4. QED
  BY <1>1, <1>2, <1>3, GoesEffect

LEMMA StartEffect ==
  ASSUME Types, NEW n \in Node, StartDistribute(n)
  PROVE  /\ phase' \in [Node -> Phase] /\ phase'[n] = "distribute"
         /\ todo' \in [Node -> SUBSET Node] /\ todo'[n] = Node \ {n}
         /\ taken' \in [Node -> Seq(Message)] /\ taken'[n] = <<>>
         /\ \A m \in Node \ {n} :
              phase'[m] = phase[m] /\ todo'[m] = todo[m] /\ taken'[m] = taken[m]
<1>1. "distribute" \in Phase /\ Goes(n, "distribute")
  BY DEF Phase, StartDistribute
<1>2. todo' = [todo EXCEPT ![n] = Node \ {n}] /\ todo \in [Node -> SUBSET Node]
  BY DEF StartDistribute, Types
<1>3. taken' = [taken EXCEPT ![n] = <<>>] /\ taken \in [Node -> Seq(Message)]
  BY DEF StartDistribute, Types
<1>4. todo' \in [Node -> SUBSET Node] /\ todo'[n] = Node \ {n}
        /\ \A m \in Node \ {n} : todo'[m] = todo[m]
  BY <1>2
<1>5. taken' \in [Node -> Seq(Message)] /\ taken'[n] = <<>>
        /\ \A m \in Node \ {n} : taken'[m] = taken[m]
  BY <1>3
<1>6. QED
  BY <1>1, <1>4, <1>5, GoesEffect

LEMMA TakenEffect ==
  ASSUME Types, NEW n \in Node, NEW q, Gets(q, n), q \in [Node -> Seq(Message)]
  PROVE  /\ taken' \in [Node -> Seq(Message)]
         /\ taken'[n] = Append(taken[n], Head(q[n]))
         /\ \A m \in Node \ {n} : taken'[m] = taken[m]
<1>1. Head(q[n]) \in Message
  BY GetEffect DEF Gets
<1>2. taken' = [taken EXCEPT ![n] = Append(taken[n], Head(q[n]))]
         /\ taken \in [Node -> Seq(Message)]
  BY DEF Gets, Types
<1>3. QED
  BY <1>1, <1>2

LEMMA TodoEffect ==
  ASSUME Types, NEW n \in Node, NEW S \in SUBSET Node, todo' = [todo EXCEPT ![n] = S]
  PROVE  /\ todo' \in [Node -> SUBSET Node] /\ todo'[n] = S
         /\ \A m \in Node \ {n} : todo'[m] = todo[m]
BY DEF Types

LEMMA BeginEffect ==
  ASSUME Types, NEW n \in Node, Begin(n)
  PROVE  /\ NodeTypes /\ Others(n)
         /\ round' = round /\ planRound' = planRound
         /\ samples' = samples /\ pivots' = pivots /\ columns' = columns
         /\ phase[n] = "compute" /\ round[n] \in 1 .. Len(plan) /\ taken'[n] = <<>>
         /\ \/ IsOrdered(round[n]) /\ n = Master /\ phase'[n] = "collectSamples"
            \/ IsOrdered(round[n]) /\ n # Master /\ phase'[n] = "sendSamples"
            \/ plan[round[n]] = "table" /\ phase'[n] = "distribute" /\ todo'[n] = Node \ {n}
            \/ Total(round[n]) /\ n = Master /\ phase'[n] = "collectPartitions"
            \/ /\ Total(round[n]) /\ n # Master /\ phase'[n] = "distribute"
               /\ todo'[n] = {Master}
<1>1. /\ round' = round /\ planRound' = planRound
      /\ samples' = samples /\ pivots' = pivots /\ columns' = columns
      /\ phase[n] = "compute" /\ round[n] <= Len(plan)
      /\ taken' = [taken EXCEPT ![n] = <<>>]
  BY DEF Begin, queues
<1>2. round[n] \in 1 .. Len(plan) /\ plan[round[n]] \in Kind /\ Master \in Node
  BY <1>1, TypeFacts, QueryFacts
<1>3. taken' \in [Node -> Seq(Message)] /\ taken'[n] = <<>>
         /\ \A m \in Node \ {n} : taken'[m] = taken[m]
  BY <1>1 DEF Types
<1>4. {"collectSamples", "sendSamples", "distribute", "collectPartitions"} \subseteq Phase
  BY DEF Phase
<1>5. round' \in [Node -> 1 .. Len(plan) + 1] /\ planRound' \in [Node -> 0 .. Len(plan)]
  BY <1>1 DEF Types
<1>6. todo \in [Node -> SUBSET Node]
  BY DEF Types
<1>7. CASE plan[round[n]] = "ordered"
  <2>1. todo' = todo /\ IsOrdered(round[n])
    BY <1>2, <1>7 DEF Begin, IsOrdered
  <2>2. PICK p \in Phase : /\ Goes(n, p)
                           /\ p = IF n = Master THEN "collectSamples" ELSE "sendSamples"
    BY <1>4, <1>7 DEF Begin
  <2>3. /\ phase' \in [Node -> Phase] /\ phase'[n] = p
        /\ \A m \in Node \ {n} : phase'[m] = phase[m]
    BY <2>2, GoesEffect
  <2>4. NodeTypes
    BY <1>3, <1>5, <1>6, <2>1, <2>3 DEF NodeTypes
  <2>5. Others(n)
    BY <1>1, <1>3, <2>1, <2>3 DEF Others
  <2>6. QED
    BY <1>1, <1>2, <1>3, <2>1, <2>2, <2>3, <2>4, <2>5
<1>8. CASE plan[round[n]] = "table"
  <2>1. todo' = [todo EXCEPT ![n] = Node \ {n}] /\ Goes(n, "distribute")
    BY <1>8 DEF Begin
  <2>2. /\ phase' \in [Node -> Phase] /\ phase'[n] = "distribute"
        /\ \A m \in Node \ {n} : phase'[m] = phase[m]
    BY <1>4, <2>1, GoesEffect
  <2>3. /\ todo' \in [Node -> SUBSET Node] /\ todo'[n] = Node \ {n}
        /\ \A m \in Node \ {n} : todo'[m] = todo[m]
    <3>1. Node \ {n} \in SUBSET Node
      OBVIOUS
    <3>2. QED
      BY <2>1, <3>1, TodoEffect
  <2>4. NodeTypes
    BY <1>3, <1>5, <2>2, <2>3 DEF NodeTypes
  <2>5. Others(n)
    BY <1>1, <1>3, <2>2, <2>3 DEF Others
  <2>6. QED
    BY <1>1, <1>2, <1>3, <1>8, <2>2, <2>3, <2>4, <2>5
<1>9. CASE plan[round[n]] = "total"
  <2>1. /\ Goes(n, IF n = Master THEN "collectPartitions" ELSE "distribute")
        /\ todo' = [todo EXCEPT ![n] = IF n = Master THEN {} ELSE {Master}]
    BY <1>9 DEF Begin
  <2>2. PICK p \in Phase, S \in SUBSET Node :
          /\ p = (IF n = Master THEN "collectPartitions" ELSE "distribute")
          /\ S = (IF n = Master THEN {} ELSE {Master})
    BY <1>2, <1>4
  <2>3. /\ phase' \in [Node -> Phase] /\ phase'[n] = p
        /\ \A m \in Node \ {n} : phase'[m] = phase[m]
    BY <2>1, <2>2, GoesEffect
  <2>4. /\ todo' \in [Node -> SUBSET Node] /\ todo'[n] = S
        /\ \A m \in Node \ {n} : todo'[m] = todo[m]
    <3>1. todo' = [todo EXCEPT ![n] = S]
      BY <2>1, <2>2
    <3>2. QED
      BY <3>1, TodoEffect
  <2>5. NodeTypes
    BY <1>3, <1>5, <2>3, <2>4 DEF NodeTypes
  <2>6. Others(n)
    BY <1>1, <1>3, <2>3, <2>4 DEF Others
  <2>7. QED
    BY <1>1, <1>2, <1>3, <1>9, <2>2, <2>3, <2>4, <2>5, <2>6 DEF Total
<1>10. QED
  BY <1>2, <1>7, <1>8, <1>9 DEF Kind

LEMMA SendSamplesEffect ==
  ASSUME Types, NEW n \in Node, SendSamples(n)
  PROVE  /\ NodeTypes /\ Others(n)
         /\ round' = round /\ planRound' = planRound /\ todo' = todo /\ taken' = taken
         /\ pivots' = pivots /\ columns' = columns
         /\ phase[n] = "sendSamples" /\ phase'[n] = "getPlan"
         /\ samples' \in [Node -> Seq(Message)] /\ Out(n) \in Message
         /\ \A e \in Node \ {Master} : samples'[e] = samples[e]
         /\ \/ samples'[Master] = samples[Master]
            \/ samples'[Master] = Append(samples[Master], Out(n))
<1>1. /\ round' = round /\ planRound' = planRound /\ todo' = todo /\ taken' = taken
      /\ pivots' = pivots /\ columns' = columns
      /\ phase[n] = "sendSamples" /\ Goes(n, "getPlan") /\ samples' \in Sends(samples, n, Master)
  BY DEF SendSamples
<1>2. /\ samples' \in [Node -> Seq(Message)] /\ Out(n) \in Message
      /\ \A e \in Node \ {Master} : samples'[e] = samples[e]
      /\ \/ samples'[Master] = samples[Master]
         \/ samples'[Master] = Append(samples[Master], Out(n))
  <2>1. Master \in Node /\ samples \in [Node -> Seq(Message)]
    BY QueryFacts DEF Types
  <2>2. QED
    BY <1>1, <2>1, SendEffect
<1>3. "getPlan" \in Phase
  BY DEF Phase
<1>4. phase' \in [Node -> Phase] /\ phase'[n] = "getPlan"
         /\ \A m \in Node \ {n} : phase'[m] = phase[m]
  BY <1>1, <1>3, GoesEffect
<1>5. NodeTypes
  BY <1>1, <1>4 DEF NodeTypes, Types
<1>6. QED
  BY <1>1, <1>2, <1>4, <1>5 DEF Others

LEMMA CollectSampleEffect ==
  ASSUME Types, Roles, NEW n \in Node, CollectSample(n)
  PROVE  /\ NodeTypes /\ Others(n) /\ n = Master
         /\ round' = round /\ pivots' = pivots /\ columns' = columns
         /\ phase[n] = "collectSamples" /\ IsOrdered(round[n])
         /\ samples[n] # <<>> /\ samples'[n] = Tail(samples[n])
         /\ samples' \in [Node -> Seq(Message)]
         /\ taken'[n] = Append(taken[n], Head(samples[n]))
         /\ \A e \in Node \ {n} : samples'[e] = samples[e]
         /\ \/ /\ Len(taken[n]) + 1 = N - 1 /\ phase'[n] = "distributePlan"
               /\ todo'[n] = Worker /\ planRound'[n] = round[n]
            \/ phase'[n] = phase[n] /\ todo'[n] = todo[n] /\ planRound'[n] = planRound[n]
<1>1. /\ round' = round /\ pivots' = pivots /\ columns' = columns
      /\ phase[n] = "collectSamples" /\ Gets(samples, n) /\ samples' = Rest(samples, n)
  BY DEF CollectSample
<1>2. n = Master /\ IsOrdered(round[n]) /\ round[n] \in 0 .. Len(plan)
  BY <1>1, TypeFacts, QueryFacts DEF Roles, Role
<1>3. samples \in [Node -> Seq(Message)] /\ samples[n] # <<>>
  BY <1>1 DEF Types, Gets
<1>4. /\ samples' \in [Node -> Seq(Message)] /\ samples'[n] = Tail(samples[n])
      /\ \A e \in Node \ {n} : samples'[e] = samples[e]
  BY <1>1, <1>3, GetEffect
<1>5. /\ taken' \in [Node -> Seq(Message)]
      /\ taken'[n] = Append(taken[n], Head(samples[n]))
      /\ \A m \in Node \ {n} : taken'[m] = taken[m]
  BY <1>1, <1>3, TakenEffect
<1>6. CASE Collected(n)
  <2>1. /\ Goes(n, "distributePlan") /\ todo' = [todo EXCEPT ![n] = Worker]
        /\ planRound' = [planRound EXCEPT ![n] = round[n]] /\ Len(taken[n]) + 1 = N - 1
    BY <1>6 DEF CollectSample, Collected, Expected
  <2>2. "distributePlan" \in Phase /\ Worker \in SUBSET Node
    BY DEF Phase, Worker
  <2>3. planRound' \in [Node -> 0 .. Len(plan)] /\ planRound'[n] = round[n]
           /\ \A m \in Node \ {n} : planRound'[m] = planRound[m]
    BY <1>2, <2>1 DEF Types
  <2>4. round' \in [Node -> 1 .. Len(plan) + 1]
    BY <1>1 DEF Types
  <2>5. /\ phase' \in [Node -> Phase] /\ phase'[n] = "distributePlan"
        /\ \A m \in Node \ {n} : phase'[m] = phase[m]
    BY <2>1, <2>2, GoesEffect
  <2>6. /\ todo' \in [Node -> SUBSET Node] /\ todo'[n] = Worker
        /\ \A m \in Node \ {n} : todo'[m] = todo[m]
    BY <2>1, <2>2, TodoEffect
  <2>7. NodeTypes
    BY <1>5, <2>3, <2>4, <2>5, <2>6 DEF NodeTypes
  <2>8. Others(n)
    BY <1>1, <1>5, <2>3, <2>5, <2>6 DEF Others
  <2>9. QED
    BY <1>1, <1>2, <1>3, <1>4, <1>5, <2>1, <2>3, <2>5, <2>6, <2>7, <2>8
<1>7. CASE ~Collected(n)
  <2>1. phase' = phase /\ todo' = todo /\ planRound' = planRound
    BY <1>7 DEF CollectSample
  <2>2. NodeTypes
    BY <1>1, <1>5, <2>1 DEF NodeTypes, Types
  <2>3. QED
    BY <1>1, <1>2, <1>3, <1>4, <1>5, <2>1, <2>2 DEF Others
<1>8. QED
  BY <1>6, <1>7

LEMMA DistributePlanEffect ==
  ASSUME Types, Roles, NEW n \in Node, DistributePlan(n)
  PROVE  /\ NodeTypes /\ Others(n) /\ n = Master /\ IsOrdered(round[n])
         /\ round' = round /\ planRound' = planRound
         /\ samples' = samples /\ columns' = columns
         /\ phase[n] = "distributePlan" /\ pivots' \in [Node -> Seq(Message)]
         /\ \E d \in Worker :
              /\ d \in todo[n]
              /\ \A e \in Node \ {d} : pivots'[e] = pivots[e]
              /\ pivots'[d] = pivots[d] \/ pivots'[d] = Append(pivots[d], Out(n))
              /\ \/ /\ phase'[n] = "distribute" /\ todo'[n] = Node \ {n}
                    /\ taken'[n] = <<>>
                 \/ /\ phase'[n] = "distributePlan" /\ todo'[n] = todo[n] \ {d}
                    /\ taken'[n] = taken[n]
<1>1. /\ round' = round /\ planRound' = planRound /\ samples' = samples
      /\ columns' = columns /\ phase[n] = "distributePlan"
  BY DEF DistributePlan
<1>2. n = Master /\ IsOrdered(round[n]) /\ Worker \subseteq Node
  BY <1>1 DEF Roles, Role, Worker
<1>3. PICK d \in Worker :
        /\ InTurn(n, d) /\ pivots' \in Sends(pivots, n, d)
        /\ IF todo[n] = {d} THEN StartDistribute(n)
             ELSE todo' = [todo EXCEPT ![n] = todo[n] \ {d}] /\ UNCHANGED <<phase, taken>>
  BY DEF DistributePlan
<1>4. d \in todo[n] /\ d \in Node
  BY <1>2, <1>3 DEF InTurn
<1>5. /\ pivots' \in [Node -> Seq(Message)]
      /\ \A e \in Node \ {d} : pivots'[e] = pivots[e]
      /\ pivots'[d] = pivots[d] \/ pivots'[d] = Append(pivots[d], Out(n))
  <2>1. pivots \in [Node -> Seq(Message)]
    BY DEF Types
  <2>2. QED
    BY <1>3, <1>4, <2>1, SendEffect
<1>6. round' \in [Node -> 1 .. Len(plan) + 1] /\ planRound' \in [Node -> 0 .. Len(plan)]
  BY <1>1 DEF Types
<1>7. CASE todo[n] = {d}
  <2>1. StartDistribute(n)
    BY <1>3, <1>7
  <2>2. NodeTypes /\ Others(n)
    BY <1>1, <1>6, <2>1, StartEffect DEF NodeTypes, Others
  <2>3. QED
    BY <1>1, <1>2, <1>4, <1>5, <2>1, <2>2, StartEffect
<1>8. CASE todo[n] # {d}
  <2>1. todo' = [todo EXCEPT ![n] = todo[n] \ {d}] /\ phase' = phase /\ taken' = taken
    BY <1>3, <1>8
  <2>2. todo[n] \ {d} \in SUBSET Node
    BY TypeFacts
  <2>3. phase' \in [Node -> Phase] /\ taken' \in [Node -> Seq(Message)]
    BY <2>1 DEF Types
  <2>4. NodeTypes /\ Others(n) /\ todo'[n] = todo[n] \ {d}
    BY <1>1, <1>6, <2>1, <2>2, <2>3, TodoEffect DEF NodeTypes, Others
  <2>5. QED
    BY <1>1, <1>2, <1>4, <1>5, <2>1, <2>4
<1>9. QED
  BY <1>7, <1>8

LEMMA GetPlanEffect ==
  ASSUME Types, Roles, PlansAreNew, NEW n \in Node, GetPlan(n)
  PROVE  /\ NodeTypes /\ Others(n) /\ n # Master /\ IsOrdered(round[n])
         /\ round' = round /\ samples' = samples /\ columns' = columns
         /\ phase[n] = "getPlan" /\ phase'[n] = "distribute"
         /\ todo'[n] = Node \ {n} /\ taken'[n] = <<>> /\ planRound'[n] = round[n]
         /\ AllReached(round[n]) /\ PlanSent(n, round[n])
         /\ pivots[n] # <<>> /\ pivots' \in [Node -> Seq(Message)] /\ pivots'[n] = <<>>
         /\ \A e \in Node \ {n} : pivots'[e] = pivots[e]
<1>1. /\ round' = round /\ samples' = samples /\ columns' = columns
      /\ phase[n] = "getPlan" /\ pivots[n] # <<>> /\ pivots' = Rest(pivots, n)
      /\ planRound' = [planRound EXCEPT ![n] = Head(pivots[n]).round] /\ StartDistribute(n)
  BY DEF GetPlan
<1>2. n # Master /\ IsOrdered(round[n]) /\ n \in Worker /\ round[n] <= Len(plan)
  BY <1>1 DEF Roles, Role, Worker
<1>3. /\ Len(pivots[n]) = 1 /\ Head(pivots[n]).round = round[n]
      /\ AllReached(round[n]) /\ PlanSent(n, round[n])
  BY <1>1, <1>2 DEF PlansAreNew, PlanIsNew
<1>4. pivots \in [Node -> Seq(Message)]
  BY DEF Types
<1>5. /\ pivots' \in [Node -> Seq(Message)] /\ pivots'[n] = Tail(pivots[n])
      /\ \A e \in Node \ {n} : pivots'[e] = pivots[e]
  BY <1>1, <1>4, GetEffect
<1>6. Tail(pivots[n]) = <<>>
  <2>1. pivots[n] \in Seq(Message) /\ Len(pivots[n]) = 1
    BY <1>3, <1>4
  <2>2. Tail(pivots[n]) \in Seq(Message) /\ Len(Tail(pivots[n])) = 0
    <3>1. \A S : \A q \in Seq(S) : Len(q) = 1 => Tail(q) \in Seq(S) /\ Len(Tail(q)) = 0
      OBVIOUS
    <3>2. QED
      BY <2>1, <3>1
  <2>3. \A q \in Seq(Message) : Len(q) = 0 => q = <<>>
    OBVIOUS
  <2>4. QED
    BY <2>2, <2>3
<1>7. round[n] \in 0 .. Len(plan)
  BY <1>2, TypeFacts, QueryFacts
<1>8. planRound' \in [Node -> 0 .. Len(plan)] /\ planRound'[n] = round[n]
         /\ \A m \in Node \ {n} : planRound'[m] = planRound[m]
  BY <1>1, <1>3, <1>7 DEF Types
<1>9. NodeTypes /\ Others(n)
  <2>1. round' \in [Node -> 1 .. Len(plan) + 1]
    BY <1>1 DEF Types
  <2>2. QED
    BY <1>1, <1>8, <2>1, StartEffect DEF NodeTypes, Others
<1>10. QED
  BY <1>1, <1>2, <1>3, <1>5, <1>6, <1>8, <1>9, StartEffect

LEMMA DistributeEffect ==
  ASSUME Types, Roles, NEW n \in Node, Distribute(n)
  PROVE  /\ NodeTypes /\ Others(n)
         /\ taken' = taken /\ planRound' = planRound
         /\ samples' = samples /\ pivots' = pivots
         /\ phase[n] = "distribute" /\ columns' \in [Node -> Seq(Message)]
         /\ Out(n) \in Message
         /\ \E d \in Node :
              /\ d \in todo[n] /\ todo'[n] = todo[n] \ {d}
              /\ \A e \in Node \ {d} : columns'[e] = columns[e]
              /\ columns'[d] = columns[d] \/ columns'[d] = Append(columns[d], Out(n))
              /\ \/ phase'[n] = "distribute" /\ round'[n] = round[n]
                 \/ phase'[n] = "collectPartitions" /\ round'[n] = round[n] /\ ~Total(round[n])
                 \/ phase'[n] = "compute" /\ round'[n] = round[n] + 1 /\ Total(round[n])
<1>1. /\ taken' = taken /\ planRound' = planRound /\ samples' = samples
      /\ pivots' = pivots /\ phase[n] = "distribute"
  BY DEF Distribute
<1>2. PICK d \in Node :
        /\ InTurn(n, d) /\ columns' \in Sends(columns, n, d)
        /\ todo' = [todo EXCEPT ![n] = todo[n] \ {d}]
        /\ IF todo[n] # {d} THEN UNCHANGED <<phase, round>>
             ELSE IF plan[round[n]] = "total" THEN EndRound(n)
             ELSE Goes(n, "collectPartitions") /\ UNCHANGED round
  BY DEF Distribute
<1>3. d \in todo[n] /\ round[n] <= Len(plan) /\ "collectPartitions" \in Phase
  BY <1>1, <1>2 DEF InTurn, Roles, Role, Phase
<1>4. /\ columns' \in [Node -> Seq(Message)] /\ Out(n) \in Message
      /\ \A e \in Node \ {d} : columns'[e] = columns[e]
      /\ columns'[d] = columns[d] \/ columns'[d] = Append(columns[d], Out(n))
  <2>1. columns \in [Node -> Seq(Message)]
    BY DEF Types
  <2>2. QED
    BY <1>2, <2>1, SendEffect
<1>5. /\ todo' \in [Node -> SUBSET Node] /\ todo'[n] = todo[n] \ {d}
      /\ \A m \in Node \ {n} : todo'[m] = todo[m]
  <2>1. todo[n] \ {d} \in SUBSET Node
    BY TypeFacts
  <2>2. QED
    BY <1>2, <2>1, TodoEffect
<1>6. taken' \in [Node -> Seq(Message)] /\ planRound' \in [Node -> 0 .. Len(plan)]
  BY <1>1 DEF Types
<1>7. round \in [Node -> 1 .. Len(plan) + 1] /\ phase \in [Node -> Phase]
  BY DEF Types
<1>8. CASE todo[n] # {d}
  <2>1. phase' = phase /\ round' = round
    BY <1>2, <1>8
  <2>2. QED
    BY <1>1, <1>3, <1>4, <1>5, <1>6, <1>7, <2>1 DEF NodeTypes, Others
<1>9. CASE todo[n] = {d} /\ plan[round[n]] = "total"
  <2>1. EndRound(n)
    BY <1>2, <1>9
  <2>2. QED
    BY <1>1, <1>3, <1>4, <1>5, <1>6, <1>9, <2>1, EndRoundEffect DEF NodeTypes, Others, Total
<1>10. CASE todo[n] = {d} /\ plan[round[n]] # "total"
  <2>1. Goes(n, "collectPartitions") /\ round' = round
    BY <1>2, <1>10
  <2>2. QED
    BY <1>1, <1>3, <1>4, <1>5, <1>6, <1>7, <1>10, <2>1, GoesEffect
       DEF NodeTypes, Others, Total
<1>11. QED
  BY <1>8, <1>9, <1>10

LEMMA CollectPartitionEffect ==
  ASSUME Types, Roles, NEW n \in Node, CollectPartition(n)
  PROVE  /\ NodeTypes /\ Others(n)
         /\ todo' = todo /\ planRound' = planRound
         /\ samples' = samples /\ pivots' = pivots
         /\ phase[n] = "collectPartitions" /\ round[n] <= Len(plan)
         /\ Total(round[n]) => n = Master
         /\ columns[n] # <<>> /\ columns'[n] = Tail(columns[n])
         /\ columns' \in [Node -> Seq(Message)]
         /\ taken'[n] = Append(taken[n], Head(columns[n]))
         /\ \A e \in Node \ {n} : columns'[e] = columns[e]
         /\ \/ /\ Len(taken[n]) + 1 = N - 1 /\ phase'[n] = "compute"
               /\ round'[n] = round[n] + 1
            \/ phase'[n] = phase[n] /\ round'[n] = round[n]
<1>1. /\ todo' = todo /\ planRound' = planRound /\ samples' = samples /\ pivots' = pivots
      /\ phase[n] = "collectPartitions" /\ Gets(columns, n) /\ columns' = Rest(columns, n)
  BY DEF CollectPartition
<1>2. round[n] <= Len(plan) /\ (Total(round[n]) => n = Master)
  BY <1>1 DEF Roles, Role
<1>3. columns \in [Node -> Seq(Message)] /\ columns[n] # <<>>
  BY <1>1 DEF Types, Gets
<1>4. /\ columns' \in [Node -> Seq(Message)] /\ columns'[n] = Tail(columns[n])
      /\ \A e \in Node \ {n} : columns'[e] = columns[e]
  BY <1>1, <1>3, GetEffect
<1>5. /\ taken' \in [Node -> Seq(Message)]
      /\ taken'[n] = Append(taken[n], Head(columns[n]))
      /\ \A m \in Node \ {n} : taken'[m] = taken[m]
  BY <1>1, <1>3, TakenEffect
<1>6. todo' \in [Node -> SUBSET Node] /\ planRound' \in [Node -> 0 .. Len(plan)]
  BY <1>1 DEF Types
<1>7. CASE Collected(n)
  <2>1. EndRound(n) /\ Len(taken[n]) + 1 = N - 1
    BY <1>7 DEF CollectPartition, Collected, Expected
  <2>2. QED
    BY <1>1, <1>2, <1>3, <1>4, <1>5, <1>6, <2>1, EndRoundEffect DEF NodeTypes, Others
<1>8. CASE ~Collected(n)
  <2>1. phase' = phase /\ round' = round
    BY <1>8 DEF CollectPartition
  <2>2. phase' \in [Node -> Phase] /\ round' \in [Node -> 1 .. Len(plan) + 1]
    BY <2>1 DEF Types
  <2>3. QED
    BY <1>1, <1>2, <1>3, <1>4, <1>5, <1>6, <2>1, <2>2 DEF NodeTypes, Others
<1>9. QED
  BY <1>7, <1>8

LEMMA FailEffect ==
  ASSUME Types, NEW n \in Node, Fail(n)
  PROVE  /\ NodeTypes /\ Others(n)
         /\ round' = round /\ planRound' = planRound /\ todo' = todo /\ taken' = taken
         /\ samples' = samples /\ pivots' = pivots /\ columns' = columns
         /\ phase[n] # "failed" /\ phase'[n] = "failed" /\ round[n] <= Len(plan)
<1>1. /\ round' = round /\ planRound' = planRound /\ todo' = todo /\ taken' = taken
      /\ samples' = samples /\ pivots' = pivots /\ columns' = columns
      /\ phase[n] # "failed" /\ Goes(n, "failed") /\ round[n] <= Len(plan)
  BY DEF Fail, queues
<1>2. "failed" \in Phase
  BY DEF Phase
<1>3. /\ round' \in [Node -> 1 .. Len(plan) + 1] /\ planRound' \in [Node -> 0 .. Len(plan)]
      /\ todo' \in [Node -> SUBSET Node] /\ taken' \in [Node -> Seq(Message)]
  BY <1>1 DEF Types
<1>4. QED
  BY <1>1, <1>2, <1>3, GoesEffect DEF NodeTypes, Others

-----------------------------------------------------------------------------
LEMMA TypesKept ==
  ASSUME IInv, Next
  PROVE  Types'
<1>1. query' = query /\ plan' = plan /\ Node' = Node /\ Message' = Message
  BY QueryStays, Fixed
<1>2. Types /\ Roles /\ PlansAreNew
  BY DEF IInv
<1>3. /\ NodeTypes
      /\ samples' \in [Node -> Seq(Message)] /\ pivots' \in [Node -> Seq(Message)]
      /\ columns' \in [Node -> Seq(Message)]
  <2>1. /\ samples \in [Node -> Seq(Message)] /\ pivots \in [Node -> Seq(Message)]
        /\ columns \in [Node -> Seq(Message)]
    BY <1>2 DEF Types
  <2>2. CASE \E n \in Node : Begin(n)
    BY <1>2, <2>1, <2>2, BeginEffect
  <2>3. CASE \E n \in Node : SendSamples(n)
    BY <1>2, <2>1, <2>3, SendSamplesEffect
  <2>4. CASE \E n \in Node : CollectSample(n)
    BY <1>2, <2>1, <2>4, CollectSampleEffect
  <2>5. CASE \E n \in Node : DistributePlan(n)
    BY <1>2, <2>1, <2>5, DistributePlanEffect
  <2>6. CASE \E n \in Node : GetPlan(n)
    BY <1>2, <2>1, <2>6, GetPlanEffect
  <2>7. CASE \E n \in Node : Distribute(n)
    BY <1>2, <2>1, <2>7, DistributeEffect
  <2>8. CASE \E n \in Node : CollectPartition(n)
    BY <1>2, <2>1, <2>8, CollectPartitionEffect
  <2>9. CASE \E n \in Node : Fail(n)
    BY <1>2, <2>1, <2>9, FailEffect
  <2>10. QED
    BY <2>2, <2>3, <2>4, <2>5, <2>6, <2>7, <2>8, <2>9 DEF Next
<1>4. query' \in Queries
  BY <1>1, <1>2 DEF Types
<1>5. QED
  BY <1>1, <1>3, <1>4 DEF Types, NodeTypes

-----------------------------------------------------------------------------
(* How a node moves: it keeps its phase, goes to a later one of the round, *)
(* or ends the round.                                                      *)
Onward(n) ==
  /\ round'[n] = round[n] /\ phase'[n] # "compute" /\ phase[n] # "failed"
  /\ phase[n] = "sendSamples" => phase'[n] \in {"getPlan", "failed"}
  /\ phase[n] = "collectSamples" => phase'[n] \in {"distributePlan", "failed"}
  /\ phase[n] \in {"getPlan", "distributePlan"} => phase'[n] \in {"distribute", "failed"}
  /\ phase[n] = "distribute" => phase'[n] \in {"collectPartitions", "failed"}
  /\ phase[n] = "collectPartitions" => phase'[n] = "failed"

Moves(n) ==
  \/ round'[n] = round[n] /\ phase'[n] = phase[n] /\ todo'[n] \subseteq todo[n]
  \/ Onward(n)
  \/ /\ round'[n] = round[n] + 1 /\ phase'[n] = "compute"
     /\ phase[n] \in {"distribute", "collectPartitions"}

LEMMA NodesMove ==
  ASSUME IInv, Next
  PROVE  \A n \in Node : Moves(n)
<1>1. Types /\ Roles /\ PlansAreNew
  BY DEF IInv
<1>2. \A n \in Node : Others(n) /\ Moves(n) => \A m \in Node : Moves(m)
  BY DEF Others, Moves
<1>3. ASSUME NEW n \in Node, Begin(n) PROVE Others(n) /\ Moves(n)
  BY <1>1, <1>3, BeginEffect DEF Moves, Onward
<1>4. ASSUME NEW n \in Node, SendSamples(n) PROVE Others(n) /\ Moves(n)
  BY <1>1, <1>4, SendSamplesEffect DEF Moves, Onward
<1>5. ASSUME NEW n \in Node, CollectSample(n) PROVE Others(n) /\ Moves(n)
  BY <1>1, <1>5, CollectSampleEffect DEF Moves, Onward
<1>6. ASSUME NEW n \in Node, DistributePlan(n) PROVE Others(n) /\ Moves(n)
  BY <1>1, <1>6, DistributePlanEffect DEF Moves, Onward
<1>7. ASSUME NEW n \in Node, GetPlan(n) PROVE Others(n) /\ Moves(n)
  BY <1>1, <1>7, GetPlanEffect DEF Moves, Onward
<1>8. ASSUME NEW n \in Node, Distribute(n) PROVE Others(n) /\ Moves(n)
  BY <1>1, <1>8, DistributeEffect DEF Moves, Onward
<1>9. ASSUME NEW n \in Node, CollectPartition(n) PROVE Others(n) /\ Moves(n)
  BY <1>1, <1>9, CollectPartitionEffect DEF Moves, Onward
<1>10. ASSUME NEW n \in Node, Fail(n) PROVE Others(n) /\ Moves(n)
  BY <1>1, <1>10, FailEffect DEF Moves, Onward
<1>11. QED
  BY <1>2, <1>3, <1>4, <1>5, <1>6, <1>7, <1>8, <1>9, <1>10 DEF Next

(* What has been sent stays sent.                                          *)
LEMMA SentStaysSent ==
  ASSUME Types, Types', query' = query, \A n \in Node : Moves(n)
  PROVE  /\ \A m \in Node, n \in Node, r \in Nat : HasSent(m, n, r) => HasSent(m, n, r)'
         /\ \A w \in Node, r \in Nat : SentSample(w, r) => SentSample(w, r)'
         /\ \A w \in Node, r \in Nat : PlanSent(w, r) => PlanSent(w, r)'
         /\ \A r \in Nat : AllReached(r) => AllReached(r)'
<1>1. Node' = Node /\ plan' = plan /\ Master \in Node
  BY Fixed, QueryFacts
<1>2. \A n \in Node : /\ round[n] \in Nat /\ round'[n] \in Nat
                     /\ phase[n] \in Phase /\ phase'[n] \in Phase
  <2>1. \A n \in Node : round[n] \in Nat /\ phase[n] \in Phase
    BY TypeFacts
  <2>2. phase' \in [Node -> Phase]
    BY <1>1 DEF Types
  <2>3. \A n \in Node : round'[n] \in Nat
    BY <2>1 DEF Moves, Onward
  <2>4. QED
    BY <2>1, <2>2, <2>3
<1>3. ASSUME NEW m \in Node, NEW n \in Node, NEW r \in Nat, HasSent(m, n, r)
      PROVE  HasSent(m, n, r)'
  BY <1>2, <1>3 DEF HasSent, Moves, Onward, Phase
<1>4. ASSUME NEW w \in Node, NEW r \in Nat, SentSample(w, r) PROVE SentSample(w, r)'
  BY <1>2, <1>4 DEF SentSample, Moves, Onward, Phase
<1>5. ASSUME NEW w \in Node, NEW r \in Nat, PlanSent(w, r) PROVE PlanSent(w, r)'
  BY <1>1, <1>2, <1>5 DEF PlanSent, Moves, Onward, Phase
<1>6. ASSUME NEW r \in Nat, AllReached(r) PROVE AllReached(r)'
  <2>1. \A d \in Node : round'[d] >= round[d]
    BY <1>2 DEF Moves, Onward
  <2>2. QED
    BY <1>1, <1>2, <1>6, <2>1 DEF AllReached
<1>7. QED
  BY <1>3, <1>4, <1>5, <1>6

LEMMA StepFacts ==
  ASSUME IInv, Next
  PROVE  /\ query' = query /\ N' = N /\ plan' = plan /\ Node' = Node /\ Worker' = Worker
         /\ Types /\ Types' /\ Distinct /\ Roles
         /\ \A n \in Node : Moves(n)
<1>1. query' = query
  BY QueryStays
<1>2. QED
  BY <1>1, Fixed, TypesKept, NodesMove DEF IInv

LEMMA SentFacts ==
  ASSUME IInv, Next
  PROVE  /\ \A m \in Node, n \in Node, r \in Nat : HasSent(m, n, r) => HasSent(m, n, r)'
         /\ \A w \in Node, r \in Nat : SentSample(w, r) => SentSample(w, r)'
         /\ \A w \in Node, r \in Nat : PlanSent(w, r) => PlanSent(w, r)'
         /\ \A r \in Nat : AllReached(r) => AllReached(r)'
BY StepFacts, SentStaysSent

-----------------------------------------------------------------------------
LEMMA RolesKept ==
  ASSUME IInv, Next
  PROVE  Roles'
<1>1. /\ plan' = plan /\ Node' = Node /\ Worker' = Worker
      /\ Types /\ Roles /\ PlansAreNew
  BY StepFacts DEF IInv
<1>2. ASSUME NEW n \in Node, Others(n), Role(n)' PROVE Roles'
  <2>1. ASSUME NEW m \in Node \ {n} PROVE Role(m)'
    <3>1. /\ round'[m] = round[m] /\ phase'[m] = phase[m] /\ todo'[m] = todo[m]
          /\ taken'[m] = taken[m] /\ Role(m)
      BY <1>1, <1>2 DEF Others, Roles
    <3>2. QED
      BY <1>1, <3>1 DEF Role, IsOrdered, Total
  <2>2. QED
    BY <1>1, <1>2, <2>1 DEF Roles
<1>3. ASSUME NEW n \in Node, Begin(n) PROVE Others(n) /\ Role(n)'
  <2>1. /\ Others(n) /\ round'[n] = round[n] /\ round[n] <= Len(plan) /\ taken'[n] = <<>>
        /\ \/ IsOrdered(round[n]) /\ n = Master /\ phase'[n] = "collectSamples"
           \/ IsOrdered(round[n]) /\ n # Master /\ phase'[n] = "sendSamples"
           \/ plan[round[n]] = "table" /\ phase'[n] = "distribute" /\ todo'[n] = Node \ {n}
           \/ Total(round[n]) /\ n = Master /\ phase'[n] = "collectPartitions"
           \/ /\ Total(round[n]) /\ n # Master /\ phase'[n] = "distribute"
              /\ todo'[n] = {Master}
    BY <1>1, <1>3, BeginEffect, QueryFacts
  <2>2. Master \in Node
    BY <1>1, QueryFacts
  <2>3. QED
    BY <1>1, <2>1, <2>2 DEF Role, IsOrdered, Total
<1>4. ASSUME NEW n \in Node, SendSamples(n) PROVE Others(n) /\ Role(n)'
  BY <1>1, <1>4, SendSamplesEffect DEF Role, Roles, IsOrdered, Total
<1>5. ASSUME NEW n \in Node, CollectSample(n) PROVE Others(n) /\ Role(n)'
  BY <1>1, <1>5, CollectSampleEffect DEF Role, Roles, IsOrdered, Total
<1>6. ASSUME NEW n \in Node, DistributePlan(n) PROVE Others(n) /\ Role(n)'
  BY <1>1, <1>6, DistributePlanEffect DEF Role, Roles, IsOrdered, Total
<1>7. ASSUME NEW n \in Node, GetPlan(n) PROVE Others(n) /\ Role(n)'
  BY <1>1, <1>7, GetPlanEffect DEF Role, Roles, IsOrdered, Total
<1>8. ASSUME NEW n \in Node, Distribute(n) PROVE Others(n) /\ Role(n)'
  BY <1>1, <1>8, DistributeEffect DEF Role, Roles, IsOrdered, Total
<1>9. ASSUME NEW n \in Node, CollectPartition(n) PROVE Others(n) /\ Role(n)'
  BY <1>1, <1>9, CollectPartitionEffect DEF Role, Roles, IsOrdered, Total
<1>10. ASSUME NEW n \in Node, Fail(n) PROVE Others(n) /\ Role(n)'
  BY <1>1, <1>10, FailEffect DEF Role, Roles, IsOrdered, Total
<1>11. QED
  BY <1>2, <1>3, <1>4, <1>5, <1>6, <1>7, <1>8, <1>9, <1>10 DEF Next

-----------------------------------------------------------------------------
(* What a loop has collected when it takes one message more.               *)
LEMMA TakeOne ==
  ASSUME NEW t, NEW q, Queue(t), Queue(q), q # <<>>, Messages(t) \cap Messages(q) = {}
  PROVE  /\ Queue(Append(t, Head(q))) /\ Queue(Tail(q))
         /\ Head(q) \in Messages(q) /\ Head(q) \in Message
         /\ Messages(Append(t, Head(q))) = Messages(t) \cup {Head(q)}
         /\ Messages(Tail(q)) = Messages(q) \ {Head(q)}
         /\ Messages(Append(t, Head(q))) \cap Messages(Tail(q)) = {}
         /\ Len(Append(t, Head(q))) = Len(t) + 1
<1>1. /\ Head(q) \in Messages(q) /\ Head(q) \in Message
      /\ Queue(Tail(q)) /\ Messages(Tail(q)) = Messages(q) \ {Head(q)}
  BY TakeMessage
<1>2. Head(q) \notin Messages(t)
  BY <1>1
<1>3. /\ Append(t, Head(q)) \in Seq(Message) /\ NoDuplicate(Append(t, Head(q)))
      /\ Messages(Append(t, Head(q))) = Messages(t) \cup {Head(q)}
  BY <1>1, <1>2, AppendMessage
<1>4. Len(Append(t, Head(q))) = Len(t) + 1
  BY DEF Queue
<1>5. QED
  BY <1>1, <1>3, <1>4 DEF Queue

(* As many messages of one round as there are other nodes, from other      *)
(* nodes and no two alike, are from all of them.                           *)
LEMMA AllAreIn ==
  ASSUME Types, NEW n \in Node, NEW r, NEW q, Queue(q), Len(q) = N - 1,
         \A m \in Messages(q) : m.from \in Node \ {n} /\ m.round = r,
         NEW d \in Node \ {n}
  PROVE  [from |-> d, round |-> r] \in Messages(q)
<1> DEFINE S == 1 .. N - 1
           T == Node \ {n}
           f == [i \in S |-> q[i].from]
<1> N \in Nat \ {0} /\ Node = 1 .. N
  BY QueryFacts DEF Node
<1>1. DOMAIN q = S /\ \A i \in S : q[i] \in Message /\ q[i] \in Messages(q)
  BY DEF Queue, Messages
<1>2. f \in [S -> T] /\ \A i \in S : f[i] = q[i].from
  BY <1>1
<1>3. ASSUME NEW i \in S, NEW j \in S, f[i] = f[j] PROVE i = j
  <2>1. q[i].from = q[j].from /\ q[i].round = q[j].round
    BY <1>1, <1>3
  <2>2. q[i] = q[j]
    BY <1>1, <2>1 DEF Message
  <2>3. QED
    BY <1>1, <2>2 DEF Queue, NoDuplicate
<1>4. IsFiniteSet(S) /\ Cardinality(S) = N - 1
  <2>1. 1 \in Int /\ N - 1 \in Int /\ (IF 1 > N - 1 THEN 0 ELSE N - 1 - 1 + 1) = N - 1
    OBVIOUS
  <2>2. QED
    BY <2>1, FS_Interval
<1>5. IsFiniteSet(T) /\ Cardinality(T) = N - 1
  <2>1. 1 \in Int /\ N \in Int /\ (IF 1 > N THEN 0 ELSE N - 1 + 1) = N
    OBVIOUS
  <2>2. IsFiniteSet(1 .. N) /\ Cardinality(1 .. N) = N
    BY <2>1, FS_Interval
  <2>3. QED
    BY <2>2, FS_RemoveElement
<1> HIDE DEF S, T, f
<1>6. f \in Injection(S, T)
  BY <1>2, <1>3, Fun_IsInj
<1>7. f \in Surjection(S, T)
  BY <1>4, <1>5, <1>6, FS_Injection
<1>8. PICK i \in S : f[i] = d
  <2>1. d \in T
    BY DEF T
  <2>2. \A t \in T : \E s \in S : f[s] = t
    BY <1>7, Fun_SurjectionProperties
  <2>3. QED
    BY <2>1, <2>2
<1>9. q[i] = [from |-> d, round |-> r]
  BY <1>1, <1>2, <1>8 DEF Message
<1>10. QED
  BY <1>1, <1>9

LEMMA QueuesOf ==
  ASSUME Types, Distinct, NEW n \in Node
  PROVE  Queue(taken[n]) /\ Queue(samples[n]) /\ Queue(columns[n])
BY TypeFacts DEF Distinct, Queue

-----------------------------------------------------------------------------
(* The samples of a round.                                                 *)

(* A sample that is sent is of the round the master is in, or of a later   *)
(* one, and the master does not have it.                                   *)
LEMMA NewSample ==
  ASSUME IInv, NEW n \in Node, SendSamples(n)
  PROVE  /\ n \in Worker /\ IsOrdered(round[n]) /\ ~SentSample(n, round[n])
         /\ Out(n) \notin Messages(samples[Master])
         /\ phase[Master] = "collectSamples" => Out(n) \notin Messages(taken[Master])
         /\ round[n] >= round[Master]
         /\ round[n] = round[Master] => phase[Master] \in {"compute", "collectSamples", "failed"}
<1>1. /\ Types /\ Roles /\ LeftWithAll /\ SamplesAreNew /\ PlannedWithAll /\ Master \in Node
      /\ round[n] \in Nat \ {0} /\ round[Master] \in Nat \ {0}
  BY QueryFacts, TypeFacts DEF IInv
<1>2. phase[n] = "sendSamples" /\ n \in Worker /\ IsOrdered(round[n])
  BY <1>1, SendSamplesEffect DEF Roles, Role, Worker
<1>3. ~SentSample(n, round[n])
  BY <1>1, <1>2 DEF SentSample
<1>4. Out(n) \notin Messages(samples[Master])
  BY <1>1, <1>3 DEF SamplesAreNew, Out
<1>5. ASSUME phase[Master] = "collectSamples" PROVE Out(n) \notin Messages(taken[Master])
  BY <1>1, <1>3, <1>5 DEF SamplesAreNew, Out
<1>6. round[n] >= round[Master]
  <2>1. SUFFICES ASSUME round[n] <= round[Master] - 1 PROVE FALSE
    BY <1>1
  <2>2. round[n] \in 1 .. round[Master] - 1
    BY <1>1, <2>1
  <2>3. HasSent(n, Master, round[n])
    BY <1>1, <1>2, <2>2 DEF LeftWithAll, Worker
  <2>4. QED
    BY <1>1, <1>2, <2>3 DEF HasSent
<1>7. ASSUME round[n] = round[Master]
      PROVE  phase[Master] \in {"compute", "collectSamples", "failed"}
  <2>1. phase[Master] \notin {"sendSamples", "getPlan"} /\ phase[Master] \in Phase
    BY <1>1, TypeFacts DEF Roles, Role
  <2>2. phase[Master] \notin {"distributePlan", "distribute", "collectPartitions"}
    BY <1>1, <1>2, <1>3, <1>7 DEF PlannedWithAll
  <2>3. QED
    BY <2>1, <2>2 DEF Phase
<1>8. QED
  BY <1>2, <1>3, <1>4, <1>5, <1>6, <1>7

(* A sample that is collected is of the round, and with the last one all   *)
(* workers have sent theirs.                                               *)
LEMMA TakenSample ==
  ASSUME IInv, NEW n \in Node, CollectSample(n)
  PROVE  /\ Queue(taken'[n]) /\ Queue(samples'[n])
         /\ Messages(samples'[n]) \subseteq Messages(samples[n])
         /\ \A s \in Messages(taken'[n]) :
              /\ s.from \in Worker /\ s.round = round[n] /\ SentSample(s.from, s.round)
              /\ s \notin Messages(samples'[n])
         /\ Len(taken[n]) + 1 = N - 1 =>
              \A w \in Worker :
                /\ SentSample(w, round[n])
                /\ [from |-> w, round |-> round[n]] \notin Messages(samples'[n])
<1>1. /\ Types /\ Distinct /\ Roles /\ LeftWithAll /\ SamplesAreNew
      /\ round[n] \in Nat \ {0}
  BY TypeFacts DEF IInv
<1>2. /\ n = Master /\ phase[n] = "collectSamples" /\ IsOrdered(round[n])
      /\ samples[n] # <<>> /\ samples'[n] = Tail(samples[n])
      /\ taken'[n] = Append(taken[n], Head(samples[n]))
  BY <1>1, CollectSampleEffect
<1>3. /\ Queue(taken[n]) /\ Queue(samples[n])
      /\ Messages(taken[n]) \cap Messages(samples[n]) = {}
  BY <1>1, <1>2, QueuesOf DEF SamplesAreNew
<1>4. /\ Queue(taken'[n]) /\ Queue(samples'[n])
      /\ Head(samples[n]) \in Messages(samples[n]) /\ Head(samples[n]) \in Message
      /\ Messages(taken'[n]) = Messages(taken[n]) \cup {Head(samples[n])}
      /\ Messages(samples'[n]) \subseteq Messages(samples[n])
      /\ Messages(taken'[n]) \cap Messages(samples'[n]) = {}
      /\ Len(taken'[n]) = Len(taken[n]) + 1
  BY <1>2, <1>3, TakeOne
<1> DEFINE s == Head(samples[n])
<1>5. s.from \in Worker /\ s.round >= round[n] /\ SentSample(s.from, s.round) /\ s.round \in Nat
  BY <1>1, <1>2, <1>4 DEF SamplesAreNew, Message
<1>6. s.round = round[n]
  <2>1. SUFFICES ASSUME s.round > round[n] PROVE FALSE
    BY <1>1, <1>5
  <2>2. s.from \in Node /\ s.from # n /\ round[s.from] \in Nat /\ n # s.from
    BY <1>1, <1>2, <1>5, TypeFacts DEF Worker
  <2>3. round[n] \in 1 .. round[s.from] - 1
    BY <1>1, <1>5, <2>1, <2>2 DEF SentSample
  <2>4. ~Total(round[n])
    BY <1>2 DEF IsOrdered, Total
  <2>5. HasSent(n, s.from, round[n])
    BY <1>1, <2>2, <2>3, <2>4 DEF LeftWithAll
  <2>6. QED
    BY <1>1, <1>2, <2>5 DEF HasSent
<1>7. \A m \in Messages(taken'[n]) :
         m.from \in Worker /\ m.round = round[n] /\ SentSample(m.from, m.round)
  BY <1>1, <1>2, <1>4, <1>5, <1>6 DEF SamplesAreNew
<1>8. ASSUME Len(taken[n]) + 1 = N - 1, NEW w \in Worker
      PROVE  /\ SentSample(w, round[n])
             /\ [from |-> w, round |-> round[n]] \notin Messages(samples'[n])
  <2>1. \A m \in Messages(taken'[n]) : m.from \in Node \ {n} /\ m.round = round[n]
    BY <1>2, <1>7 DEF Worker
  <2>2. w \in Node \ {n}
    BY <1>2 DEF Worker
  <2>3. Len(taken'[n]) = N - 1
    BY <1>4, <1>8
  <2>4. [from |-> w, round |-> round[n]] \in Messages(taken'[n])
    BY <1>1, <1>4, <2>1, <2>2, <2>3, AllAreIn
  <2>5. QED
    BY <1>4, <1>7, <2>4
<1>9. QED
  BY <1>4, <1>7, <1>8

New == {"compute", "collectSamples", "failed"}

LEMMA SamplesKept ==
  ASSUME IInv, Next
  PROVE  SamplesAreNew'
<1>1. /\ plan' = plan /\ Node' = Node /\ Worker' = Worker /\ Master \in Node
      /\ Types /\ Distinct /\ Roles /\ SamplesAreNew /\ PlansAreNew
      /\ round[Master] \in Nat \ {0} /\ Worker \subseteq Node
  BY StepFacts, QueryFacts, TypeFacts DEF IInv, Worker
<1>2. \A w \in Worker, r \in Nat : SentSample(w, r) => SentSample(w, r)'
  BY <1>1, SentFacts
<1>3. Queue(samples[Master]) /\ Queue(taken[Master])
  BY <1>1, QueuesOf
<1>4. \A s \in Messages(samples[Master]) :
        /\ s.from \in Worker /\ s.round \in Nat /\ IsOrdered(s.round) /\ IsOrdered(s.round)'
        /\ SentSample(s.from, s.round)' /\ s.round >= round[Master]
        /\ s.round = round[Master] => phase[Master] \in New
  <2>1. \A s \in Messages(samples[Master]) : s.round \in Nat
    BY <1>3, MessagesOf DEF Message
  <2>2. QED
    BY <1>1, <1>2, <2>1 DEF SamplesAreNew, IsOrdered, New
<1>5. ASSUME samples'[Master] = samples[Master],
             \/ /\ round'[Master] = round[Master] /\ phase'[Master] = phase[Master]
                /\ taken'[Master] = taken[Master]
             \/ round'[Master] = round[Master] /\ phase'[Master] = "failed"
             \/ /\ round'[Master] = round[Master] /\ phase'[Master] = "collectSamples"
                /\ taken'[Master] = <<>>
             \/ /\ round'[Master] = round[Master] /\ phase'[Master] # "collectSamples"
                /\ phase[Master] \notin New \/ ~IsOrdered(round[Master])
             \/ /\ round'[Master] = round[Master] + 1 /\ phase'[Master] = "compute"
                /\ phase[Master] \notin New
      PROVE  SamplesAreNew'
  <2>1. ASSUME NEW s \in Messages(samples[Master])
        PROVE  s.round >= round'[Master] /\ (s.round = round'[Master] => phase'[Master] \in New)
    BY <1>1, <1>4, <1>5, <2>1 DEF New
  <2>2. ASSUME phase'[Master] = "collectSamples", NEW s \in Messages(taken'[Master])
        PROVE  /\ s.from \in Worker /\ s.round = round'[Master] /\ SentSample(s.from, s.round)'
               /\ s \notin Messages(samples'[Master])
    <3>1. taken'[Master] # <<>>
      BY <2>2, NoMessages
    <3>2. /\ round'[Master] = round[Master] /\ phase'[Master] = phase[Master]
          /\ taken'[Master] = taken[Master]
      BY <1>5, <2>2, <3>1
    <3>3. QED
      BY <1>1, <1>2, <1>5, <2>2, <3>2 DEF SamplesAreNew
  <2>3. QED
    BY <1>1, <1>4, <1>5, <2>1, <2>2 DEF SamplesAreNew, New
<1>6. ASSUME NEW n \in Node, Begin(n) PROVE SamplesAreNew'
  BY <1>1, <1>5, <1>6, BeginEffect DEF Others, IsOrdered, Total
<1>7. ASSUME NEW n \in Node, SendSamples(n) PROVE SamplesAreNew'
  <2>1. /\ n \in Worker /\ n # Master /\ IsOrdered(round[n]) /\ ~SentSample(n, round[n])
        /\ Out(n) \notin Messages(samples[Master])
        /\ phase[Master] = "collectSamples" => Out(n) \notin Messages(taken[Master])
        /\ round[n] >= round[Master]
        /\ round[n] = round[Master] => phase[Master] \in New
    BY <1>7, NewSample DEF New, Worker
  <2>2. /\ round' = round /\ taken' = taken /\ phase'[Master] = phase[Master]
        /\ phase'[n] = "getPlan" /\ Out(n) \in Message
        /\ samples'[Master] = samples[Master] \/ samples'[Master] = Append(samples[Master], Out(n))
    BY <1>1, <1>7, <2>1, SendSamplesEffect DEF Others
  <2>3. CASE samples'[Master] = samples[Master]
    BY <1>5, <2>2, <2>3
  <2>4. CASE samples'[Master] = Append(samples[Master], Out(n))
    <3>1. Messages(samples'[Master]) = Messages(samples[Master]) \cup {Out(n)}
      BY <1>3, <2>2, <2>4, AppendMessage
    <3>2. Out(n).from = n /\ Out(n).round = round[n] /\ SentSample(n, round[n])'
             /\ IsOrdered(round[n])'
      BY <1>1, <2>1, <2>2 DEF Out, SentSample, IsOrdered
    <3>3. \A s \in Messages(samples'[Master]) :
            /\ s.from \in Worker /\ IsOrdered(s.round)' /\ SentSample(s.from, s.round)'
            /\ s.round >= round'[Master]
            /\ s.round = round'[Master] => phase'[Master] \in New
      BY <1>4, <2>1, <2>2, <3>1, <3>2
    <3>4. ASSUME phase'[Master] = "collectSamples", NEW s \in Messages(taken'[Master])
          PROVE  /\ s.from \in Worker /\ s.round = round'[Master] /\ SentSample(s.from, s.round)'
                 /\ s \notin Messages(samples'[Master])
      BY <1>1, <1>2, <2>1, <2>2, <3>1, <3>4 DEF SamplesAreNew
    <3>5. QED
      BY <1>1, <3>3, <3>4 DEF SamplesAreNew, New
  <2>5. QED
    BY <2>2, <2>3, <2>4
<1>8. ASSUME NEW n \in Node, CollectSample(n) PROVE SamplesAreNew'
  <2>1. /\ n = Master /\ round' = round /\ phase[n] = "collectSamples"
        /\ \/ Len(taken[n]) + 1 = N - 1 /\ phase'[n] = "distributePlan"
           \/ phase'[n] = phase[n]
    BY <1>1, <1>8, CollectSampleEffect
  <2>2. /\ Queue(taken'[n]) /\ Queue(samples'[n])
        /\ Messages(samples'[n]) \subseteq Messages(samples[n])
        /\ \A s \in Messages(taken'[n]) :
             /\ s.from \in Worker /\ s.round = round[n] /\ SentSample(s.from, s.round)
             /\ s \notin Messages(samples'[n])
        /\ Len(taken[n]) + 1 = N - 1 =>
             \A w \in Worker : [from |-> w, round |-> round[n]] \notin Messages(samples'[n])
    BY <1>8, TakenSample
  <2>3. ASSUME NEW s \in Messages(samples'[Master]), s.round = round'[Master]
        PROVE  phase'[Master] \in New
    <3>1. SUFFICES ASSUME Len(taken[n]) + 1 = N - 1 PROVE FALSE
      BY <2>1 DEF New
    <3>2. s \in Message /\ s.from \in Worker
      BY <1>3, <1>4, <2>1, <2>2, <2>3, MessagesOf
    <3>3. s = [from |-> s.from, round |-> round[n]]
      BY <2>1, <2>3, <3>2 DEF Message
    <3>4. QED
      BY <2>1, <2>2, <3>1, <3>2, <3>3
  <2>4. \A s \in Messages(taken'[Master]) :
          /\ s.from \in Worker /\ s.round = round'[Master] /\ SentSample(s.from, s.round)'
          /\ s \notin Messages(samples'[Master])
    BY <1>1, <1>2, <2>1, <2>2
  <2>5. \A s \in Messages(samples'[Master]) :
          /\ s.from \in Worker /\ IsOrdered(s.round)' /\ SentSample(s.from, s.round)'
          /\ s.round >= round'[Master]
    BY <1>4, <2>1, <2>2
  <2>6. QED
    BY <1>1, <2>3, <2>4, <2>5 DEF SamplesAreNew, New
<1>9. ASSUME NEW n \in Node, DistributePlan(n) PROVE SamplesAreNew'
  BY <1>1, <1>5, <1>9, DistributePlanEffect DEF New
<1>10. ASSUME NEW n \in Node, GetPlan(n) PROVE SamplesAreNew'
  BY <1>1, <1>5, <1>10, GetPlanEffect DEF Others
<1>11. ASSUME NEW n \in Node, Distribute(n) PROVE SamplesAreNew'
  <2>1. n = Master => ~Total(round[n])
    BY <1>1, <1>11, DistributeEffect DEF Roles, Role
  <2>2. QED
    BY <1>1, <1>5, <1>11, <2>1, DistributeEffect DEF Others, New
<1>12. ASSUME NEW n \in Node, CollectPartition(n) PROVE SamplesAreNew'
  BY <1>1, <1>5, <1>12, CollectPartitionEffect DEF Others, New
<1>13. ASSUME NEW n \in Node, Fail(n) PROVE SamplesAreNew'
  BY <1>1, <1>5, <1>13, FailEffect DEF Others
<1>14. QED
  BY <1>6, <1>7, <1>8, <1>9, <1>10, <1>11, <1>12, <1>13 DEF Next

LEMMA PlannedKept ==
  ASSUME IInv, Next
  PROVE  PlannedWithAll'
<1>1. /\ plan' = plan /\ Node' = Node /\ Worker' = Worker /\ Master \in Node
      /\ Types /\ Roles /\ PlannedWithAll /\ PlansAreNew
      /\ round[Master] \in Nat \ {0} /\ Worker \subseteq Node
  BY StepFacts, QueryFacts, TypeFacts DEF IInv, Worker
<1>2. \A w \in Worker, r \in Nat : SentSample(w, r) => SentSample(w, r)'
  BY <1>1, SentFacts
<1> DEFINE Planned == {"distributePlan", "distribute", "collectPartitions"}
<1>3. ASSUME \/ phase'[Master] \notin Planned
             \/ round'[Master] = round[Master] /\ phase[Master] \in Planned
             \/ round'[Master] = round[Master] /\ ~IsOrdered(round[Master])
      PROVE  PlannedWithAll'
  BY <1>1, <1>2, <1>3 DEF PlannedWithAll, IsOrdered
<1>4. ASSUME NEW n \in Node, Begin(n) PROVE PlannedWithAll'
  BY <1>1, <1>3, <1>4, BeginEffect DEF Others, IsOrdered, Total
<1>5. ASSUME NEW n \in Node, SendSamples(n) PROVE PlannedWithAll'
  BY <1>1, <1>3, <1>5, SendSamplesEffect DEF Others
<1>6. ASSUME NEW n \in Node, CollectSample(n) PROVE PlannedWithAll'
  <2>1. /\ n = Master /\ round' = round /\ phase[n] = "collectSamples"
        /\ \/ Len(taken[n]) + 1 = N - 1 /\ phase'[n] = "distributePlan"
           \/ phase'[n] = phase[n]
    BY <1>1, <1>6, CollectSampleEffect
  <2>2. Len(taken[n]) + 1 = N - 1 => \A w \in Worker : SentSample(w, round[n])
    BY <1>6, TakenSample
  <2>3. QED
    BY <1>1, <1>2, <2>1, <2>2 DEF PlannedWithAll
<1>7. ASSUME NEW n \in Node, DistributePlan(n) PROVE PlannedWithAll'
  BY <1>1, <1>3, <1>7, DistributePlanEffect DEF Others
<1>8. ASSUME NEW n \in Node, GetPlan(n) PROVE PlannedWithAll'
  BY <1>1, <1>3, <1>8, GetPlanEffect DEF Others
<1>9. ASSUME NEW n \in Node, Distribute(n) PROVE PlannedWithAll'
  BY <1>1, <1>3, <1>9, DistributeEffect DEF Others
<1>10. ASSUME NEW n \in Node, CollectPartition(n) PROVE PlannedWithAll'
  BY <1>1, <1>3, <1>10, CollectPartitionEffect DEF Others
<1>11. ASSUME NEW n \in Node, Fail(n) PROVE PlannedWithAll'
  BY <1>1, <1>3, <1>11, FailEffect DEF Others
<1>12. QED
  BY <1>4, <1>5, <1>6, <1>7, <1>8, <1>9, <1>10, <1>11 DEF Next

LEMMA PlansKept ==
  ASSUME IInv, Next
  PROVE  PlansAreNew'
<1>1. /\ plan' = plan /\ Node' = Node /\ Worker' = Worker /\ Master \in Node
      /\ Types /\ Roles /\ PlannedWithAll /\ PlansAreNew /\ LeftWithAll
      /\ Worker \subseteq Node /\ Master \notin Worker
      /\ \A n \in Node : round[n] \in Nat \ {0}
  BY StepFacts, QueryFacts, TypeFacts DEF IInv, Worker
<1>2. /\ \A w \in Worker, r \in Nat : PlanSent(w, r) => PlanSent(w, r)'
      /\ \A r \in Nat : AllReached(r) => AllReached(r)'
  BY <1>1, SentFacts
<1> SUFFICES ASSUME NEW w \in Worker PROVE PlanIsNew(w)'
  BY <1>1 DEF PlansAreNew
<1>3. PlanIsNew(w) /\ w \in Node /\ w # Master /\ round[w] \in Nat
  BY <1>1 DEF PlansAreNew
<1>4. ASSUME round'[w] = round[w], phase'[w] = phase[w], pivots'[w] = pivots[w],
             \/ phase'[Master] # "distributePlan"
             \/ /\ phase[Master] = "distributePlan" /\ round'[Master] = round[Master]
                /\ todo'[Master] \subseteq todo[Master]
      PROVE  PlanIsNew(w)'
  BY <1>1, <1>2, <1>3, <1>4 DEF PlanIsNew, IsOrdered
<1>5. ASSUME NEW n \in Node, Begin(n) PROVE PlanIsNew(w)'
  <2>1. /\ Others(n) /\ round' = round /\ pivots' = pivots /\ phase[n] = "compute"
        /\ phase'[n] \in {"collectSamples", "sendSamples", "distribute", "collectPartitions"}
        /\ IsOrdered(round[n]) => phase'[n] \in {"collectSamples", "sendSamples"}
    BY <1>1, <1>5, BeginEffect DEF IsOrdered, Total
  <2>2. CASE w = n
    BY <1>1, <1>3, <2>1, <2>2 DEF PlanIsNew, Others, IsOrdered
  <2>3. CASE w # n
    BY <1>1, <1>3, <1>4, <2>1, <2>3 DEF Others
  <2>4. QED
    BY <2>2, <2>3
<1>6. ASSUME NEW n \in Node, SendSamples(n) PROVE PlanIsNew(w)'
  <2>1. /\ Others(n) /\ round' = round /\ pivots' = pivots /\ phase[n] = "sendSamples"
        /\ phase'[n] = "getPlan" /\ n # Master
    BY <1>1, <1>6, SendSamplesEffect DEF Roles, Role
  <2>2. CASE w = n
    BY <1>1, <1>3, <2>1, <2>2 DEF PlanIsNew, Others, IsOrdered
  <2>3. CASE w # n
    BY <1>1, <1>3, <1>4, <2>1, <2>3 DEF Others
  <2>4. QED
    BY <2>2, <2>3
<1>7. ASSUME NEW n \in Node, CollectSample(n) PROVE PlanIsNew(w)'
  <2>1. /\ Others(n) /\ n = Master /\ round' = round /\ pivots' = pivots
        /\ phase[n] = "collectSamples" /\ IsOrdered(round[n])
        /\ \/ Len(taken[n]) + 1 = N - 1 /\ phase'[n] = "distributePlan"
           \/ phase'[n] = phase[n]
    BY <1>1, <1>7, CollectSampleEffect
  <2>2. Len(taken[n]) + 1 = N - 1 => SentSample(w, round[n])
    BY <1>7, TakenSample
  <2>3. CASE phase'[n] = phase[n]
    BY <1>1, <1>3, <1>4, <2>1, <2>3 DEF Others
  <2>4. CASE phase'[n] = "distributePlan"
    <3>1. SentSample(w, round[n])
      BY <2>1, <2>2, <2>4
    <3>2. round[w] = round[n]
      <4>1. SUFFICES ASSUME round[w] > round[n] PROVE FALSE
        BY <1>1, <1>3, <3>1 DEF SentSample
      <4>2. round[n] \in 1 .. round[w] - 1 /\ ~Total(round[n])
        BY <1>1, <1>3, <2>1, <4>1 DEF IsOrdered, Total
      <4>3. HasSent(n, w, round[n])
        BY <1>1, <1>3, <2>1, <4>2 DEF LeftWithAll
      <4>4. QED
        BY <1>1, <2>1, <4>3 DEF HasSent
    <3>3. ~PlanSent(w, round[n])
      BY <1>1, <2>1 DEF PlanSent
    <3>4. phase[w] \in {"getPlan", "failed"}
      <4>1. phase[w] \in Phase /\ phase[w] \notin {"compute", "sendSamples"}
        BY <1>1, <1>3, <3>1, <3>2, TypeFacts DEF SentSample
      <4>2. phase[w] \notin {"collectSamples", "distributePlan"}
        BY <1>1, <1>3 DEF Roles, Role
      <4>3. phase[w] \notin {"distribute", "collectPartitions"}
        BY <1>3, <2>1, <3>2, <3>3 DEF PlanIsNew
      <4>4. QED
        BY <4>1, <4>2, <4>3 DEF Phase
    <3>5. phase[w] = "getPlan" => pivots[w] = <<>>
      BY <1>3, <3>2, <3>3 DEF PlanIsNew
    <3>6. /\ round'[w] = round[w] /\ phase'[w] = phase[w] /\ pivots'[w] = pivots[w]
          /\ round'[Master] = round[Master]
      BY <1>3, <2>1 DEF Others
    <3>7. QED
      BY <2>1, <3>2, <3>4, <3>5, <3>6 DEF PlanIsNew
  <2>5. QED
    BY <2>1, <2>3, <2>4
<1>8. ASSUME NEW n \in Node, DistributePlan(n) PROVE PlanIsNew(w)'
  <2>1. /\ Others(n) /\ n = Master /\ IsOrdered(round[n]) /\ round' = round
        /\ phase[n] = "distributePlan"
    BY <1>1, <1>8, DistributePlanEffect
  <2>2. PICK d \in Worker :
          /\ d \in todo[n]
          /\ \A e \in Node \ {d} : pivots'[e] = pivots[e]
          /\ pivots'[d] = pivots[d] \/ pivots'[d] = Append(pivots[d], Out(n))
          /\ \/ phase'[n] = "distribute" /\ todo'[n] = Node \ {n}
             \/ phase'[n] = "distributePlan" /\ todo'[n] = todo[n] \ {d}
    BY <1>1, <1>8, DistributePlanEffect
  <2>3. round'[w] = round[w] /\ phase'[w] = phase[w]
    BY <1>3, <2>1 DEF Others
  <2>4. CASE w # d
    BY <1>1, <1>3, <1>4, <2>1, <2>2, <2>3, <2>4
  <2>5. CASE w = d
    <3>1. \/ phase[w] = "failed"
          \/ phase[w] = "getPlan" /\ round[w] = round[n] /\ pivots[w] = <<>>
      BY <1>3, <2>1, <2>2, <2>5 DEF PlanIsNew
    <3>2. phase'[n] = "distributePlan" => w \notin todo'[n]
      BY <2>2, <2>5
    <3>3. CASE phase[w] = "failed"
      BY <2>1, <2>3, <3>2, <3>3 DEF PlanIsNew
    <3>4. CASE phase[w] = "getPlan"
      <4>1. round[w] = round[n] /\ pivots[w] = <<>>
        BY <3>1, <3>4
      <4>2. PlanSent(w, round[w])'
        BY <2>1, <2>2, <2>3, <3>2, <4>1 DEF PlanSent
      <4>3. AllReached(round[w])
        <5>1. \A v \in Worker : SentSample(v, round[n])
          BY <2>1 DEF PlannedWithAll, IInv
        <5>2. QED
          BY <1>1, <2>1, <4>1, <5>1 DEF AllReached, SentSample, Worker
      <4>4. AllReached(round[w])'
        BY <1>1, <1>2, <1>3, <2>3, <4>3
      <4>5. pivots'[w] # <<>> => Len(pivots'[w]) = 1 /\ Head(pivots'[w]).round = round'[w]
        <5>1. pivots'[w] = <<>> \/ pivots'[w] = <<Out(n)>>
          BY <2>2, <2>5, <4>1
        <5>2. Len(<<Out(n)>>) = 1 /\ Head(<<Out(n)>>) = Out(n) /\ Out(n).round = round[n]
          BY DEF Out
        <5>3. QED
          BY <2>3, <4>1, <5>1, <5>2
      <4>6. QED
        BY <2>1, <2>3, <3>2, <3>4, <4>2, <4>4, <4>5 DEF PlanIsNew
    <3>5. QED
      BY <3>1, <3>3, <3>4
  <2>6. QED
    BY <2>4, <2>5
<1>9. ASSUME NEW n \in Node, GetPlan(n) PROVE PlanIsNew(w)'
  <2>1. /\ Others(n) /\ n # Master /\ round' = round /\ phase[n] = "getPlan"
        /\ phase'[n] = "distribute" /\ PlanSent(n, round[n])
        /\ pivots[n] # <<>> /\ pivots'[n] = <<>>
        /\ \A e \in Node \ {n} : pivots'[e] = pivots[e]
    BY <1>1, <1>9, GetPlanEffect
  <2>2. CASE w = n
    BY <1>1, <1>2, <1>3, <2>1, <2>2 DEF PlanIsNew, Others
  <2>3. CASE w # n
    BY <1>1, <1>3, <1>4, <2>1, <2>3 DEF Others
  <2>4. QED
    BY <2>2, <2>3
<1>10. ASSUME NEW n \in Node, Distribute(n) PROVE PlanIsNew(w)'
  <2>1. /\ Others(n) /\ pivots' = pivots /\ phase[n] = "distribute"
        /\ \/ phase'[n] \in {"distribute", "collectPartitions"} /\ round'[n] = round[n]
           \/ phase'[n] = "compute"
    BY <1>1, <1>10, DistributeEffect
  <2>2. CASE w = n
    BY <1>1, <1>2, <1>3, <2>1, <2>2 DEF PlanIsNew, Others, IsOrdered
  <2>3. CASE w # n
    BY <1>1, <1>3, <1>4, <2>1, <2>3 DEF Others
  <2>4. QED
    BY <2>2, <2>3
<1>11. ASSUME NEW n \in Node, CollectPartition(n) PROVE PlanIsNew(w)'
  <2>1. /\ Others(n) /\ pivots' = pivots /\ phase[n] = "collectPartitions"
        /\ \/ phase'[n] = phase[n] /\ round'[n] = round[n]
           \/ phase'[n] = "compute"
    BY <1>1, <1>11, CollectPartitionEffect
  <2>2. CASE w = n
    BY <1>1, <1>2, <1>3, <2>1, <2>2 DEF PlanIsNew, Others, IsOrdered
  <2>3. CASE w # n
    BY <1>1, <1>3, <1>4, <2>1, <2>3 DEF Others
  <2>4. QED
    BY <2>2, <2>3
<1>12. ASSUME NEW n \in Node, Fail(n) PROVE PlanIsNew(w)'
  <2>1. Others(n) /\ pivots' = pivots /\ phase'[n] = "failed" /\ round' = round
    BY <1>1, <1>12, FailEffect
  <2>2. CASE w = n
    BY <1>1, <1>3, <2>1, <2>2 DEF PlanIsNew
  <2>3. CASE w # n
    BY <1>1, <1>3, <1>4, <2>1, <2>3 DEF Others
  <2>4. QED
    BY <2>2, <2>3
<1>13. QED
  BY <1>5, <1>6, <1>7, <1>8, <1>9, <1>10, <1>11, <1>12 DEF Next

LEMMA PlanOfTheRoundKept ==
  ASSUME IInv, Next
  PROVE  PlanOfTheRound'
<1>1. /\ plan' = plan /\ Node' = Node /\ Master \in Node
      /\ Types /\ Roles /\ PlannedWithAll /\ PlansAreNew /\ PlanOfTheRound
      /\ \A n \in Node : round[n] \in Nat \ {0}
  BY StepFacts, QueryFacts, TypeFacts DEF IInv
<1>2. \A r \in Nat : AllReached(r) => AllReached(r)'
  BY SentFacts
<1> DEFINE P(n) == /\ phase[n] \in {"distribute", "collectPartitions"} /\ IsOrdered(round[n]) =>
                        planRound[n] = round[n] /\ AllReached(round[n])
                   /\ phase[n] = "distributePlan" => planRound[n] = round[n]
<1>3. \A n \in Node : P(n)
  BY <1>1 DEF PlanOfTheRound
<1>4. ASSUME NEW n \in Node, Others(n), P(n)' PROVE PlanOfTheRound'
  <2>1. ASSUME NEW m \in Node \ {n} PROVE P(m)'
    <3>1. /\ round'[m] = round[m] /\ phase'[m] = phase[m] /\ planRound'[m] = planRound[m]
          /\ round[m] \in Nat /\ P(m)
      BY <1>1, <1>3, <1>4 DEF Others
    <3>2. QED
      BY <1>1, <1>2, <3>1 DEF IsOrdered
  <2>2. QED
    BY <1>1, <1>4, <2>1 DEF PlanOfTheRound
<1>5. ASSUME NEW n \in Node, Begin(n) PROVE Others(n) /\ P(n)'
  BY <1>1, <1>5, BeginEffect DEF IsOrdered, Total
<1>6. ASSUME NEW n \in Node, SendSamples(n) PROVE Others(n) /\ P(n)'
  BY <1>1, <1>6, SendSamplesEffect
<1>7. ASSUME NEW n \in Node, CollectSample(n) PROVE Others(n) /\ P(n)'
  BY <1>1, <1>3, <1>7, CollectSampleEffect
<1>8. ASSUME NEW n \in Node, DistributePlan(n) PROVE Others(n) /\ P(n)'
  <2>1. /\ Others(n) /\ n = Master /\ IsOrdered(round[n]) /\ round' = round
        /\ planRound' = planRound /\ phase[n] = "distributePlan"
        /\ phase'[n] \in {"distribute", "distributePlan"}
    BY <1>1, <1>8, DistributePlanEffect
  <2>2. planRound[n] = round[n]
    BY <1>3, <2>1
  <2>3. \A v \in Worker : SentSample(v, round[n])
    BY <1>1, <2>1 DEF PlannedWithAll
  <2>4. AllReached(round[n])
    BY <1>1, <2>1, <2>3 DEF AllReached, SentSample, Worker
  <2>5. QED
    BY <1>1, <1>2, <2>1, <2>2, <2>4
<1>9. ASSUME NEW n \in Node, GetPlan(n) PROVE Others(n) /\ P(n)'
  BY <1>1, <1>2, <1>9, GetPlanEffect
<1>10. ASSUME NEW n \in Node, Distribute(n) PROVE Others(n) /\ P(n)'
  <2>1. /\ Others(n) /\ planRound' = planRound /\ phase[n] = "distribute"
        /\ \/ phase'[n] \in {"distribute", "collectPartitions"} /\ round'[n] = round[n]
           \/ phase'[n] = "compute"
    BY <1>1, <1>10, DistributeEffect
  <2>2. QED
    BY <1>1, <1>2, <1>3, <2>1 DEF IsOrdered
<1>11. ASSUME NEW n \in Node, CollectPartition(n) PROVE Others(n) /\ P(n)'
  <2>1. /\ Others(n) /\ planRound' = planRound /\ phase[n] = "collectPartitions"
        /\ \/ phase'[n] = phase[n] /\ round'[n] = round[n]
           \/ phase'[n] = "compute"
    BY <1>1, <1>11, CollectPartitionEffect
  <2>2. QED
    BY <1>1, <1>2, <1>3, <2>1 DEF IsOrdered
<1>12. ASSUME NEW n \in Node, Fail(n) PROVE Others(n) /\ P(n)'
  BY <1>1, <1>12, FailEffect
<1>13. QED
  BY <1>4, <1>5, <1>6, <1>7, <1>8, <1>9, <1>10, <1>11, <1>12 DEF Next

-----------------------------------------------------------------------------
(* The partitions of a round.                                              *)

(* A partition that is sent is of the round its receiver is in, which does *)
(* not have it.                                                            *)
LEMMA NewPart ==
  ASSUME LaterRoundsAreOrdered, IInv, NEW n \in Node, NEW d \in todo[n], Distribute(n)
  PROVE  /\ d \in Node /\ d # n /\ round[d] = round[n] /\ round[n] <= Len(plan)
         /\ Total(round[n]) => d = Master
         /\ Out(n) \notin Messages(columns[d])
         /\ phase[d] = "collectPartitions" => Out(n) \notin Messages(taken[d])
<1>1. /\ Types /\ Roles /\ LeftWithAll /\ PlanOfTheRound /\ PartsAreNew
      /\ Len(plan) \in Nat /\ \A m \in Node : round[m] \in Nat \ {0}
  BY QueryFacts, TypeFacts DEF IInv
<1>2. phase[n] = "distribute"
  BY <1>1, DistributeEffect
<1>3. /\ d \in Node /\ d # n /\ round[n] <= Len(plan)
      /\ Total(round[n]) => d = Master
  BY <1>1, <1>2 DEF Roles, Role
<1>4. ~HasSent(n, d, round[n])
  BY <1>1, <1>2 DEF HasSent
<1>5. round[d] >= round[n]
  <2>1. CASE round[n] = 1
    BY <1>1, <1>3, <2>1
  <2>2. CASE round[n] # 1
    <3>1. round[n] \in 2 .. Len(plan) /\ query \in Queries
      BY <1>1, <1>3, <2>2 DEF Types
    <3>2. IsOrdered(round[n])
      BY <1>1, <3>1 DEF LaterRoundsAreOrdered, plan, IsOrdered
    <3>3. QED
      BY <1>1, <1>2, <1>3, <3>2 DEF PlanOfTheRound, AllReached
  <2>3. QED
    BY <2>1, <2>2
<1>6. round[d] = round[n]
  <2>1. SUFFICES ASSUME round[n] <= round[d] - 1 PROVE FALSE
    BY <1>1, <1>3, <1>5
  <2>2. round[n] \in 1 .. round[d] - 1
    BY <1>1, <1>3, <2>1
  <2>3. QED
    BY <1>1, <1>3, <1>4, <2>2 DEF LeftWithAll
<1>7. Out(n) \notin Messages(columns[d])
  BY <1>1, <1>3, <1>4 DEF PartsAreNew, PartsOf, PartOf, Out
<1>8. ASSUME phase[d] = "collectPartitions" PROVE Out(n) \notin Messages(taken[d])
  BY <1>1, <1>3, <1>4, <1>8 DEF PartsAreNew, PartsOf, PartOf, Out
<1>9. QED
  BY <1>3, <1>6, <1>7, <1>8

(* A partition that is collected is of the round, and with the last one    *)
(* all nodes have sent theirs.                                             *)
LEMMA TakenPart ==
  ASSUME IInv, NEW n \in Node, CollectPartition(n)
  PROVE  /\ Queue(taken'[n]) /\ Queue(columns'[n])
         /\ Messages(columns'[n]) \subseteq Messages(columns[n])
         /\ \A m \in Messages(taken'[n]) : PartOf(m, n) /\ m \notin Messages(columns'[n])
         /\ Len(taken[n]) + 1 = N - 1 =>
              \A d \in Node \ {n} :
                /\ HasSent(d, n, round[n])
                /\ [from |-> d, round |-> round[n]] \notin Messages(columns'[n])
<1>1. Types /\ Distinct /\ Roles /\ PartsAreNew
  BY DEF IInv
<1>2. /\ phase[n] = "collectPartitions" /\ columns[n] # <<>> /\ columns'[n] = Tail(columns[n])
      /\ taken'[n] = Append(taken[n], Head(columns[n]))
  BY <1>1, CollectPartitionEffect
<1>3. /\ Queue(taken[n]) /\ Queue(columns[n])
      /\ Messages(taken[n]) \cap Messages(columns[n]) = {}
  BY <1>1, <1>2, QueuesOf DEF PartsAreNew, PartsOf
<1>4. /\ Queue(taken'[n]) /\ Queue(columns'[n])
      /\ Head(columns[n]) \in Messages(columns[n])
      /\ Messages(taken'[n]) = Messages(taken[n]) \cup {Head(columns[n])}
      /\ Messages(columns'[n]) \subseteq Messages(columns[n])
      /\ Messages(taken'[n]) \cap Messages(columns'[n]) = {}
      /\ Len(taken'[n]) = Len(taken[n]) + 1
  BY <1>2, <1>3, TakeOne
<1>5. \A m \in Messages(taken'[n]) : PartOf(m, n)
  BY <1>1, <1>2, <1>4 DEF PartsAreNew, PartsOf
<1>6. ASSUME Len(taken[n]) + 1 = N - 1, NEW d \in Node \ {n}
      PROVE  /\ HasSent(d, n, round[n])
             /\ [from |-> d, round |-> round[n]] \notin Messages(columns'[n])
  <2>1. \A m \in Messages(taken'[n]) : m.from \in Node \ {n} /\ m.round = round[n]
    BY <1>5 DEF PartOf
  <2>2. Len(taken'[n]) = N - 1
    BY <1>4, <1>6
  <2>3. [from |-> d, round |-> round[n]] \in Messages(taken'[n])
    BY <1>1, <1>4, <2>1, <2>2, AllAreIn
  <2>4. QED
    BY <1>4, <1>5, <2>3 DEF PartOf
<1>7. QED
  BY <1>4, <1>5, <1>6

LEMMA LeftKept ==
  ASSUME IInv, Next
  PROVE  LeftWithAll'
<1>1. /\ plan' = plan /\ Node' = Node /\ Types /\ Roles /\ LeftWithAll /\ PlansAreNew
      /\ \A n \in Node : round[n] \in Nat \ {0}
  BY StepFacts, TypeFacts DEF IInv
<1>2. \A m \in Node, n \in Node, r \in Nat : HasSent(m, n, r) => HasSent(m, n, r)'
  BY SentFacts
<1>3. ASSUME NEW d \in Node, NEW n \in Node, n # d, NEW r \in 1 .. round'[d] - 1,
             d = Master \/ ~Total(r),
             \/ round'[d] = round[d]
             \/ round'[d] = round[d] + 1 /\ (r = round[d] => HasSent(n, d, round[d]))
      PROVE  HasSent(n, d, r)'
  <2>1. r \in 1 .. round[d] - 1 \/ (r = round[d] /\ HasSent(n, d, round[d]))
    <3>1. r \in 1 .. round[d] - 1 \/ (r = round[d] /\ round'[d] = round[d] + 1)
      BY <1>1, <1>3
    <3>2. r = round[d] /\ round'[d] = round[d] + 1 => HasSent(n, d, round[d])
      BY <1>1, <1>3
    <3>3. QED
      BY <3>1, <3>2
  <2>2. r \in Nat
    BY <1>1, <2>1
  <2>3. HasSent(n, d, r)
    BY <1>1, <1>3, <2>1 DEF LeftWithAll
  <2>4. QED
    BY <1>2, <2>2, <2>3
<1>4. SUFFICES ASSUME NEW d \in Node, NEW n \in Node, n # d, NEW r \in 1 .. round'[d] - 1,
                      d = Master \/ ~Total(r)
               PROVE  \/ round'[d] = round[d]
                      \/ /\ round'[d] = round[d] + 1
                         /\ r = round[d] => HasSent(n, d, round[d])
  BY <1>1, <1>3 DEF LeftWithAll, Total
<1>5. CASE \E m \in Node : Distribute(m)
  <2>1. PICK m \in Node : Distribute(m)
    BY <1>5
  <2>2. /\ Others(m)
        /\ \/ round'[m] = round[m]
           \/ round'[m] = round[m] + 1 /\ Total(round[m]) /\ m # Master
    BY <1>1, <2>1, DistributeEffect DEF Roles, Role
  <2>3. QED
    BY <1>4, <2>2 DEF Others
<1>6. CASE \E m \in Node : CollectPartition(m)
  <2>1. PICK m \in Node : CollectPartition(m)
    BY <1>6
  <2>2. /\ Others(m)
        /\ \/ round'[m] = round[m]
           \/ round'[m] = round[m] + 1 /\ Len(taken[m]) + 1 = N - 1
    BY <1>1, <2>1, CollectPartitionEffect
  <2>3. Len(taken[m]) + 1 = N - 1 => \A x \in Node \ {m} : HasSent(x, m, round[m])
    BY <2>1, TakenPart
  <2>4. QED
    BY <1>4, <2>2, <2>3 DEF Others
<1>7. CASE ~(\E m \in Node : Distribute(m)) /\ ~(\E m \in Node : CollectPartition(m))
  <2>1. round' = round
    BY <1>1, <1>7, BeginEffect, SendSamplesEffect, CollectSampleEffect, DistributePlanEffect,
       GetPlanEffect, FailEffect DEF Next
  <2>2. QED
    BY <2>1
<1>8. QED
  BY <1>5, <1>6, <1>7

LEMMA PartsKept ==
  ASSUME LaterRoundsAreOrdered, IInv, Next
  PROVE  PartsAreNew'
<1>1. /\ plan' = plan /\ Node' = Node /\ Types /\ Distinct /\ Roles /\ PartsAreNew /\ PlansAreNew
      /\ \A n \in Node : round[n] \in Nat \ {0}
  BY StepFacts, TypeFacts DEF IInv
<1>2. \A m \in Node, n \in Node, r \in Nat : HasSent(m, n, r) => HasSent(m, n, r)'
  BY SentFacts
<1>3. ASSUME NEW x \in Node, NEW m, PartOf(m, x), round'[x] = round[x] PROVE PartOf(m, x)'
  BY <1>1, <1>2, <1>3 DEF PartOf, Total
<1>4. ASSUME NEW x \in Node, round'[x] = round[x], columns'[x] = columns[x],
             phase'[x] = "collectPartitions" =>
               \/ phase[x] = "collectPartitions" /\ taken'[x] = taken[x]
               \/ taken'[x] = <<>>
      PROVE  PartsOf(x)'
  <2>1. PartsOf(x)
    BY <1>1 DEF PartsAreNew
  <2>2. \A m \in Messages(columns'[x]) : PartOf(m, x)'
    BY <1>3, <1>4, <2>1 DEF PartsOf
  <2>3. ASSUME phase'[x] = "collectPartitions", NEW m \in Messages(taken'[x])
        PROVE  PartOf(m, x)' /\ m \notin Messages(columns'[x])
    <3>1. phase[x] = "collectPartitions" /\ taken'[x] = taken[x]
      BY <1>4, <2>3, NoMessages
    <3>2. QED
      BY <1>3, <1>4, <2>1, <2>3, <3>1 DEF PartsOf
  <2>4. QED
    BY <2>2, <2>3 DEF PartsOf
<1> SUFFICES ASSUME NEW x \in Node PROVE PartsOf(x)'
  BY <1>1 DEF PartsAreNew
<1>5. ASSUME NEW n \in Node, Begin(n) PROVE PartsOf(x)'
  BY <1>1, <1>4, <1>5, BeginEffect DEF Others
<1>6. ASSUME NEW n \in Node, SendSamples(n) PROVE PartsOf(x)'
  BY <1>1, <1>4, <1>6, SendSamplesEffect DEF Others
<1>7. ASSUME NEW n \in Node, CollectSample(n) PROVE PartsOf(x)'
  BY <1>1, <1>4, <1>7, CollectSampleEffect DEF Others
<1>8. ASSUME NEW n \in Node, DistributePlan(n) PROVE PartsOf(x)'
  BY <1>1, <1>4, <1>8, DistributePlanEffect DEF Others
<1>9. ASSUME NEW n \in Node, GetPlan(n) PROVE PartsOf(x)'
  BY <1>1, <1>4, <1>9, GetPlanEffect DEF Others
<1>10. ASSUME NEW n \in Node, Distribute(n) PROVE PartsOf(x)'
  <2>1. /\ Others(n) /\ taken' = taken /\ phase[n] = "distribute" /\ Out(n) \in Message
    BY <1>1, <1>10, DistributeEffect
  <2>2. PICK d \in Node :
          /\ d \in todo[n] /\ todo'[n] = todo[n] \ {d}
          /\ \A e \in Node \ {d} : columns'[e] = columns[e]
          /\ columns'[d] = columns[d] \/ columns'[d] = Append(columns[d], Out(n))
          /\ \/ phase'[n] = "distribute" /\ round'[n] = round[n]
             \/ phase'[n] = "collectPartitions" /\ round'[n] = round[n] /\ ~Total(round[n])
             \/ phase'[n] = "compute" /\ round'[n] = round[n] + 1 /\ Total(round[n])
    BY <1>1, <1>10, DistributeEffect
  <2>3. /\ d # n /\ round[d] = round[n] /\ round[n] <= Len(plan)
        /\ Total(round[n]) => d = Master
        /\ Out(n) \notin Messages(columns[d])
        /\ phase[d] = "collectPartitions" => Out(n) \notin Messages(taken[d])
    BY <1>10, <2>2, NewPart
  <2>4. taken[n] = <<>> /\ (Total(round[n]) => n # Master)
    BY <1>1, <2>1 DEF Roles, Role
  <2>5. CASE x = n
    <3>1. columns'[n] = columns[n]
      BY <2>2, <2>3
    <3>2. CASE round'[n] = round[n]
      BY <1>4, <2>1, <2>2, <2>4, <2>5, <3>1, <3>2
    <3>3. CASE phase'[n] = "compute" /\ Total(round[n])
      <4>1. \A m \in Messages(columns[n]) : FALSE
        BY <1>1, <2>4, <3>3 DEF PartsAreNew, PartsOf, PartOf
      <4>2. QED
        BY <2>5, <3>1, <3>3, <4>1 DEF PartsOf
    <3>4. QED
      BY <2>2, <3>2, <3>3
  <2>6. CASE x = d /\ columns'[d] = Append(columns[d], Out(n))
    <3> PICK o, r : o = Out(n) /\ r = round[n]
      OBVIOUS
    <3>1. Messages(columns'[d]) = Messages(columns[d]) \cup {o}
      BY <1>1, <2>1, <2>6, QueuesOf, AppendMessage
    <3>2. round'[d] = round[d] /\ phase'[d] = phase[d] /\ PartsOf(d)
      BY <1>1, <2>1, <2>3 DEF Others, PartsAreNew
    <3>3. HasSent(n, d, r)'
      BY <1>1, <2>2 DEF HasSent
    <3>4. PartOf(o, d)'
      BY <1>1, <2>3, <3>2, <3>3 DEF PartOf, Out, Total
    <3>5. \A m \in Messages(columns'[d]) : PartOf(m, d)'
      BY <1>3, <3>1, <3>2, <3>4 DEF PartsOf
    <3>6. phase'[d] = "collectPartitions" =>
            \A m \in Messages(taken'[d]) : PartOf(m, d)' /\ m \notin Messages(columns'[d])
      BY <1>3, <2>1, <2>3, <3>1, <3>2 DEF PartsOf
    <3>7. QED
      BY <2>6, <3>5, <3>6 DEF PartsOf
  <2>7. CASE x # n /\ columns'[x] = columns[x]
    BY <1>4, <2>1, <2>7 DEF Others
  <2>8. QED
    BY <2>2, <2>3, <2>5, <2>6, <2>7
<1>11. ASSUME NEW n \in Node, CollectPartition(n) PROVE PartsOf(x)'
  <2>1. /\ Others(n) /\ \A e \in Node \ {n} : columns'[e] = columns[e]
        /\ phase[n] = "collectPartitions"
        /\ \/ /\ Len(taken[n]) + 1 = N - 1 /\ phase'[n] = "compute"
           \/ phase'[n] = phase[n] /\ round'[n] = round[n]
    BY <1>1, <1>11, CollectPartitionEffect
  <2>2. /\ Queue(columns'[n]) /\ Messages(columns'[n]) \subseteq Messages(columns[n])
        /\ \A m \in Messages(taken'[n]) : PartOf(m, n) /\ m \notin Messages(columns'[n])
        /\ Len(taken[n]) + 1 = N - 1 =>
             \A d \in Node \ {n} : [from |-> d, round |-> round[n]] \notin Messages(columns'[n])
    BY <1>11, TakenPart
  <2>3. \A m \in Messages(columns'[n]) : PartOf(m, n)
    BY <1>1, <2>2 DEF PartsAreNew, PartsOf
  <2>4. CASE x # n
    BY <1>4, <2>1, <2>4 DEF Others
  <2>5. CASE x = n /\ phase'[n] = phase[n] /\ round'[n] = round[n]
    BY <1>3, <2>2, <2>3, <2>5 DEF PartsOf
  <2>6. CASE x = n /\ Len(taken[n]) + 1 = N - 1 /\ phase'[n] = "compute"
    <3>1. ASSUME NEW m \in Messages(columns'[n]) PROVE FALSE
      <4>1. m.from \in Node \ {n} /\ m.round = round[n] /\ m \in Message
        BY <2>2, <2>3, <3>1, MessagesOf DEF PartOf
      <4>2. m = [from |-> m.from, round |-> round[n]]
        BY <4>1 DEF Message
      <4>3. QED
        BY <2>2, <2>6, <3>1, <4>1, <4>2
    <3>2. QED
      BY <2>6, <3>1 DEF PartsOf
  <2>7. QED
    BY <2>1, <2>4, <2>5, <2>6
<1>12. ASSUME NEW n \in Node, Fail(n) PROVE PartsOf(x)'
  BY <1>1, <1>4, <1>12, FailEffect DEF Others
<1>13. QED
  BY <1>5, <1>6, <1>7, <1>8, <1>9, <1>10, <1>11, <1>12 DEF Next

-----------------------------------------------------------------------------
LEMMA DistinctKept ==
  ASSUME LaterRoundsAreOrdered, IInv, Next
  PROVE  Distinct'
<1>1. /\ Node' = Node /\ Types /\ Distinct /\ Roles /\ PlansAreNew /\ Master \in Node
      /\ \A x \in Node : NoDuplicate(taken[x]) /\ NoDuplicate(samples[x]) /\ NoDuplicate(columns[x])
  BY StepFacts, QueryFacts DEF IInv, Distinct
<1>2. NoDuplicate(<<>>)
  BY NoMessages DEF Queue
<1> SUFFICES ASSUME NEW x \in Node
             PROVE  NoDuplicate(taken'[x]) /\ NoDuplicate(samples'[x]) /\ NoDuplicate(columns'[x])
  BY <1>1 DEF Distinct
<1> DEFINE Goal == NoDuplicate(taken'[x]) /\ NoDuplicate(samples'[x]) /\ NoDuplicate(columns'[x])
<1>3. ASSUME NEW n \in Node, Begin(n) PROVE Goal
  BY <1>1, <1>2, <1>3, BeginEffect DEF Others
<1>4. ASSUME NEW n \in Node, SendSamples(n) PROVE Goal
  <2>1. /\ taken' = taken /\ columns' = columns /\ Out(n) \in Message
        /\ \A e \in Node \ {Master} : samples'[e] = samples[e]
        /\ \/ samples'[Master] = samples[Master]
           \/ samples'[Master] = Append(samples[Master], Out(n))
    BY <1>1, <1>4, SendSamplesEffect
  <2>2. Out(n) \notin Messages(samples[Master]) /\ Queue(samples[Master])
    BY <1>1, <1>4, NewSample, QueuesOf
  <2>3. NoDuplicate(Append(samples[Master], Out(n)))
    BY <2>1, <2>2, AppendMessage
  <2>4. QED
    BY <1>1, <2>1, <2>3
<1>5. ASSUME NEW n \in Node, CollectSample(n) PROVE Goal
  <2>1. /\ Others(n) /\ columns' = columns
        /\ \A e \in Node \ {n} : samples'[e] = samples[e]
    BY <1>1, <1>5, CollectSampleEffect
  <2>2. NoDuplicate(taken'[n]) /\ NoDuplicate(samples'[n])
    BY <1>5, TakenSample DEF Queue
  <2>3. QED
    BY <1>1, <2>1, <2>2 DEF Others
<1>6. ASSUME NEW n \in Node, DistributePlan(n) PROVE Goal
  BY <1>1, <1>2, <1>6, DistributePlanEffect DEF Others
<1>7. ASSUME NEW n \in Node, GetPlan(n) PROVE Goal
  BY <1>1, <1>2, <1>7, GetPlanEffect DEF Others
<1>8. ASSUME NEW n \in Node, Distribute(n) PROVE Goal
  <2>1. taken' = taken /\ samples' = samples /\ Out(n) \in Message
    BY <1>1, <1>8, DistributeEffect
  <2>2. PICK d \in Node :
          /\ d \in todo[n] /\ \A e \in Node \ {d} : columns'[e] = columns[e]
          /\ columns'[d] = columns[d] \/ columns'[d] = Append(columns[d], Out(n))
    BY <1>1, <1>8, DistributeEffect
  <2>3. Out(n) \notin Messages(columns[d]) /\ Queue(columns[d])
    BY <1>1, <1>8, <2>2, NewPart, QueuesOf
  <2>4. NoDuplicate(Append(columns[d], Out(n)))
    BY <2>1, <2>3, AppendMessage
  <2>5. QED
    BY <1>1, <2>1, <2>2, <2>4
<1>9. ASSUME NEW n \in Node, CollectPartition(n) PROVE Goal
  <2>1. /\ Others(n) /\ samples' = samples
        /\ \A e \in Node \ {n} : columns'[e] = columns[e]
    BY <1>1, <1>9, CollectPartitionEffect
  <2>2. NoDuplicate(taken'[n]) /\ NoDuplicate(columns'[n])
    BY <1>9, TakenPart DEF Queue
  <2>3. QED
    BY <1>1, <2>1, <2>2 DEF Others
<1>10. ASSUME NEW n \in Node, Fail(n) PROVE Goal
  BY <1>1, <1>10, FailEffect
<1>11. QED
  BY <1>3, <1>4, <1>5, <1>6, <1>7, <1>8, <1>9, <1>10 DEF Next

LEMMA InitIInv ==
  ASSUME Init
  PROVE  IInv
<1>1. /\ query \in Queries /\ round = [n \in Node |-> 1] /\ phase = [n \in Node |-> "compute"]
      /\ todo = [n \in Node |-> {}] /\ taken = [n \in Node |-> <<>>]
      /\ planRound = [n \in Node |-> 0] /\ samples = [n \in Node |-> <<>>]
      /\ pivots = [n \in Node |-> <<>>] /\ columns = [n \in Node |-> <<>>]
  BY DEF Init
<1>2. query \in Query /\ Len(plan) \in Nat
  BY <1>1, QueriesAreDistributed DEF Query, plan
<1>3. Types
  <2>1. 1 \in 1 .. Len(plan) + 1 /\ 0 \in 0 .. Len(plan) /\ "compute" \in Phase
           /\ <<>> \in Seq(Message)
    BY <1>2 DEF Phase
  <2>2. /\ round \in [Node -> 1 .. Len(plan) + 1] /\ phase \in [Node -> Phase]
        /\ todo \in [Node -> SUBSET Node] /\ planRound \in [Node -> 0 .. Len(plan)]
    BY <1>1, <2>1
  <2>3. /\ taken \in [Node -> Seq(Message)] /\ samples \in [Node -> Seq(Message)]
        /\ pivots \in [Node -> Seq(Message)] /\ columns \in [Node -> Seq(Message)]
    BY <1>1, <2>1
  <2>4. QED
    BY <1>1, <2>2, <2>3 DEF Types
<1>4. /\ \A n \in Node : /\ round[n] = 1 /\ phase[n] = "compute" /\ taken[n] = <<>>
                         /\ samples[n] = <<>> /\ pivots[n] = <<>> /\ columns[n] = <<>>
      /\ Master \in Node /\ Worker \subseteq Node
  BY <1>1, <1>3, QueryFacts DEF Worker
<1>5. Distinct
  BY <1>4, NoMessages DEF Distinct, Queue
<1>6. Roles
  BY <1>4 DEF Roles, Role
<1>7. LeftWithAll
  BY <1>4 DEF LeftWithAll
<1>8. SamplesAreNew /\ PlannedWithAll
  BY <1>4, NoMessages DEF SamplesAreNew, PlannedWithAll
<1>9. PlansAreNew /\ PlanOfTheRound
  BY <1>4 DEF PlansAreNew, PlanIsNew, PlanOfTheRound
<1>10. PartsAreNew
  BY <1>4, NoMessages DEF PartsAreNew, PartsOf
<1>11. QED
  BY <1>3, <1>5, <1>6, <1>7, <1>8, <1>9, <1>10 DEF IInv

LEMMA IInvKept ==
  ASSUME LaterRoundsAreOrdered, IInv, Next
  PROVE  IInv'
BY TypesKept, DistinctKept, RolesKept, LeftKept, SamplesKept, PlannedKept, PlansKept,
   PlanOfTheRoundKept, PartsKept DEF IInv

LEMMA IInvStays ==
  ASSUME LaterRoundsAreOrdered, IInv, [Next]_vars
  PROVE  IInv'
<1>1. CASE Next
  BY <1>1, IInvKept
<1>2. CASE vars' = vars
  <2>1. /\ query' = query /\ round' = round /\ phase' = phase /\ todo' = todo
        /\ taken' = taken /\ planRound' = planRound
        /\ samples' = samples /\ pivots' = pivots /\ columns' = columns
    BY <1>2 DEF vars, queues
  <2>2. /\ N' = N /\ plan' = plan /\ Node' = Node /\ Worker' = Worker /\ Message' = Message
    BY <2>1, Fixed
  <2>3. Types' /\ Distinct'
    BY <2>1, <2>2 DEF IInv, Types, Distinct
  <2>4. Roles'
    BY <2>1, <2>2 DEF IInv, Roles, Role, IsOrdered, Total
  <2>5. LeftWithAll'
    BY <2>1, <2>2 DEF IInv, LeftWithAll, HasSent, Total
  <2>6. SamplesAreNew' /\ PlannedWithAll'
    BY <2>1, <2>2 DEF IInv, SamplesAreNew, PlannedWithAll, SentSample, IsOrdered
  <2>7. PlansAreNew'
    BY <2>1, <2>2 DEF IInv, PlansAreNew, PlanIsNew, PlanSent, AllReached, IsOrdered
  <2>8. PlanOfTheRound'
    BY <2>1, <2>2 DEF IInv, PlanOfTheRound, AllReached, IsOrdered
  <2>9. PartsAreNew'
    BY <2>1, <2>2 DEF IInv, PartsAreNew, PartsOf, PartOf, HasSent, Total
  <2>10. QED
    BY <2>3, <2>4, <2>5, <2>6, <2>7, <2>8, <2>9 DEF IInv
<1>3. QED
  BY <1>1, <1>2

-----------------------------------------------------------------------------
(* Type correctness.                                                       *)
THEOREM QueryTypes ==
  ASSUME LaterRoundsAreOrdered
  PROVE  Spec => []TypeOK
<1>1. Init => IInv
  BY InitIInv
<1>2. IInv /\ [Next]_vars => IInv'
  BY IInvStays
<1>3. IInv => TypeOK
  BY DEF IInv, Types, TypeOK
<1>4. QED
  BY <1>1, <1>2, <1>3, PTL DEF Spec

LEMMA QueueOfTheRound ==
  ASSUME NEW q, Queue(q), NEW r, \A m \in Messages(q) : m.round = r
  PROVE  OfTheRound(q, r)
<1>1. \A i \in DOMAIN q : q[i] \in Message /\ q[i].round = r
  BY MessagesOf DEF Messages
<1>2. ASSUME NEW i \in DOMAIN q, NEW j \in DOMAIN q, q[i].from = q[j].from PROVE i = j
  <2>1. q[i] = q[j]
    BY <1>1, <1>2 DEF Message
  <2>2. QED
    BY <2>1 DEF Queue, NoDuplicate
<1>3. QED
  BY <1>1, <1>2 DEF OfTheRound

LEMMA NothingTaken == \A r : OfTheRound(<<>>, r)
BY DEF OfTheRound

(* Whatever is lost and whoever fails, a collecting loop never takes a     *)
(* message of another round, nor two of one node, and a node partitions    *)
(* with the plan of its round.                                             *)
THEOREM RoundsAreSeparate ==
  ASSUME LaterRoundsAreOrdered
  PROVE  Spec => []RoundsDoNotMix
<1> DEFINE Separate == \A n \in Node :
       /\ taken'[n] # taken[n] => OfTheRound(taken'[n], round[n])
       /\ phase[n] # "distribute" /\ phase'[n] = "distribute" /\ plan[round[n]] = "ordered"
            => planRound'[n] = round[n]
<1>1. Init => IInv
  BY InitIInv
<1>2. IInv /\ [Next]_vars => IInv'
  BY IInvStays
<1>3. ASSUME IInv, [Next]_vars PROVE [Separate]_vars
  <2>1. SUFFICES ASSUME Next, NEW x \in Node
                 PROVE  /\ taken'[x] # taken[x] => OfTheRound(taken'[x], round[x])
                        /\ phase[x] # "distribute" /\ phase'[x] = "distribute"
                             /\ plan[round[x]] = "ordered" => planRound'[x] = round[x]
    BY <1>3
  <2>2. Types /\ Roles /\ PlansAreNew /\ IInv' /\ Node' = Node /\ plan' = plan /\ Moves(x)
    BY <1>2, <1>3, <2>1, StepFacts, NodesMove DEF IInv
  <2>3. ASSUME phase[x] # "distribute", phase'[x] = "distribute", plan[round[x]] = "ordered"
        PROVE  planRound'[x] = round[x]
    <3>1. round'[x] = round[x] /\ round[x] \in Nat \ {0}
      BY <2>2, <2>3, TypeFacts DEF Moves, Onward
    <3>2. IsOrdered(round[x])'
      BY <2>2, <2>3, <3>1, QueryFacts DEF IInv, Roles, Role, IsOrdered
    <3>3. QED
      BY <2>2, <2>3, <3>1, <3>2 DEF IInv, PlanOfTheRound
  <2>4. ASSUME taken'[x] # taken[x] PROVE OfTheRound(taken'[x], round[x])
    <3>1. ASSUME NEW n \in Node, Begin(n) \/ DistributePlan(n) \/ GetPlan(n)
          PROVE  OfTheRound(taken'[x], round[x])
      <4>1. Others(n) /\ (taken'[n] = <<>> \/ taken'[n] = taken[n])
        BY <2>2, <3>1, BeginEffect, DistributePlanEffect, GetPlanEffect
      <4>2. QED
        BY <2>4, <4>1, NothingTaken DEF Others
    <3>2. ASSUME NEW n \in Node, CollectSample(n) PROVE OfTheRound(taken'[x], round[x])
      <4>1. Others(n)
        BY <2>2, <3>2, CollectSampleEffect
      <4>2. Queue(taken'[n]) /\ \A s \in Messages(taken'[n]) : s.round = round[n]
        BY <1>3, <3>2, TakenSample
      <4>3. QED
        BY <2>4, <4>1, <4>2, QueueOfTheRound DEF Others
    <3>3. ASSUME NEW n \in Node, CollectPartition(n) PROVE OfTheRound(taken'[x], round[x])
      <4>1. Others(n)
        BY <2>2, <3>3, CollectPartitionEffect
      <4>2. Queue(taken'[n]) /\ \A m \in Messages(taken'[n]) : m.round = round[n]
        BY <1>3, <3>3, TakenPart DEF PartOf
      <4>3. QED
        BY <2>4, <4>1, <4>2, QueueOfTheRound DEF Others
    <3>4. ASSUME NEW n \in Node, SendSamples(n) \/ Distribute(n) \/ Fail(n) PROVE FALSE
      BY <2>2, <2>4, <3>4, SendSamplesEffect, DistributeEffect, FailEffect
    <3>5. QED
      BY <2>1, <3>1, <3>2, <3>3, <3>4 DEF Next
  <2>5. QED
    BY <2>3, <2>4
<1>4. QED
  BY <1>1, <1>2, <1>3, PTL DEF Spec, RoundsDoNotMix

(* A node leaves a round only when all nodes it merges the data of have    *)
(* sent it theirs.                                                         *)
THEOREM MergesHaveAll ==
  ASSUME LaterRoundsAreOrdered
  PROVE  Spec => LeavesWithAll
<1> DEFINE Leaves == \A n \in Node :
                       round'[n] # round[n] /\ (n = Master \/ plan[round[n]] # "total") =>
                         \A m \in Node \ {n} : HasSent(m, n, round[n])
<1>1. Init => IInv
  BY InitIInv
<1>2. IInv /\ [Next]_vars => IInv'
  BY IInvStays
<1>3. ASSUME IInv, [Next]_vars PROVE [Leaves]_vars
  <2>1. SUFFICES ASSUME Next, NEW x \in Node, round'[x] # round[x],
                        x = Master \/ plan[round[x]] # "total", NEW m \in Node \ {x}
                 PROVE  HasSent(m, x, round[x])
    BY <1>3
  <2>2. Types /\ Roles /\ PlansAreNew
    BY <1>3 DEF IInv
  <2>3. CASE \E n \in Node : Distribute(n)
    <3>1. PICK n \in Node : Distribute(n)
      BY <2>3
    <3>2. Others(n) /\ (round'[n] = round[n] \/ (Total(round[n]) /\ n # Master))
      BY <2>2, <3>1, DistributeEffect DEF Roles, Role
    <3>3. QED
      BY <2>1, <3>2 DEF Others, Total
  <2>4. CASE \E n \in Node : CollectPartition(n)
    <3>1. PICK n \in Node : CollectPartition(n)
      BY <2>4
    <3>2. Others(n) /\ (round'[n] = round[n] \/ Len(taken[n]) + 1 = N - 1)
      BY <2>2, <3>1, CollectPartitionEffect
    <3>3. Len(taken[n]) + 1 = N - 1 => \A y \in Node \ {n} : HasSent(y, n, round[n])
      BY <1>3, <3>1, TakenPart
    <3>4. QED
      BY <2>1, <3>2, <3>3 DEF Others
  <2>5. CASE ~(\E n \in Node : Distribute(n)) /\ ~(\E n \in Node : CollectPartition(n))
    BY <2>1, <2>2, <2>5, BeginEffect, SendSamplesEffect, CollectSampleEffect,
       DistributePlanEffect, GetPlanEffect, FailEffect DEF Next
  <2>6. QED
    BY <2>3, <2>4, <2>5
<1>4. QED
  BY <1>1, <1>2, <1>3, PTL DEF Spec, LeavesWithAll
-----------------------------------------------------------------------------
(* Two nodes and no faults.  There need not be a barrier between two       *)
(* rounds: each queue carries the messages of one sender in the order of   *)
(* its rounds, all that were sent and not taken, so the first one is of    *)
(* the round in which the receiver is.                                     *)

(* What the last theorem assumes of the queries.                           *)
TwoNodesWithoutFaults == \A q \in Queries : q.nodes = 2 /\ ~q.faulty

Other(n) == 3 - n

LEMMA OtherFacts ==
  ASSUME TwoNodesWithoutFaults, Types
  PROVE  /\ N = 2 /\ ~faulty /\ Node = {1, 2} /\ Master \in {1, 2}
         /\ \A n \in Node :
              /\ Other(n) \in Node /\ Other(n) # n /\ Other(Other(n)) = n
              /\ Node \ {n} = {Other(n)}
              /\ (n # Master) <=> (n = Other(Master))
         /\ Worker = {Other(Master)}
<1>1. N = 2 /\ ~faulty
  BY DEF TwoNodesWithoutFaults, Types, N, faulty
<1>2. Node = {1, 2}
  BY <1>1 DEF Node
<1>3. Master \in {1, 2}
  BY <1>2, QueryFacts
<1>4. \A n \in {1, 2} :
        /\ Other(n) \in {1, 2} /\ Other(n) # n /\ Other(Other(n)) = n
        /\ {1, 2} \ {n} = {Other(n)}
        /\ (n # Master) <=> (n = Other(Master))
  BY <1>3 DEF Other
<1>5. Worker = {Other(Master)}
  <2>1. {1, 2} \ {Master} = {Other(Master)}
    BY <1>3, <1>4
  <2>2. QED
    BY <1>2, <2>1 DEF Worker
<1>6. ASSUME NEW n \in Node
      PROVE  /\ Other(n) \in Node /\ Other(n) # n /\ Other(Other(n)) = n
             /\ Node \ {n} = {Other(n)}
             /\ (n # Master) <=> (n = Other(Master))
  <2>1. n \in {1, 2}
    BY <1>2
  <2>2. /\ Other(n) \in {1, 2} /\ Other(n) # n /\ Other(Other(n)) = n
        /\ {1, 2} \ {n} = {Other(n)}
        /\ (n # Master) <=> (n = Other(Master))
    BY <2>1, <1>4
  <2>3. Node \ {n} = {Other(n)} /\ Other(n) \in Node
    BY <1>2, <2>2
  <2>4. QED
    BY <2>2, <2>3
<1>7. QED
  BY <1>1, <1>2, <1>3, <1>5, <1>6

(* The queue q has, in the order of the rounds, one message of node m for  *)
(* each round of S.                                                        *)
Carries(q, m, S) ==
  /\ q \in Seq([from : Nat, round : Nat])
  /\ \A i, j \in DOMAIN q : i < j => q[i].round < q[j].round
  /\ \A i \in DOMAIN q : q[i].from = m /\ q[i].round \in S
  /\ \A r \in S : \E i \in DOMAIN q : q[i].round = r

LEMMA CarriesNothing == \A m : Carries(<<>>, m, {})
BY DEF Carries

Below(S, k) == S \subseteq Nat /\ \A r \in S : r < k

LEMMA CarriesMore ==
  ASSUME NEW q, NEW m, NEW S, Carries(q, m, S), NEW o, o \in [from : Nat, round : Nat],
         o.from = m, Below(S, o.round)
  PROVE  Carries(Append(q, o), m, S \cup {o.round})
<1> DEFINE p == Append(q, o)
<1>1. /\ Len(q) \in Nat /\ DOMAIN q = 1 .. Len(q)
      /\ p \in Seq([from : Nat, round : Nat]) /\ DOMAIN p = 1 .. Len(q) + 1
      /\ \A i \in DOMAIN q : p[i] = q[i]
      /\ p[Len(q) + 1] = o
  BY DEF Carries
<1> HIDE DEF p
<1>2. /\ \A i \in DOMAIN p : i \in DOMAIN q \/ i = Len(q) + 1
      /\ \A i \in DOMAIN q : i \in DOMAIN p
      /\ Len(q) + 1 \in DOMAIN p
  BY <1>1
<1> DEFINE l == Len(q) + 1
<1> HIDE DEF l
<1>21. /\ p[l] = o /\ l \in DOMAIN p
       /\ \A i \in DOMAIN p : i \in DOMAIN q \/ i = l
  BY <1>1, <1>2 DEF l
<1>22. /\ \A i \in DOMAIN q : q[i].from = m /\ q[i].round \in S
       /\ \A r \in S : \E i \in DOMAIN q : q[i].round = r
  BY DEF Carries
<1>3. \A i \in DOMAIN p : p[i].from = m /\ p[i].round \in S \cup {o.round}
  <2>1. \A i \in DOMAIN q : p[i].from = m /\ p[i].round \in S
    BY <1>1, <1>22
  <2>2. QED
    BY <1>21, <2>1
<1>4. \A r \in S \cup {o.round} : \E i \in DOMAIN p : p[i].round = r
  <2>1. \A r \in S : \E i \in DOMAIN p : p[i].round = r
    BY <1>1, <1>2, <1>22
  <2>2. QED
    BY <1>21, <2>1
<1>5. ASSUME NEW i \in DOMAIN p, NEW j \in DOMAIN p, i < j PROVE p[i].round < p[j].round
  <2>1. i \in DOMAIN q
    BY <1>1, <1>5
  <2>2. CASE j \in DOMAIN q
    BY <1>1, <1>5, <2>1, <2>2 DEF Carries
  <2>3. CASE j = Len(q) + 1
    <3>1. q[i].round \in S /\ p[i] = q[i] /\ p[j] = o
      BY <1>1, <1>22, <2>1, <2>3
    <3>2. QED
      BY <3>1 DEF Below
  <2>4. QED
    BY <1>2, <2>2, <2>3
<1>6. Carries(p, m, S \cup {o.round})
  BY <1>1, <1>3, <1>4, <1>5 DEF Carries
<1>7. QED
  BY <1>6 DEF p

First(k, S) == S \subseteq Nat /\ k \in S /\ \A r \in S : k <= r

LEMMA CarriesLess ==
  ASSUME NEW q, NEW m, NEW S, Carries(q, m, S), q # <<>>, NEW k, First(k, S)
  PROVE  /\ Head(q).round = k /\ Head(q).from = m
         /\ Carries(Tail(q), m, S \ {k})
<1> DEFINE p == Tail(q)
<1>1. /\ Len(q) \in Nat \ {0} /\ DOMAIN q = 1 .. Len(q) /\ Head(q) = q[1]
      /\ p \in Seq([from : Nat, round : Nat]) /\ DOMAIN p = 1 .. Len(q) - 1
      /\ \A i \in DOMAIN p : p[i] = q[i + 1]
  BY DEF Carries
<1> HIDE DEF p
<1>2. /\ \A i \in DOMAIN q : q[i].from = m /\ q[i].round \in S /\ q[i].round \in Nat
      /\ \A i, j \in DOMAIN q : i < j => q[i].round < q[j].round
  BY DEF Carries, First
<1>3. q[1].round = k
  <2>1. PICK i \in DOMAIN q : q[i].round = k
    BY DEF Carries, First
  <2>2. 1 \in DOMAIN q /\ k <= q[1].round
    BY <1>1, <1>2 DEF First
  <2>3. 1 < i => q[1].round < q[i].round
    BY <1>2, <2>2
  <2>4. i \in Nat /\ 1 <= i /\ k \in Nat /\ q[1].round \in Nat
    BY <1>1, <1>2, <2>2 DEF First
  <2>5. QED
    BY <2>1, <2>2, <2>3, <2>4
<1>4. \A i \in DOMAIN p : i + 1 \in DOMAIN q /\ 1 \in DOMAIN q /\ 1 < i + 1 /\ i \in Nat
  BY <1>1
<1>5. \A i \in DOMAIN p : p[i].from = m /\ p[i].round \in S \ {k}
  <2>1. ASSUME NEW i \in DOMAIN p PROVE p[i].from = m /\ p[i].round \in S \ {k}
    <3>1. q[1].round < q[i + 1].round
      BY <1>2, <1>4
    <3>2. q[i + 1].round # k
      BY <1>2, <1>3, <1>4, <3>1
    <3>3. QED
      BY <1>1, <1>2, <1>4, <3>2
  <2>2. QED
    BY <2>1
<1>6. ASSUME NEW r \in S \ {k} PROVE \E i \in DOMAIN p : p[i].round = r
  <2>1. PICK j \in DOMAIN q : q[j].round = r
    BY DEF Carries
  <2>2. j # 1
    BY <1>3, <2>1
  <2>3. j - 1 \in DOMAIN p /\ (j - 1) + 1 = j
    BY <1>1, <2>2
  <2>4. p[j - 1] = q[j]
    BY <1>1, <2>3
  <2>5. QED
    BY <2>1, <2>3, <2>4
<1>7. ASSUME NEW i \in DOMAIN p, NEW j \in DOMAIN p, i < j PROVE p[i].round < p[j].round
  <2>1. i + 1 < j + 1
    BY <1>4, <1>7
  <2>2. QED
    BY <1>1, <1>2, <1>4, <2>1
<1>8. QED
  BY <1>1, <1>2, <1>3, <1>5, <1>6, <1>7 DEF Carries, p

(* Where a node is: what it has sent, and what it has taken.               *)
Rounds == 1 .. Len(plan)
PartSent(n, r) == round[n] > r \/ (round[n] = r /\ phase[n] = "collectPartitions")
SampleTaken(r) ==
  \/ round[Master] > r
  \/ round[Master] = r /\ phase[Master] \notin {"compute", "collectSamples"}
PivotsSent(r) ==
  \/ round[Master] > r
  \/ round[Master] = r /\ phase[Master] \in {"distribute", "collectPartitions"}
PivotsTaken(r) ==
  LET w == Other(Master) IN
  round[w] > r \/ (round[w] = r /\ phase[w] \in {"distribute", "collectPartitions"})

Owed(n, r) == n = Master \/ ~Total(r)

(* The rounds of the messages that are in the queues.                      *)
PartsFor(n) == {r \in Rounds : Owed(n, r) /\ PartSent(Other(n), r) /\ round[n] <= r}
SamplesOnTheWay ==
  {r \in Rounds : IsOrdered(r) /\ SentSample(Other(Master), r) /\ ~SampleTaken(r)}
PivotsOnTheWay == {r \in Rounds : IsOrdered(r) /\ PivotsSent(r) /\ ~PivotsTaken(r)}

(* With one other node a loop ends with its first message.                 *)
OneTurn(n) ==
  /\ Role(n) /\ phase[n] # "failed"
  /\ phase[n] \in {"collectSamples", "collectPartitions"} => taken[n] = <<>>
  /\ phase[n] \in {"distribute", "distributePlan"} => todo[n] = {Other(n)}
  /\ phase[n] = "distributePlan" => planRound[n] = round[n]

(* What a node has taken was sent.                                         *)
PartsPaired ==
  \A n \in Node, r \in Rounds : Owed(n, r) /\ round[n] > r => PartSent(Other(n), r)
SamplesPaired == \A r \in Rounds : IsOrdered(r) /\ SampleTaken(r) => SentSample(Other(Master), r)
PivotsPaired == \A r \in Rounds : IsOrdered(r) /\ PivotsTaken(r) => PivotsSent(r)

PartsCarried == \A n \in Node : Carries(columns[n], Other(n), PartsFor(n))
SamplesCarried == Carries(samples[Master], Other(Master), SamplesOnTheWay)
PivotsCarried == Carries(pivots[Other(Master)], Master, PivotsOnTheWay)

PartsFlow == PartsPaired /\ PartsCarried
SamplesFlow == SamplesPaired /\ SamplesCarried
PivotsFlow == PivotsPaired /\ PivotsCarried

FInv == Types /\ (\A n \in Node : OneTurn(n)) /\ PartsFlow /\ SamplesFlow /\ PivotsFlow

(* What a step that sends and takes nothing of a kind leaves as it is.     *)
LEMMA PartsStay ==
  ASSUME PartsFlow, query' = query, round' = round, columns' = columns,
         \A n \in Node, r \in Rounds :
           Owed(n, r) => (PartSent(Other(n), r)' <=> PartSent(Other(n), r))
  PROVE  PartsFlow'
<1>1. Node' = Node /\ Rounds' = Rounds /\ plan' = plan
  BY Fixed DEF Rounds
<1>2. \A n, r : Owed(n, r)' <=> Owed(n, r)
  BY <1>1 DEF Owed, Total
<1>3. PartsPaired'
  BY <1>1, <1>2 DEF PartsFlow, PartsPaired
<1>4. ASSUME NEW n \in Node PROVE PartsFor(n)' = PartsFor(n)
  <2>1. \A r \in Rounds : /\ Owed(n, r) /\ PartSent(Other(n), r) /\ round[n] <= r
                         <=> (Owed(n, r) /\ PartSent(Other(n), r) /\ round[n] <= r)'
    BY <1>1, <1>2
  <2>2. QED
    BY <1>1, <2>1 DEF PartsFor
<1>5. PartsCarried'
  BY <1>1, <1>4 DEF PartsFlow, PartsCarried
<1>6. QED
  BY <1>3, <1>5 DEF PartsFlow

LEMMA SamplesStay ==
  ASSUME SamplesFlow, query' = query, samples' = samples,
         \A r \in Rounds : IsOrdered(r) =>
           /\ SentSample(Other(Master), r)' <=> SentSample(Other(Master), r)
           /\ SampleTaken(r)' <=> SampleTaken(r)
  PROVE  SamplesFlow'
<1>1. Rounds' = Rounds /\ \A r : IsOrdered(r)' <=> IsOrdered(r)
  BY Fixed DEF Rounds, IsOrdered
<1>2. SamplesPaired'
  BY <1>1 DEF SamplesFlow, SamplesPaired
<1>3. SamplesOnTheWay' = SamplesOnTheWay
  BY <1>1 DEF SamplesOnTheWay
<1>4. QED
  BY <1>2, <1>3 DEF SamplesFlow, SamplesCarried

LEMMA PivotsStay ==
  ASSUME PivotsFlow, query' = query, pivots' = pivots,
         \A r \in Rounds : IsOrdered(r) =>
           /\ PivotsSent(r)' <=> PivotsSent(r)
           /\ PivotsTaken(r)' <=> PivotsTaken(r)
  PROVE  PivotsFlow'
<1>1. Rounds' = Rounds /\ \A r : IsOrdered(r)' <=> IsOrdered(r)
  BY Fixed DEF Rounds, IsOrdered
<1>2. PivotsPaired'
  BY <1>1 DEF PivotsFlow, PivotsPaired
<1>3. PivotsOnTheWay' = PivotsOnTheWay
  BY <1>1 DEF PivotsOnTheWay
<1>4. QED
  BY <1>2, <1>3 DEF PivotsFlow, PivotsCarried

(* What every step is taken with.                                          *)
LEMMA FlowFacts ==
  ASSUME TwoNodesWithoutFaults, FInv
  PROVE  /\ Types /\ Roles /\ N = 2 /\ ~faulty /\ Node = {1, 2}
         /\ Master \in Node /\ Other(Master) \in Node /\ Other(Master) # Master
         /\ Other(Other(Master)) = Master
         /\ \A n \in Node : n = Master \/ n = Other(Master)
         /\ \A n \in Node :
              /\ Other(n) \in Node /\ Other(n) # n /\ Other(Other(n)) = n
              /\ Node \ {n} = {Other(n)} /\ round[n] \in Nat \ {0}
         /\ Worker = {Other(Master)} /\ Len(plan) \in Nat
         /\ Rounds \subseteq Nat
BY OtherFacts, QueryFacts, TypeFacts DEF FInv, Roles, OneTurn, Rounds

(* The node that has not moved is where it was.                            *)
LEMMA OneTurnStays ==
  ASSUME query' = query, NEW n, Others(n), NEW m \in Node \ {n}, OneTurn(m)
  PROVE  OneTurn(m)'
<1>1. /\ round'[m] = round[m] /\ phase'[m] = phase[m] /\ todo'[m] = todo[m]
      /\ taken'[m] = taken[m] /\ planRound'[m] = planRound[m]
  BY DEF Others
<1>2. plan' = plan /\ Node' = Node /\ Worker' = Worker
  BY Fixed
<1>3. QED
  BY <1>1, <1>2 DEF OneTurn, Role, IsOrdered, Total

(* A step of node n that leaves the three kinds of messages in order.      *)
LEMMA FlowStep ==
  ASSUME FInv, query' = query, NEW n \in Node, NodeTypes, Others(n),
         samples' \in [Node -> Seq(Message)], pivots' \in [Node -> Seq(Message)],
         columns' \in [Node -> Seq(Message)],
         OneTurn(n)', PartsFlow', SamplesFlow', PivotsFlow'
  PROVE  FInv'
<1>1. Node' = Node /\ plan' = plan /\ Message' = Message
  BY Fixed
<1>2. query' \in Queries
  BY DEF FInv, Types
<1>3. Types'
  BY <1>1, <1>2 DEF NodeTypes, Types
<1>4. ASSUME NEW m \in Node PROVE OneTurn(m)'
  <2>1. OneTurn(m)
    BY DEF FInv
  <2>2. QED
    BY <2>1, OneTurnStays
<1>5. QED
  BY <1>1, <1>3, <1>4 DEF FInv

LEMMA SurelySent ==
  ASSUME TwoNodesWithoutFaults, FInv, NEW queue, NEW n \in Node, NEW d \in Node, NEW next,
         queue \in [Node -> Seq(Message)], next \in Sends(queue, n, d)
  PROVE  /\ next[d] = Append(queue[d], Out(n)) /\ Out(n) \in [from : Nat, round : Nat]
         /\ Out(n).from = n /\ Out(n).round = round[n]
<1>1. /\ ~faulty /\ n \in Nat /\ round[n] \in Nat
  BY FlowFacts, QueryFacts
<1>2. next = [queue EXCEPT ![d] = Append(queue[d], Out(n))]
  BY <1>1 DEF Sends, Sent, Out
<1>3. QED
  BY <1>1, <1>2 DEF Out

LEMMA SamplesMore ==
  ASSUME TwoNodesWithoutFaults, FInv, NEW w, w = Other(Master), SendSamples(w)
  PROVE  SamplesFlow'
<1> DEFINE r == round[w]
<1>1. /\ Types /\ Roles /\ w \in Node /\ w # Master /\ Master \in Node /\ Rounds \subseteq Nat
      /\ r \in Nat /\ round[Master] \in Nat
  BY FlowFacts
<1>2. query' = query /\ Rounds' = Rounds /\ \A s : IsOrdered(s)' <=> IsOrdered(s)
  BY Fixed DEF SendSamples, Rounds, IsOrdered
<1>3. /\ round' = round /\ phase[w] = "sendSamples" /\ phase'[w] = "getPlan"
      /\ phase'[Master] = phase[Master]
  BY <1>1, SendSamplesEffect DEF Others
<1>4. IsOrdered(r) /\ r \in Rounds
  BY <1>1, <1>3, QueryFacts DEF Roles, Role, IsOrdered, Rounds
<1>5. /\ \A s \in Rounds : SentSample(w, s)' <=> SentSample(w, s) \/ s = r
      /\ ~SentSample(w, r)
      /\ \A s \in Rounds : SampleTaken(s)' <=> SampleTaken(s)
      /\ \A s \in Rounds : SentSample(w, s) => s < r
  BY <1>1, <1>3 DEF SentSample, SampleTaken
<1>6. SamplesPaired /\ SamplesCarried
  BY DEF FInv, SamplesFlow
<1>7. ~SampleTaken(r)
  BY <1>4, <1>5, <1>6 DEF SamplesPaired
<1>8. SamplesOnTheWay' = SamplesOnTheWay \cup {r}
  BY <1>2, <1>4, <1>5, <1>7 DEF SamplesOnTheWay
<1>9. /\ samples'[Master] = Append(samples[Master], Out(w)) /\ Out(w) \in [from : Nat, round : Nat]
      /\ Out(w).from = w /\ Out(w).round = r
  <2>1. samples' \in Sends(samples, w, Master) /\ samples \in [Node -> Seq(Message)]
    BY <1>1 DEF SendSamples, Types
  <2>2. QED
    BY <1>1, <2>1, SurelySent
<1>10. Carries(samples'[Master], w, SamplesOnTheWay')
  <2>1. Below(SamplesOnTheWay, r)
    BY <1>1, <1>5 DEF SamplesOnTheWay, Below
  <2>2. Carries(samples[Master], w, SamplesOnTheWay)
    BY <1>6 DEF SamplesCarried
  <2> HIDE DEF r
  <2>3. QED
    BY <1>8, <1>9, <2>1, <2>2, CarriesMore
<1>11. SamplesPaired'
  BY <1>2, <1>5, <1>6 DEF SamplesPaired
<1>12. QED
  BY <1>10, <1>11 DEF SamplesFlow, SamplesCarried

LEMMA SamplesLess ==
  ASSUME TwoNodesWithoutFaults, FInv, NEW n, n \in Node, CollectSample(n)
  PROVE  /\ SamplesFlow' /\ n = Master /\ phase'[n] = "distributePlan"
         /\ Head(samples[n]).round = round[n]
<1> DEFINE r == round[n]
           w == Other(Master)
<1>1. /\ Types /\ Roles /\ w \in Node /\ w # Master /\ Master \in Node /\ Rounds \subseteq Nat
      /\ r \in Nat /\ round[w] \in Nat /\ N = 2
  BY FlowFacts
<1>2. query' = query /\ Rounds' = Rounds /\ \A s : IsOrdered(s)' <=> IsOrdered(s)
  BY Fixed DEF CollectSample, Rounds, IsOrdered
<1>3. /\ n = Master /\ round' = round /\ phase[n] = "collectSamples" /\ IsOrdered(r)
      /\ samples[n] # <<>> /\ samples'[n] = Tail(samples[n]) /\ phase'[w] = phase[w]
      /\ Len(taken[n]) + 1 = N - 1 => phase'[n] = "distributePlan"
  <2>1. /\ n = Master /\ round' = round /\ phase[n] = "collectSamples" /\ IsOrdered(r)
        /\ samples[n] # <<>> /\ samples'[n] = Tail(samples[n]) /\ Others(n)
    BY <1>1, CollectSampleEffect
  <2>2. Collected(n) => Goes(n, "distributePlan")
    BY DEF CollectSample
  <2>3. Goes(n, "distributePlan") => phase'[n] = "distributePlan"
    BY <1>1 DEF Goes, Types
  <2>4. QED
    BY <1>1, <2>1, <2>2, <2>3 DEF Others, Collected, Expected
<1>4. phase'[n] = "distributePlan"
  <2>1. taken[n] = <<>>
    BY <1>3 DEF FInv, OneTurn
  <2>2. Len(taken[n]) = 0
    BY <2>1
  <2>3. QED
    BY <1>1, <1>3, <2>2
<1>5. r \in Rounds
  BY <1>1, <1>3, QueryFacts DEF IsOrdered, Rounds
<1>6. /\ \A s \in Rounds : SentSample(w, s)' <=> SentSample(w, s)
      /\ \A s \in Rounds : SampleTaken(s)' <=> SampleTaken(s) \/ s = r
      /\ ~SampleTaken(r)
      /\ \A s \in Rounds : ~SampleTaken(s) => r <= s
      /\ \A s \in Rounds : SentSample(w, s) /\ r < s => SentSample(w, r)
  BY <1>1, <1>3, <1>4 DEF SentSample, SampleTaken
<1>7. SamplesPaired /\ Carries(samples[n], w, SamplesOnTheWay)
  BY <1>3 DEF FInv, SamplesFlow, SamplesCarried
<1>8. SentSample(w, r)
  <2>1. 1 \in DOMAIN samples[n] /\ samples[n][1].round \in SamplesOnTheWay
    BY <1>3, <1>7 DEF Carries
  <2>2. PICK h \in SamplesOnTheWay : TRUE
    BY <2>1
  <2>3. h \in Rounds /\ SentSample(w, h) /\ ~SampleTaken(h) /\ h \in Nat
    BY <1>1 DEF SamplesOnTheWay
  <2>4. r <= h
    BY <1>6, <2>3
  <2>5. CASE h = r
    BY <2>3, <2>5
  <2>6. CASE r < h
    BY <1>6, <2>3, <2>6
  <2>7. QED
    BY <1>1, <2>3, <2>4, <2>5, <2>6
<1>9. /\ r \in SamplesOnTheWay /\ \A s \in SamplesOnTheWay : r <= s
      /\ SamplesOnTheWay \subseteq Nat /\ SamplesOnTheWay' = SamplesOnTheWay \ {r}
  <2>1. r \in SamplesOnTheWay /\ SamplesOnTheWay \subseteq Nat
    BY <1>1, <1>3, <1>5, <1>6, <1>8 DEF SamplesOnTheWay
  <2>2. \A s \in SamplesOnTheWay : r <= s
    BY <1>6 DEF SamplesOnTheWay
  <2>3. SamplesOnTheWay' = SamplesOnTheWay \ {r}
    BY <1>2, <1>6 DEF SamplesOnTheWay
  <2>4. QED
    BY <2>1, <2>2, <2>3
<1>10. Head(samples[n]).round = r /\ Carries(samples'[n], w, SamplesOnTheWay')
  <2> HIDE DEF r, w
  <2>1. First(r, SamplesOnTheWay) /\ Carries(samples[n], w, SamplesOnTheWay) /\ samples[n] # <<>>
    BY <1>3, <1>7, <1>9 DEF First
  <2>2. Head(samples[n]).round = r /\ Carries(Tail(samples[n]), w, SamplesOnTheWay \ {r})
    BY ONLY <2>1, CarriesLess
  <2>3. QED
    BY <2>2, <1>3, <1>7, <1>9
<1>11. SamplesPaired'
  BY <1>2, <1>6, <1>7, <1>8 DEF SamplesPaired
<1>12. QED
  BY <1>3, <1>4, <1>10, <1>11 DEF SamplesFlow, SamplesCarried

LEMMA PivotsMore ==
  ASSUME TwoNodesWithoutFaults, FInv, NEW n, n \in Node, DistributePlan(n)
  PROVE  PivotsFlow' /\ phase'[n] = "distribute"
<1> DEFINE r == round[n]
           w == Other(Master)
<1>1. /\ Types /\ Roles /\ w \in Node /\ w # Master /\ Master \in Node /\ Rounds \subseteq Nat
      /\ r \in Nat /\ round[w] \in Nat /\ Worker = {w}
  BY FlowFacts
<1>2. query' = query /\ Rounds' = Rounds /\ \A s : IsOrdered(s)' <=> IsOrdered(s)
  BY Fixed DEF DistributePlan, Rounds, IsOrdered
<1>3. /\ n = Master /\ round' = round /\ phase[n] = "distributePlan" /\ IsOrdered(r)
      /\ phase'[w] = phase[w]
  BY <1>1, DistributePlanEffect DEF Others
<1>4. /\ pivots' \in Sends(pivots, n, w) /\ phase'[n] = "distribute"
  <2>1. todo[n] = {w}
    BY <1>3 DEF FInv, OneTurn
  <2>2. pivots' \in Sends(pivots, n, w) /\ StartDistribute(n)
    BY <1>1, <2>1 DEF DistributePlan
  <2>3. QED
    BY <1>1, <2>2, StartEffect
<1>5. r \in Rounds
  BY <1>1, <1>3, QueryFacts DEF IsOrdered, Rounds
<1>6. /\ \A s \in Rounds : PivotsSent(s)' <=> PivotsSent(s) \/ s = r
      /\ ~PivotsSent(r)
      /\ \A s \in Rounds : PivotsTaken(s)' <=> PivotsTaken(s)
      /\ \A s \in Rounds : PivotsSent(s) => s < r
  BY <1>1, <1>3, <1>4 DEF PivotsSent, PivotsTaken
<1>7. PivotsPaired /\ Carries(pivots[w], n, PivotsOnTheWay)
  BY <1>3 DEF FInv, PivotsFlow, PivotsCarried
<1>8. ~PivotsTaken(r)
  BY <1>3, <1>5, <1>6, <1>7 DEF PivotsPaired
<1>9. /\ PivotsOnTheWay' = PivotsOnTheWay \cup {r}
      /\ Below(PivotsOnTheWay, r)
  <2>1. PivotsOnTheWay' = PivotsOnTheWay \cup {r}
    BY <1>2, <1>3, <1>5, <1>6, <1>8 DEF PivotsOnTheWay
  <2>2. Below(PivotsOnTheWay, r)
    BY <1>1, <1>6 DEF PivotsOnTheWay, Below
  <2>3. QED
    BY <2>1, <2>2
<1>10. /\ pivots'[w] = Append(pivots[w], Out(n)) /\ Out(n) \in [from : Nat, round : Nat]
       /\ Out(n).from = n /\ Out(n).round = r
  <2>1. pivots \in [Node -> Seq(Message)]
    BY <1>1 DEF Types
  <2>2. QED
    BY <1>1, <1>4, <2>1, SurelySent
<1>11. Carries(pivots'[w], n, PivotsOnTheWay')
  <2> HIDE DEF r, w
  <2>1. QED
    BY <1>7, <1>9, <1>10, CarriesMore
<1>12. PivotsPaired'
  BY <1>2, <1>6, <1>7 DEF PivotsPaired
<1>13. QED
  BY <1>3, <1>4, <1>11, <1>12 DEF PivotsFlow, PivotsCarried

LEMMA PivotsLess ==
  ASSUME TwoNodesWithoutFaults, FInv, NEW n, n \in Node, GetPlan(n)
  PROVE  /\ PivotsFlow' /\ NodeTypes /\ Others(n) /\ n = Other(Master) /\ IsOrdered(round[n])
         /\ round' = round /\ samples' = samples /\ columns' = columns
         /\ phase[n] = "getPlan" /\ phase'[n] = "distribute"
         /\ todo'[n] = Node \ {n} /\ taken'[n] = <<>> /\ planRound'[n] = round[n]
         /\ pivots' \in [Node -> Seq(Message)]
<1> DEFINE r == round[n]
<1>1. /\ Types /\ Roles /\ Master \in Node /\ Rounds \subseteq Nat
      /\ r \in Nat /\ round[Master] \in Nat
  BY FlowFacts
<1>2. query' = query /\ Rounds' = Rounds /\ \A s : IsOrdered(s)' <=> IsOrdered(s)
  BY Fixed DEF GetPlan, Rounds, IsOrdered
<1>3. /\ round' = round /\ samples' = samples /\ columns' = columns
      /\ phase[n] = "getPlan" /\ pivots[n] # <<>> /\ pivots' = Rest(pivots, n)
      /\ planRound' = [planRound EXCEPT ![n] = Head(pivots[n]).round] /\ StartDistribute(n)
  BY DEF GetPlan
<1>4. n # Master /\ n = Other(Master) /\ IsOrdered(r) /\ r \in Rounds /\ r \in 0 .. Len(plan)
  BY <1>1, <1>3, FlowFacts, QueryFacts DEF Roles, Role, IsOrdered, Rounds
<1>5. /\ phase'[n] = "distribute" /\ phase'[Master] = phase[Master]
  BY <1>1, <1>3, <1>4, StartEffect
<1>6. /\ \A s \in Rounds : PivotsSent(s)' <=> PivotsSent(s)
      /\ \A s \in Rounds : PivotsTaken(s)' <=> PivotsTaken(s) \/ s = r
      /\ ~PivotsTaken(r)
      /\ \A s \in Rounds : ~PivotsTaken(s) => r <= s
      /\ \A s \in Rounds : PivotsSent(s) /\ r < s => PivotsSent(r)
  BY <1>1, <1>3, <1>4, <1>5 DEF PivotsSent, PivotsTaken
<1>7. PivotsPaired /\ Carries(pivots[n], Master, PivotsOnTheWay)
  BY <1>4 DEF FInv, PivotsFlow, PivotsCarried
<1>8. PivotsSent(r)
  <2>1. 1 \in DOMAIN pivots[n] /\ pivots[n][1].round \in PivotsOnTheWay
    BY <1>3, <1>7 DEF Carries
  <2>2. PICK h \in PivotsOnTheWay : TRUE
    BY <2>1
  <2>3. h \in Rounds /\ PivotsSent(h) /\ ~PivotsTaken(h) /\ h \in Nat
    BY <1>1 DEF PivotsOnTheWay
  <2>4. r <= h
    BY <1>6, <2>3
  <2>5. CASE h = r
    BY <2>3, <2>5
  <2>6. CASE r < h
    BY <1>6, <2>3, <2>6
  <2>7. QED
    BY <1>1, <2>3, <2>4, <2>5, <2>6
<1>9. /\ r \in PivotsOnTheWay /\ \A s \in PivotsOnTheWay : r <= s
      /\ PivotsOnTheWay \subseteq Nat /\ PivotsOnTheWay' = PivotsOnTheWay \ {r}
  <2>1. r \in PivotsOnTheWay /\ PivotsOnTheWay \subseteq Nat
    BY <1>1, <1>4, <1>6, <1>8 DEF PivotsOnTheWay
  <2>2. \A s \in PivotsOnTheWay : r <= s
    BY <1>6 DEF PivotsOnTheWay
  <2>3. PivotsOnTheWay' = PivotsOnTheWay \ {r}
    BY <1>2, <1>6 DEF PivotsOnTheWay
  <2>4. QED
    BY <2>1, <2>2, <2>3
<1>10. pivots' \in [Node -> Seq(Message)] /\ pivots'[n] = Tail(pivots[n])
  <2>1. pivots \in [Node -> Seq(Message)]
    BY <1>1 DEF Types
  <2>2. QED
    BY <1>3, <2>1, GetEffect
<1>11. Head(pivots[n]).round = r /\ Carries(pivots'[n], Master, PivotsOnTheWay')
  <2> HIDE DEF r
  <2>1. First(r, PivotsOnTheWay) /\ Carries(pivots[n], Master, PivotsOnTheWay) /\ pivots[n] # <<>>
    BY <1>3, <1>7, <1>9 DEF First
  <2>2. Head(pivots[n]).round = r /\ Carries(Tail(pivots[n]), Master, PivotsOnTheWay \ {r})
    BY ONLY <2>1, CarriesLess
  <2>3. QED
    BY <2>2, <1>3, <1>7, <1>9, <1>10
<1>12. PivotsPaired'
  BY <1>2, <1>6, <1>7, <1>8 DEF PivotsPaired
<1>13. planRound' \in [Node -> 0 .. Len(plan)] /\ planRound'[n] = round[n]
          /\ \A m \in Node \ {n} : planRound'[m] = planRound[m]
  BY <1>1, <1>3, <1>4, <1>11 DEF Types
<1>14. NodeTypes /\ Others(n)
  <2>1. round' \in [Node -> 1 .. Len(plan) + 1]
    BY <1>1, <1>3 DEF Types
  <2>2. QED
    BY <1>1, <1>3, <1>13, <2>1, StartEffect DEF NodeTypes, Others
<1>15. PivotsFlow'
  BY <1>4, <1>11, <1>12 DEF PivotsFlow, PivotsCarried
<1>16. QED
  BY <1>1, <1>3, <1>4, <1>10, <1>13, <1>14, <1>15, StartEffect

LEMMA PartsMore ==
  ASSUME TwoNodesWithoutFaults, FInv, query' = query, NEW n \in Node, Others(n),
         round[n] \in Rounds, Owed(Other(n), round[n]), phase[n] = "distribute",
         columns'[Other(n)] = Append(columns[Other(n)], Out(n)), columns'[n] = columns[n],
         \/ round'[n] = round[n] /\ phase'[n] = "collectPartitions"
         \/ round'[n] = round[n] + 1 /\ phase'[n] = "compute" /\ ~Owed(n, round[n])
  PROVE  PartsFlow'
<1> DEFINE r == round[n]
           d == Other(n)
<1>1. /\ Types /\ d \in Node /\ d # n /\ Other(d) = n /\ Rounds \subseteq Nat
      /\ r \in Nat /\ round[d] \in Nat /\ n \in Nat
      /\ \A m \in Node : m = n \/ m = d
  <2>1. Node \ {n} = {d}
    BY FlowFacts
  <2>2. QED
    BY <2>1, FlowFacts, QueryFacts
<1>2. /\ Node' = Node /\ Rounds' = Rounds
      /\ \A m, s : Owed(m, s)' <=> Owed(m, s)
  BY Fixed DEF Rounds, Owed, Total
<1>3. round'[d] = round[d] /\ phase'[d] = phase[d]
  BY <1>1 DEF Others
<1>4. /\ \A s \in Rounds : PartSent(n, s)' <=> PartSent(n, s) \/ s = r
      /\ ~PartSent(n, r)
      /\ \A s \in Rounds : PartSent(d, s)' <=> PartSent(d, s)
      /\ \A s \in Rounds : PartSent(n, s) => s < r
      /\ \A s \in Rounds : Owed(n, s) => (round'[n] <= s <=> round[n] <= s)
  <2>1. \A s \in Rounds : PartSent(n, s)' <=> PartSent(n, s) \/ s = r
    BY <1>1 DEF PartSent
  <2>2. ASSUME NEW s \in Rounds, Owed(n, s) PROVE round'[n] <= s <=> round[n] <= s
    <3>1. s \in Nat /\ r \in Nat
      BY <1>1
    <3>2. round'[n] = r \/ (round'[n] = r + 1 /\ s # r)
      BY <2>2
    <3>3. QED
      BY <3>1, <3>2
  <2>3. QED
    BY <1>1, <1>3, <2>1, <2>2 DEF PartSent
<1>5. PartsPaired /\ Carries(columns[d], n, PartsFor(d)) /\ Carries(columns[n], d, PartsFor(n))
  BY <1>1 DEF FInv, PartsFlow, PartsCarried
<1>6. round[d] <= r
  <2>1. Owed(d, r) /\ round[d] > r => PartSent(Other(d), r)
    BY <1>1, <1>5 DEF PartsPaired
  <2>2. ~(round[d] > r)
    BY <1>1, <1>4, <2>1
  <2>3. QED
    BY <1>1, <2>2
<1>7. /\ PartsFor(d)' = PartsFor(d) \cup {r} /\ PartsFor(n)' = PartsFor(n)
      /\ Below(PartsFor(d), r)
  <2>1. PartsFor(d)' = PartsFor(d) \cup {r}
    BY <1>1, <1>2, <1>3, <1>4, <1>6 DEF PartsFor
  <2>2. \A s \in Rounds : /\ Owed(n, s) /\ PartSent(Other(n), s) /\ round[n] <= s
                         <=> (Owed(n, s) /\ PartSent(Other(n), s) /\ round[n] <= s)'
    BY <1>2, <1>4
  <2>3. PartsFor(n)' = PartsFor(n)
    BY <1>2, <2>2 DEF PartsFor
  <2>4. Below(PartsFor(d), r)
    <3>1. \A s \in PartsFor(d) : s \in Rounds /\ PartSent(n, s)
      BY <1>1 DEF PartsFor
    <3>2. QED
      BY <1>1, <1>4, <3>1 DEF Below
  <2>5. QED
    BY <2>1, <2>3, <2>4
<1>8. /\ Out(n) \in [from : Nat, round : Nat] /\ Out(n).from = n /\ Out(n).round = r
      /\ columns'[d] = Append(columns[d], Out(n))
  BY <1>1 DEF Out
<1>9. Carries(columns'[d], n, PartsFor(d)')
  <2> HIDE DEF r, d
  <2>1. QED
    BY <1>5, <1>7, <1>8, CarriesMore
<1>10. \A m \in Node, s \in Rounds : Owed(m, s) /\ round'[m] > s => PartSent(Other(m), s)'
  <2>1. ASSUME NEW s \in Rounds, Owed(n, s), round'[n] > s PROVE PartSent(d, s)'
    <3>1. round[n] > s /\ s \in Nat
      BY <1>1, <1>4, <2>1
    <3>2. QED
      BY <1>1, <1>4, <1>5, <2>1, <3>1 DEF PartsPaired
  <2>2. ASSUME NEW s \in Rounds, Owed(d, s), round'[d] > s PROVE PartSent(n, s)'
    BY <1>1, <1>3, <1>4, <1>5, <2>2 DEF PartsPaired
  <2>3. QED
    BY <1>1, <2>1, <2>2
<1>11. PartsPaired'
  BY <1>2, <1>10 DEF PartsPaired
<1>12. PartsCarried'
  BY <1>1, <1>2, <1>5, <1>7, <1>9 DEF PartsCarried
<1>13. QED
  BY <1>11, <1>12 DEF PartsFlow

LEMMA PartsLess ==
  ASSUME TwoNodesWithoutFaults, FInv, NEW n, n \in Node, CollectPartition(n)
  PROVE  /\ PartsFlow' /\ phase'[n] = "compute" /\ round'[n] = round[n] + 1
         /\ Head(columns[n]).round = round[n]
<1> DEFINE r == round[n]
           d == Other(n)
<1>1. /\ Types /\ Roles /\ d \in Node /\ d # n /\ Other(d) = n /\ Rounds \subseteq Nat
      /\ r \in Nat \ {0} /\ round[d] \in Nat /\ N = 2 /\ Len(plan) \in Nat
      /\ \A m \in Node : m = n \/ m = d
  <2>1. Node \ {n} = {d}
    BY FlowFacts
  <2>2. QED
    BY <2>1, FlowFacts
<1>2. query' = query /\ Node' = Node /\ Rounds' = Rounds
      /\ \A m, s : Owed(m, s)' <=> Owed(m, s)
  BY Fixed DEF CollectPartition, Rounds, Owed, Total
<1>3. /\ phase[n] = "collectPartitions" /\ r <= Len(plan) /\ Owed(n, r)
      /\ columns[n] # <<>> /\ columns'[n] = Tail(columns[n]) /\ columns'[d] = columns[d]
      /\ round'[d] = round[d] /\ phase'[d] = phase[d]
  BY <1>1, CollectPartitionEffect DEF Others, Owed
<1>4. phase'[n] = "compute" /\ round'[n] = r + 1
  <2>1. taken[n] = <<>>
    BY <1>3 DEF FInv, OneTurn
  <2>2. Len(taken[n]) = 0
    BY <2>1
  <2>3. EndRound(n)
    BY <1>1, <2>2 DEF CollectPartition, Collected, Expected
  <2>4. QED
    BY <1>1, <1>3, <2>3, EndRoundEffect
<1>5. r \in Rounds
  BY <1>1, <1>3 DEF Rounds
<1>6. /\ \A s \in Rounds : PartSent(n, s)' <=> PartSent(n, s)
      /\ \A s \in Rounds : PartSent(d, s)' <=> PartSent(d, s)
      /\ \A s \in Rounds : PartSent(d, s) /\ r < s => PartSent(d, r)
      /\ \A s \in Rounds : round'[n] <= s <=> round[n] <= s /\ s # r
  <2>0. /\ \A s \in Rounds : s \in Nat
        /\ round[n] \in Nat /\ round'[n] = round[n] + 1 /\ phase[n] = "collectPartitions"
        /\ r \in Nat /\ round[d] \in Nat
    BY <1>1, <1>3, <1>4
  <2>1. ASSUME NEW s \in Rounds PROVE PartSent(n, s)' <=> PartSent(n, s)
    <3>1. s \in Nat
      BY <2>0
    <3>2. round'[n] > s <=> round[n] > s \/ round[n] = s
      BY <2>0, <3>1
    <3>3. phase'[n] # "collectPartitions"
      BY <1>4
    <3>4. QED
      BY <2>0, <3>2, <3>3 DEF PartSent
  <2>2. ASSUME NEW s \in Rounds, PartSent(d, s), r < s PROVE PartSent(d, r)
    <3>1. s \in Nat /\ (round[d] > s \/ round[d] = s)
      BY <2>0, <2>2 DEF PartSent
    <3>2. round[d] > r
      BY <2>0, <2>2, <3>1
    <3>3. QED
      BY <3>2 DEF PartSent
  <2>3. \A s \in Rounds : round'[n] <= s <=> round[n] <= s /\ s # r
    BY <1>1, <1>4
  <2>4. QED
    BY <1>3, <2>1, <2>2, <2>3 DEF PartSent
<1>7. PartsPaired /\ Carries(columns[n], d, PartsFor(n)) /\ Carries(columns[d], n, PartsFor(d))
  BY <1>1 DEF FInv, PartsFlow, PartsCarried
<1>8. PartSent(d, r)
  <2>1. 1 \in DOMAIN columns[n] /\ columns[n][1].round \in PartsFor(n)
    BY <1>3, <1>7 DEF Carries
  <2>2. PICK h \in PartsFor(n) : TRUE
    BY <2>1
  <2>3. h \in Rounds /\ PartSent(d, h) /\ r <= h /\ h \in Nat
    BY <1>1 DEF PartsFor
  <2>4. CASE h = r
    BY <2>3, <2>4
  <2>5. CASE r < h
    BY <1>6, <2>3, <2>5
  <2>6. QED
    BY <1>1, <2>3, <2>4, <2>5
<1>9. /\ First(r, PartsFor(n)) /\ PartsFor(n)' = PartsFor(n) \ {r} /\ PartsFor(d)' = PartsFor(d)
  <2>1. r \in PartsFor(n) /\ PartsFor(n) \subseteq Nat
    <3>1. round[n] <= r
      BY <1>1
    <3>2. QED
      BY <1>1, <1>3, <1>5, <1>8, <3>1 DEF PartsFor
  <2>2. \A s \in PartsFor(n) : r <= s
    BY DEF PartsFor
  <2>3. \A s \in Rounds : /\ Owed(d, s) /\ PartSent(Other(d), s) /\ round[d] <= s
                         <=> (Owed(d, s) /\ PartSent(Other(d), s) /\ round[d] <= s)'
    BY <1>1, <1>2, <1>3, <1>6
  <2>4. PartsFor(d)' = PartsFor(d)
    BY <1>2, <2>3 DEF PartsFor
  <2>5. \A s \in Rounds : /\ Owed(n, s) /\ PartSent(Other(n), s) /\ round[n] <= s /\ s # r
                         <=> (Owed(n, s) /\ PartSent(Other(n), s) /\ round[n] <= s)'
    BY <1>1, <1>2, <1>3, <1>6
  <2>6. PartsFor(n)' = PartsFor(n) \ {r}
    BY <1>2, <2>5 DEF PartsFor
  <2>7. QED
    BY <2>1, <2>2, <2>4, <2>6 DEF First
<1>10. Head(columns[n]).round = r /\ Carries(columns'[n], d, PartsFor(n)')
  <2> HIDE DEF r, d
  <2>1. Head(columns[n]).round = r /\ Carries(Tail(columns[n]), d, PartsFor(n) \ {r})
    BY ONLY <1>3, <1>7, <1>9, CarriesLess
  <2>2. QED
    BY <1>3, <1>9, <2>1
<1>11. \A m \in Node, s \in Rounds : Owed(m, s) /\ round'[m] > s => PartSent(Other(m), s)'
  <2>1. ASSUME NEW s \in Rounds, Owed(n, s), round'[n] > s PROVE PartSent(d, s)'
    <3>1. s \in Nat /\ (s = r \/ round[n] > s)
      BY <1>1, <1>4, <2>1
    <3>2. QED
      BY <1>1, <1>6, <1>7, <1>8, <2>1, <3>1 DEF PartsPaired
  <2>2. ASSUME NEW s \in Rounds, Owed(d, s), round'[d] > s PROVE PartSent(n, s)'
    BY <1>1, <1>3, <1>6, <1>7, <2>2 DEF PartsPaired
  <2>3. QED
    BY <1>1, <2>1, <2>2
<1>12. PartsPaired'
  BY <1>2, <1>11 DEF PartsPaired
<1>13. PartsCarried'
  BY <1>1, <1>2, <1>3, <1>7, <1>9, <1>10 DEF PartsCarried
<1>14. QED
  BY <1>4, <1>10, <1>12, <1>13 DEF PartsFlow

-----------------------------------------------------------------------------
(* Each step keeps what the nodes have sent, taken and carry.              *)

LEMMA FlowBegin ==
  ASSUME TwoNodesWithoutFaults, FInv, NEW n \in Node, Begin(n)
  PROVE  FInv'
<1>1. /\ Types /\ Roles /\ query' = query /\ Node \ {n} = {Other(n)} /\ Master \in Node
      /\ Other(Master) \in Node /\ Other(Master) # Master
      /\ Rounds \subseteq Nat /\ round[n] \in Nat
      /\ \A m \in Node : m = n \/ m \in Node \ {n}
      /\ n # Master => n = Other(Master)
  BY FlowFacts DEF Begin
<1>2. /\ NodeTypes /\ Others(n)
      /\ round' = round /\ planRound' = planRound
      /\ samples' = samples /\ pivots' = pivots /\ columns' = columns
      /\ phase[n] = "compute" /\ round[n] \in 1 .. Len(plan) /\ taken'[n] = <<>>
      /\ \/ IsOrdered(round[n]) /\ n = Master /\ phase'[n] = "collectSamples"
         \/ IsOrdered(round[n]) /\ n # Master /\ phase'[n] = "sendSamples"
         \/ plan[round[n]] = "table" /\ phase'[n] = "distribute" /\ todo'[n] = Node \ {n}
         \/ Total(round[n]) /\ n = Master /\ phase'[n] = "collectPartitions"
         \/ /\ Total(round[n]) /\ n # Master /\ phase'[n] = "distribute"
            /\ todo'[n] = {Master}
  BY <1>1, BeginEffect
<1>3. /\ samples' \in [Node -> Seq(Message)] /\ pivots' \in [Node -> Seq(Message)]
      /\ columns' \in [Node -> Seq(Message)]
  BY <1>1, <1>2 DEF Types
<1>4. plan' = plan /\ Node' = Node /\ Worker' = Worker
  BY <1>1, Fixed
<1>5. OneTurn(n)'
  <2>1. Role(n)'
    BY <1>1, <1>2, <1>4 DEF Role, Total, IsOrdered
  <2>2. n # Master => Other(n) = Master
    BY FlowFacts
  <2>3. QED
    BY <1>1, <1>2, <1>4, <2>1, <2>2 DEF OneTurn
<1>6. PartsFlow'
  <2>1. ASSUME NEW m \in Node, NEW r \in Rounds, Owed(m, r)
        PROVE  PartSent(Other(m), r)' <=> PartSent(Other(m), r)
    <3>1. CASE Other(m) # n
      <4>1. Other(m) \in Node \ {n}
        BY <3>1, FlowFacts
      <4>2. QED
        BY <1>2, <4>1 DEF Others, PartSent
    <3>2. CASE Other(m) = n
      <4>1. n = Master => m # Master
        BY <3>2, FlowFacts
      <4>2. phase'[n] = "collectPartitions" => r # round[n]
        BY <1>2, <2>1, <4>1 DEF Owed, IsOrdered, Total
      <4>3. QED
        BY <1>2, <3>2, <4>2 DEF PartSent
    <3>3. QED
      BY <3>1, <3>2
  <2>2. QED
    BY <1>1, <1>2, <2>1, PartsStay DEF FInv
<1>7. SamplesFlow'
  <2>1. ASSUME NEW r \in Rounds, IsOrdered(r)
        PROVE  /\ SentSample(Other(Master), r)' <=> SentSample(Other(Master), r)
               /\ SampleTaken(r)' <=> SampleTaken(r)
    BY <1>1, <1>2, <2>1 DEF Others, SentSample, SampleTaken, IsOrdered, Total
  <2>2. QED
    BY <1>1, <1>2, <2>1, SamplesStay DEF FInv
<1>8. PivotsFlow'
  <2>1. ASSUME NEW r \in Rounds, IsOrdered(r)
        PROVE  /\ PivotsSent(r)' <=> PivotsSent(r)
               /\ PivotsTaken(r)' <=> PivotsTaken(r)
    BY <1>1, <1>2, <2>1 DEF Others, PivotsSent, PivotsTaken, IsOrdered, Total
  <2>2. QED
    BY <1>1, <1>2, <2>1, PivotsStay DEF FInv
<1>9. QED
  BY <1>1, <1>2, <1>3, <1>5, <1>6, <1>7, <1>8, FlowStep

LEMMA FlowSendSamples ==
  ASSUME TwoNodesWithoutFaults, FInv, NEW n \in Node, SendSamples(n)
  PROVE  FInv'
<1>1. /\ Types /\ Roles /\ query' = query /\ Master \in Node
      /\ \A m \in Node : m = n \/ m \in Node \ {n}
      /\ n # Master => n = Other(Master) /\ Other(Master) # Master
  BY FlowFacts DEF SendSamples
<1>2. /\ NodeTypes /\ Others(n)
      /\ round' = round /\ planRound' = planRound /\ todo' = todo /\ taken' = taken
      /\ pivots' = pivots /\ columns' = columns
      /\ phase[n] = "sendSamples" /\ phase'[n] = "getPlan"
      /\ samples' \in [Node -> Seq(Message)]
  BY <1>1, SendSamplesEffect
<1>3. pivots' \in [Node -> Seq(Message)] /\ columns' \in [Node -> Seq(Message)]
  BY <1>1, <1>2 DEF Types
<1>4. /\ n # Master /\ n = Other(Master) /\ IsOrdered(round[n]) /\ round[n] <= Len(plan)
      /\ OneTurn(n) /\ Role(n)
  BY <1>1, <1>2 DEF Roles, Role, FInv
<1>5. plan' = plan /\ Node' = Node /\ Worker' = Worker
  BY <1>1, Fixed
<1>6. OneTurn(n)'
  BY <1>2, <1>4, <1>5 DEF OneTurn, Role, Total, IsOrdered
<1>7. \A m \in Node : round'[m] = round[m]
         /\ (phase'[m] = "collectPartitions" <=> phase[m] = "collectPartitions")
         /\ (phase'[m] \in {"distribute", "collectPartitions"}
               <=> phase[m] \in {"distribute", "collectPartitions"})
  BY <1>1, <1>2 DEF Others
<1>8. PartsFlow'
  <2>1. \A m \in Node, r \in Rounds : PartSent(Other(m), r)' <=> PartSent(Other(m), r)
    BY <1>7, FlowFacts DEF PartSent
  <2>2. QED
    BY <1>1, <1>2, <2>1, PartsStay DEF FInv
<1>9. PivotsFlow'
  <2>1. \A r \in Rounds :
          /\ PivotsSent(r)' <=> PivotsSent(r)
          /\ PivotsTaken(r)' <=> PivotsTaken(r)
    BY <1>7, FlowFacts DEF PivotsSent, PivotsTaken
  <2>2. QED
    BY <1>1, <1>2, <2>1, PivotsStay DEF FInv
<1>10. SamplesFlow'
  BY <1>4, SamplesMore
<1>11. QED
  BY <1>1, <1>2, <1>3, <1>6, <1>8, <1>9, <1>10, FlowStep

LEMMA FlowCollectSample ==
  ASSUME TwoNodesWithoutFaults, FInv, NEW n \in Node, CollectSample(n)
  PROVE  FInv'
<1>1. /\ Types /\ Roles /\ query' = query /\ Master \in Node
      /\ \A m \in Node : m = n \/ m \in Node \ {n}
      /\ Worker = {Other(Master)}
  BY FlowFacts DEF CollectSample
<1>2. /\ NodeTypes /\ Others(n) /\ n = Master
      /\ round' = round /\ pivots' = pivots /\ columns' = columns
      /\ phase[n] = "collectSamples" /\ IsOrdered(round[n])
      /\ samples' \in [Node -> Seq(Message)]
      /\ \/ /\ Len(taken[n]) + 1 = N - 1 /\ phase'[n] = "distributePlan"
            /\ todo'[n] = Worker /\ planRound'[n] = round[n]
         \/ phase'[n] = phase[n] /\ todo'[n] = todo[n] /\ planRound'[n] = planRound[n]
  BY <1>1, CollectSampleEffect
<1>3. phase'[n] = "distributePlan" /\ SamplesFlow'
  BY SamplesLess
<1>4. /\ todo'[n] = {Other(n)} /\ planRound'[n] = round[n] /\ round[n] <= Len(plan)
  BY <1>1, <1>2, <1>3 DEF Roles, Role
<1>5. pivots' \in [Node -> Seq(Message)] /\ columns' \in [Node -> Seq(Message)]
  BY <1>1, <1>2 DEF Types
<1>6. plan' = plan /\ Node' = Node /\ Worker' = Worker
  BY <1>1, Fixed
<1>7. OneTurn(n)'
  BY <1>1, <1>2, <1>3, <1>4, <1>6 DEF OneTurn, Role, Total, IsOrdered
<1>8. \A m \in Node : round'[m] = round[m]
         /\ (phase'[m] = "collectPartitions" <=> phase[m] = "collectPartitions")
         /\ (phase'[m] \in {"distribute", "collectPartitions"}
               <=> phase[m] \in {"distribute", "collectPartitions"})
  BY <1>1, <1>2, <1>3 DEF Others
<1>9. PartsFlow'
  <2>1. \A m \in Node, r \in Rounds : PartSent(Other(m), r)' <=> PartSent(Other(m), r)
    BY <1>8, FlowFacts DEF PartSent
  <2>2. QED
    BY <1>1, <1>2, <2>1, PartsStay DEF FInv
<1>10. PivotsFlow'
  <2>1. \A r \in Rounds :
          /\ PivotsSent(r)' <=> PivotsSent(r)
          /\ PivotsTaken(r)' <=> PivotsTaken(r)
    BY <1>8, FlowFacts DEF PivotsSent, PivotsTaken
  <2>2. QED
    BY <1>1, <1>2, <2>1, PivotsStay DEF FInv
<1>11. QED
  BY <1>1, <1>2, <1>3, <1>5, <1>7, <1>9, <1>10, FlowStep

LEMMA FlowDistributePlan ==
  ASSUME TwoNodesWithoutFaults, FInv, NEW n \in Node, DistributePlan(n)
  PROVE  FInv'
<1>1. /\ Types /\ Roles /\ query' = query /\ Master \in Node
      /\ \A m \in Node : m = n \/ m \in Node \ {n}
      /\ Other(Master) \in Node \ {Master} /\ Node \ {n} = {Other(n)}
  BY FlowFacts DEF DistributePlan
<1>2. /\ NodeTypes /\ Others(n) /\ n = Master /\ IsOrdered(round[n])
      /\ round' = round /\ planRound' = planRound /\ samples' = samples /\ columns' = columns
      /\ phase[n] = "distributePlan" /\ pivots' \in [Node -> Seq(Message)]
      /\ \/ phase'[n] = "distribute" /\ todo'[n] = Node \ {n} /\ taken'[n] = <<>>
         \/ phase'[n] = "distributePlan"
  BY <1>1, DistributePlanEffect
<1>3. PivotsFlow' /\ phase'[n] = "distribute"
  BY PivotsMore
<1>4. samples' \in [Node -> Seq(Message)] /\ columns' \in [Node -> Seq(Message)]
  BY <1>1, <1>2 DEF Types
<1>5. plan' = plan /\ Node' = Node /\ Worker' = Worker /\ round[n] <= Len(plan)
  BY <1>1, <1>2, Fixed DEF Roles, Role
<1>6. OneTurn(n)'
  <2>1. ~Total(round[n])
    BY <1>2 DEF IsOrdered, Total
  <2>2. QED
    BY <1>1, <1>2, <1>3, <1>5, <2>1 DEF OneTurn, Role, Total, IsOrdered
<1>7. PartsFlow'
  <2>1. \A m \in Node : round'[m] = round[m]
          /\ (phase'[m] = "collectPartitions" <=> phase[m] = "collectPartitions")
    BY <1>1, <1>2, <1>3 DEF Others
  <2>2. \A m \in Node, r \in Rounds : PartSent(Other(m), r)' <=> PartSent(Other(m), r)
    BY <2>1, FlowFacts DEF PartSent
  <2>3. QED
    BY <1>1, <1>2, <2>2, PartsStay DEF FInv
<1>8. SamplesFlow'
  <2>1. \A r \in Rounds :
          /\ SentSample(Other(Master), r)' <=> SentSample(Other(Master), r)
          /\ SampleTaken(r)' <=> SampleTaken(r)
    BY <1>1, <1>2, <1>3 DEF SentSample, SampleTaken, Others
  <2>2. QED
    BY <1>1, <1>2, <2>1, SamplesStay DEF FInv
<1>9. QED
  BY <1>1, <1>2, <1>3, <1>4, <1>6, <1>7, <1>8, FlowStep

LEMMA FlowGetPlan ==
  ASSUME TwoNodesWithoutFaults, FInv, NEW n \in Node, GetPlan(n)
  PROVE  FInv'
<1>1. /\ Types /\ Roles /\ query' = query /\ Master \in Node
      /\ \A m \in Node : m = n \/ m \in Node \ {n}
      /\ Other(Master) # Master /\ Node \ {n} = {Other(n)}
  BY FlowFacts DEF GetPlan
<1>2. /\ PivotsFlow' /\ NodeTypes /\ Others(n) /\ n = Other(Master) /\ IsOrdered(round[n])
      /\ round' = round /\ samples' = samples /\ columns' = columns
      /\ phase[n] = "getPlan" /\ phase'[n] = "distribute"
      /\ todo'[n] = Node \ {n} /\ taken'[n] = <<>> /\ planRound'[n] = round[n]
      /\ pivots' \in [Node -> Seq(Message)]
  BY PivotsLess
<1>3. samples' \in [Node -> Seq(Message)] /\ columns' \in [Node -> Seq(Message)]
  BY <1>1, <1>2 DEF Types
<1>4. plan' = plan /\ Node' = Node /\ Worker' = Worker /\ round[n] <= Len(plan)
  BY <1>1, <1>2, Fixed DEF Roles, Role
<1>5. OneTurn(n)'
  <2>1. ~Total(round[n])
    BY <1>2 DEF IsOrdered, Total
  <2>2. QED
    BY <1>1, <1>2, <1>4, <2>1 DEF OneTurn, Role, Total, IsOrdered
<1>6. PartsFlow'
  <2>1. \A m \in Node : round'[m] = round[m]
          /\ (phase'[m] = "collectPartitions" <=> phase[m] = "collectPartitions")
    BY <1>1, <1>2 DEF Others
  <2>2. \A m \in Node, r \in Rounds : PartSent(Other(m), r)' <=> PartSent(Other(m), r)
    BY <2>1, FlowFacts DEF PartSent
  <2>3. QED
    BY <1>1, <1>2, <2>2, PartsStay DEF FInv
<1>7. SamplesFlow'
  <2>1. \A r \in Rounds :
          /\ SentSample(Other(Master), r)' <=> SentSample(Other(Master), r)
          /\ SampleTaken(r)' <=> SampleTaken(r)
    BY <1>1, <1>2 DEF SentSample, SampleTaken, Others
  <2>2. QED
    BY <1>1, <1>2, <2>1, SamplesStay DEF FInv
<1>8. QED
  BY <1>1, <1>2, <1>3, <1>5, <1>6, <1>7, FlowStep

(* A node that only goes on after the exchange of the samples and the plan *)
(* of its round, or after a round without them.                            *)
LEMMA FlowAfterPlan ==
  ASSUME TwoNodesWithoutFaults, FInv, query' = query, NEW n \in Node, Others(n),
         samples' = samples, pivots' = pivots,
         phase[n] \in {"distribute", "collectPartitions"},
         \/ round'[n] = round[n] /\ phase'[n] = "collectPartitions"
         \/ round'[n] = round[n] + 1 /\ phase'[n] = "compute"
  PROVE  SamplesFlow' /\ PivotsFlow'
<1>1. /\ Master \in Node /\ Other(Master) \in Node /\ Rounds \subseteq Nat
      /\ round[n] \in Nat
      /\ \A m \in Node : m = n \/ m \in Node \ {n}
  BY FlowFacts
<1>2. ASSUME NEW m \in Node, NEW r \in Rounds
      PROVE  /\ SentSample(m, r)' <=> SentSample(m, r)
             /\ round'[m] > r \/ (round'[m] = r /\ phase'[m] \notin {"compute", "collectSamples"})
                 <=> round[m] > r \/ (round[m] = r /\ phase[m] \notin {"compute", "collectSamples"})
             /\ round'[m] > r \/ (round'[m] = r /\ phase'[m] \in {"distribute", "collectPartitions"})
                 <=> round[m] > r \/ (round[m] = r /\ phase[m] \in {"distribute", "collectPartitions"})
  <2>1. CASE m = n
    BY <1>1, <2>1 DEF SentSample
  <2>2. CASE m \in Node \ {n}
    BY <2>2 DEF Others, SentSample
  <2>3. QED
    BY <1>1, <2>1, <2>2
<1>3. \A r \in Rounds :
        /\ SentSample(Other(Master), r)' <=> SentSample(Other(Master), r)
        /\ SampleTaken(r)' <=> SampleTaken(r)
        /\ PivotsSent(r)' <=> PivotsSent(r)
        /\ PivotsTaken(r)' <=> PivotsTaken(r)
  BY <1>1, <1>2 DEF SampleTaken, PivotsSent, PivotsTaken
<1>4. SamplesFlow'
  BY <1>3, SamplesStay DEF FInv
<1>5. PivotsFlow'
  BY <1>3, PivotsStay DEF FInv
<1>6. QED
  BY <1>4, <1>5

LEMMA FlowDistribute ==
  ASSUME TwoNodesWithoutFaults, FInv, NEW n \in Node, Distribute(n)
  PROVE  FInv'
<1>1. /\ Types /\ Roles /\ query' = query /\ Node \ {n} = {Other(n)} /\ Other(n) \in Node
      /\ Other(n) # n /\ Len(plan) \in Nat /\ round[n] \in Nat \ {0}
  BY FlowFacts DEF Distribute
<1>2. /\ NodeTypes /\ Others(n)
      /\ taken' = taken /\ samples' = samples /\ pivots' = pivots
      /\ phase[n] = "distribute" /\ columns' \in [Node -> Seq(Message)]
  BY <1>1, DistributeEffect
<1>3. /\ todo[n] = {Other(n)} /\ Role(n) /\ taken[n] = <<>> /\ round[n] <= Len(plan)
      /\ Total(round[n]) => n # Master /\ Other(n) = Master
  <2>1. OneTurn(n)
    BY DEF FInv
  <2>2. n # Master => Other(n) = Master
    BY FlowFacts
  <2>3. QED
    BY <1>2, <2>1, <2>2 DEF OneTurn, Role
<1>4. /\ columns' \in Sends(columns, n, Other(n))
      /\ IF plan[round[n]] = "total" THEN EndRound(n)
         ELSE Goes(n, "collectPartitions") /\ UNCHANGED round
  BY <1>3 DEF Distribute, InTurn
<1>5. \/ round'[n] = round[n] /\ phase'[n] = "collectPartitions" /\ ~Total(round[n])
      \/ /\ round'[n] = round[n] + 1 /\ phase'[n] = "compute" /\ ~Owed(n, round[n])
         /\ Total(round[n])
  <2>1. CASE Total(round[n])
    BY <1>1, <1>3, <1>4, <2>1, EndRoundEffect DEF Total, Owed
  <2>2. CASE ~Total(round[n])
    <3>1. Goes(n, "collectPartitions") /\ round' = round /\ "collectPartitions" \in Phase
      BY <1>4, <2>2 DEF Total, Phase
    <3>2. QED
      BY <1>1, <2>2, <3>1, GoesEffect
  <2>3. QED
    BY <2>1, <2>2
<1>6. PartsFlow'
  <2>1. /\ columns'[Other(n)] = Append(columns[Other(n)], Out(n)) /\ columns'[n] = columns[n]
    <3>1. columns \in [Node -> Seq(Message)]
      BY <1>1 DEF Types
    <3>2. QED
      BY <1>1, <1>4, <3>1, SurelySent, SendEffect
  <2>2. round[n] \in Rounds /\ Owed(Other(n), round[n])
    BY <1>1, <1>3 DEF Rounds, Owed
  <2>3. QED
    BY <1>1, <1>2, <1>5, <2>1, <2>2, PartsMore
<1>7. SamplesFlow' /\ PivotsFlow'
  BY <1>1, <1>2, <1>5, FlowAfterPlan
<1>8. samples' \in [Node -> Seq(Message)] /\ pivots' \in [Node -> Seq(Message)]
  BY <1>1, <1>2 DEF Types
<1>9. OneTurn(n)'
  <2>1. plan' = plan /\ Node' = Node /\ Worker' = Worker
    BY <1>1, Fixed
  <2>2. QED
    BY <1>2, <1>3, <1>5, <2>1 DEF OneTurn, Role, Total, IsOrdered
<1>10. QED
  BY <1>1, <1>2, <1>6, <1>7, <1>8, <1>9, FlowStep

LEMMA FlowCollectPartition ==
  ASSUME TwoNodesWithoutFaults, FInv, NEW n \in Node, CollectPartition(n)
  PROVE  FInv'
<1>1. Types /\ Roles /\ query' = query
  BY FlowFacts DEF CollectPartition
<1>2. /\ NodeTypes /\ Others(n) /\ samples' = samples /\ pivots' = pivots
      /\ phase[n] = "collectPartitions" /\ columns' \in [Node -> Seq(Message)]
  BY <1>1, CollectPartitionEffect
<1>3. PartsFlow' /\ phase'[n] = "compute" /\ round'[n] = round[n] + 1
  BY PartsLess
<1>4. SamplesFlow' /\ PivotsFlow'
  BY <1>1, <1>2, <1>3, FlowAfterPlan
<1>5. samples' \in [Node -> Seq(Message)] /\ pivots' \in [Node -> Seq(Message)]
  BY <1>1, <1>2 DEF Types
<1>6. OneTurn(n)'
  BY <1>3 DEF OneTurn, Role
<1>7. QED
  BY <1>1, <1>2, <1>3, <1>4, <1>5, <1>6, FlowStep

LEMMA InitFlow ==
  ASSUME TwoNodesWithoutFaults, Init
  PROVE  FInv
<1>1. IInv
  BY InitIInv
<1>2. /\ Types /\ Roles /\ Rounds \subseteq Nat
      /\ Master \in Node /\ Other(Master) \in Node
      /\ \A n \in Node : Other(n) \in Node
      /\ \A n \in Node : /\ round[n] = 1 /\ phase[n] = "compute"
                         /\ samples[n] = <<>> /\ pivots[n] = <<>> /\ columns[n] = <<>>
  <2>1. Types /\ Roles
    BY <1>1 DEF IInv
  <2>2. QED
    BY <2>1, OtherFacts, QueryFacts DEF Init, Rounds
<1>3. \A n \in Node, r \in Rounds : ~PartSent(n, r) /\ ~SentSample(n, r) /\ ~(round[n] > r)
  BY <1>2 DEF PartSent, SentSample, Rounds
<1>4. \A r \in Rounds : ~SampleTaken(r) /\ ~PivotsSent(r) /\ ~PivotsTaken(r)
  BY <1>2, <1>3 DEF SampleTaken, PivotsSent, PivotsTaken
<1>5. PartsFlow
  <2>1. \A n \in Node : PartsFor(n) = {}
    BY <1>2, <1>3 DEF PartsFor
  <2>2. PartsPaired
    BY <1>2, <1>3 DEF PartsPaired
  <2>3. QED
    BY <1>2, <2>1, <2>2, CarriesNothing DEF PartsFlow, PartsCarried
<1>6. SamplesFlow
  <2>1. SamplesOnTheWay = {}
    BY <1>2, <1>3 DEF SamplesOnTheWay
  <2>2. SamplesPaired
    BY <1>4 DEF SamplesPaired
  <2>3. QED
    BY <1>2, <2>1, <2>2, CarriesNothing DEF SamplesFlow, SamplesCarried
<1>7. PivotsFlow
  <2>1. PivotsOnTheWay = {}
    BY <1>4 DEF PivotsOnTheWay
  <2>2. PivotsPaired
    BY <1>4 DEF PivotsPaired
  <2>3. QED
    BY <1>2, <2>1, <2>2, CarriesNothing DEF PivotsFlow, PivotsCarried
<1>8. \A n \in Node : OneTurn(n)
  BY <1>2 DEF OneTurn, Roles
<1>9. QED
  BY <1>2, <1>5, <1>6, <1>7, <1>8 DEF FInv

LEMMA FlowStays ==
  ASSUME TwoNodesWithoutFaults, FInv, [Next]_vars
  PROVE  FInv'
<1>1. CASE Next
  <2>1. \A n \in Node : ~Fail(n)
    BY FlowFacts DEF Fail
  <2>2. QED
    BY <1>1, <2>1, FlowBegin, FlowSendSamples, FlowCollectSample, FlowDistributePlan,
       FlowGetPlan, FlowDistribute, FlowCollectPartition DEF Next
<1>2. CASE vars' = vars
  <2>1. /\ query' = query /\ round' = round /\ phase' = phase /\ todo' = todo
        /\ taken' = taken /\ planRound' = planRound
        /\ samples' = samples /\ pivots' = pivots /\ columns' = columns
    BY <1>2 DEF vars, queues
  <2>2. /\ Node' = Node /\ plan' = plan /\ Worker' = Worker /\ Message' = Message
    BY <2>1, Fixed
  <2>3. Types' /\ \A n \in Node' : OneTurn(n)'
    BY <2>1, <2>2 DEF FInv, Types, OneTurn, Role, IsOrdered, Total
  <2>4. PartsFlow'
    BY <2>1, PartsStay DEF FInv, PartSent
  <2>5. SamplesFlow'
    BY <2>1, SamplesStay DEF FInv, SentSample, SampleTaken
  <2>6. PivotsFlow'
    BY <2>1, PivotsStay DEF FInv, PivotsSent, PivotsTaken
  <2>7. QED
    BY <2>3, <2>4, <2>5, <2>6 DEF FInv
<1>3. QED
  BY <1>1, <1>2

LEMMA OneTaken ==
  ASSUME NEW m, NEW r, m.round = r
  PROVE  OfTheRound(Append(<<>>, m), r)
BY DEF OfTheRound

(* On two nodes where nothing fails the rounds of any plan stay apart, the *)
(* tables of joins included.                                               *)
THEOREM TwoNodesAreSeparate ==
  ASSUME TwoNodesWithoutFaults
  PROVE  Spec => RoundsDoNotMix
<1> DEFINE Separate == \A n \in Node :
       /\ taken'[n] # taken[n] => OfTheRound(taken'[n], round[n])
       /\ phase[n] # "distribute" /\ phase'[n] = "distribute" /\ plan[round[n]] = "ordered"
            => planRound'[n] = round[n]
<1>1. Init => FInv
  BY InitFlow
<1>2. FInv /\ [Next]_vars => FInv'
  BY FlowStays
<1>3. ASSUME FInv, [Next]_vars PROVE [Separate]_vars
  <2>1. SUFFICES ASSUME Next, NEW x \in Node
                 PROVE  /\ taken'[x] # taken[x] => OfTheRound(taken'[x], round[x])
                        /\ phase[x] # "distribute" /\ phase'[x] = "distribute"
                             /\ plan[round[x]] = "ordered" => planRound'[x] = round[x]
    BY <1>3
  <2>2. Types /\ Roles
    BY <1>3, FlowFacts
  <2>3. PICK n \in Node : \/ Begin(n) \/ SendSamples(n) \/ CollectSample(n) \/ DistributePlan(n)
                          \/ GetPlan(n) \/ Distribute(n) \/ CollectPartition(n) \/ Fail(n)
    BY <2>1 DEF Next
  <2>4. CASE Begin(n)
    BY <2>2, <2>4, BeginEffect, NothingTaken DEF Others, IsOrdered, Total
  <2>5. CASE SendSamples(n) \/ Fail(n)
    BY <2>2, <2>5, SendSamplesEffect, FailEffect DEF Others
  <2>6. CASE CollectSample(n)
    <3>1. Others(n) /\ phase'[n] = "distributePlan" /\ Head(samples[n]).round = round[n]
          /\ taken'[n] = Append(taken[n], Head(samples[n])) /\ taken[n] = <<>>
      BY <1>3, <2>2, <2>6, SamplesLess, CollectSampleEffect DEF FInv, OneTurn
    <3>2. QED
      BY <3>1, OneTaken DEF Others
  <2>7. CASE DistributePlan(n)
    <3>1. Others(n) /\ planRound'[n] = round[n] /\ (taken'[n] = <<>> \/ taken'[n] = taken[n])
      BY <1>3, <2>2, <2>7, DistributePlanEffect DEF FInv, OneTurn
    <3>2. QED
      BY <3>1, NothingTaken DEF Others
  <2>8. CASE GetPlan(n)
    <3>1. Others(n) /\ planRound'[n] = round[n] /\ taken'[n] = <<>>
      BY <1>3, <2>8, PivotsLess
    <3>2. QED
      BY <3>1, NothingTaken DEF Others
  <2>9. CASE Distribute(n)
    BY <2>2, <2>9, DistributeEffect DEF Others
  <2>10. CASE CollectPartition(n)
    <3>1. Others(n) /\ phase'[n] = "compute" /\ Head(columns[n]).round = round[n]
          /\ taken'[n] = Append(taken[n], Head(columns[n])) /\ taken[n] = <<>>
      BY <1>3, <2>2, <2>10, PartsLess, CollectPartitionEffect DEF FInv, OneTurn
    <3>2. QED
      BY <3>1, OneTaken DEF Others
  <2>11. QED
    BY <2>3, <2>4, <2>5, <2>6, <2>7, <2>8, <2>9, <2>10
<1>4. QED
  BY <1>1, <1>2, <1>3, PTL DEF Spec, RoundsDoNotMix
=============================================================================
