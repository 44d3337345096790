--------------------- MODULE ResultSetRepositoryProofs ---------------------
(***************************************************************************)
(* What result_set_repository guarantees, for any number of connections,   *)
(* tokens and handlers, and whatever rules the clients keep.               *)
(***************************************************************************)
EXTENDS ResultSetRepository, FiniteSetTheorems, TLAPS

(* The types of the variables that decide about a result.                  *)
Types ==
  /\ entries \subseteq Token
  /\ ready \in [Token -> BOOLEAN]
  /\ outcome \in [Token -> Outcome]
  /\ memory \in [Token -> {"none", "stored", "freed"}]
  /\ pc \in [Handler -> {"idle", "spawn"} \cup InGet]
  /\ job \in [Handler -> (Conn \cup {Null}) \X (Token \cup {Null})]
  /\ got \in [Handler -> Outcome]
  /\ query \in [Token -> {"none", "running", "checking", "storing", "notifying"} \cup Ended]
  /\ product \in [Token -> Outcome]
  /\ owner \in [Token -> Conn \cup {Null}]

(* A handler that serves a request knows its token.                        *)
BusyHasToken == \A p \in Handler : pc[p] # "idle" => tokenOf(p) \in Token

(* One handler starts the thread of a query, which has not run before.     *)
SpawnedOnce ==
  /\ \A t \in Token : owner[t] = Null => query[t] = "none"
  /\ \A p \in Handler : pc[p] = "spawn" => query[tokenOf(p)] = "none" /\ owner[tokenOf(p)] # Null
  /\ \A p, q \in Handler :
       pc[p] = "spawn" /\ pc[q] = "spawn" /\ tokenOf(p) = tokenOf(q) => p = q

(* The query has stored its outcome, which does not change any more.       *)
Stored(t) == query[t] \in {"notifying", "done"} /\ product[t] # "none"

EntriesAreOutcomes ==
  /\ \A t \in Token : query[t] \in {"checking", "storing", "notifying"} => product[t] # "none"
  /\ \A t \in Token : ready[t] => Stored(t) /\ outcome[t] = product[t]
  /\ \A t \in Token : ~ready[t] => outcome[t] = "none"
  /\ \A p \in Handler : pc[p] = "send" => Stored(tokenOf(p)) /\ got[p] = product[tokenOf(p)]

(* What was freed is never filled again.                                   *)
FreedIsGone == \A t \in Token : memory[t] = "freed" => Stored(t) /\ ~ready[t]

IInv ==
  /\ Types /\ BusyHasToken /\ SpawnedOnce /\ EntriesAreOutcomes /\ FreedIsGone /\ NoLostWakeup

USE NullIsNothing DEF Outcome, InGet, Ended

LEMMA InitIInv == Init => IInv
BY DEF Init, IInv, Types, BusyHasToken, SpawnedOnce, Stored, EntriesAreOutcomes, FreedIsGone,
       NoLostWakeup, tokenOf

(* Everything the invariant speaks of.                                     *)
state == <<entries, ready, outcome, memory, pc, job, got, query, product, owner>>

LEMMA Untouched == ASSUME IInv, UNCHANGED state PROVE IInv'
BY DEF state, IInv, Types, BusyHasToken, SpawnedOnce, Stored, EntriesAreOutcomes, FreedIsGone,
       NoLostWakeup, tokenOf

(* free_result forgets entries, and frees the frames of those it forgets.  *)
LEMMA FreeKeeps ==
  ASSUME IInv, NEW F, free_results(F), UNCHANGED <<pc, job, got, query, product, owner>>,
         entries' \subseteq Token
  PROVE  IInv'
<1>1. Types'
  BY DEF IInv, Types, free_results
<1>2. BusyHasToken' /\ SpawnedOnce'
  BY DEF IInv, BusyHasToken, SpawnedOnce, tokenOf
<1>3. EntriesAreOutcomes'
  BY DEF IInv, Types, EntriesAreOutcomes, Stored, free_results, tokenOf
<1>4. FreedIsGone'
  BY DEF IInv, Types, EntriesAreOutcomes, FreedIsGone, Stored, free_results
<1>5. NoLostWakeup'
  BY DEF IInv, Types, BusyHasToken, NoLostWakeup, free_results, tokenOf
<1>6. QED
  BY <1>1, <1>2, <1>3, <1>4, <1>5 DEF IInv

(* Every step keeps the invariant.                                         *)
LEMMA NextKeepsIInv == IInv /\ [Next]_vars => IInv'
<1> USE DEF Takes, Reply, About, resultSets, handlers, threads, ghosts, tokenOf, connOf
<1> SUFFICES ASSUME IInv, [Next]_vars PROVE IInv'
  OBVIOUS
<1>2. ASSUME NEW p \in Handler, NEW c \in Conn, NEW t \in Token, ExecuteRegister(p, c, t) PROVE IInv'
  BY <1>2 DEF ExecuteRegister, IInv, Types, BusyHasToken, SpawnedOnce, Stored,
              EntriesAreOutcomes, FreedIsGone, NoLostWakeup
<1>3. ASSUME NEW p \in Handler, ExecuteSpawn(p) PROVE IInv'
  BY <1>3 DEF ExecuteSpawn, IInv, Types, BusyHasToken, SpawnedOnce, Stored,
              EntriesAreOutcomes, FreedIsGone, NoLostWakeup
<1>4. ASSUME NEW p \in Handler, NEW c \in Conn, NEW t \in Token, GetFindConnection(p, c, t) PROVE IInv'
  BY <1>4 DEF GetFindConnection, IInv, Types, BusyHasToken, SpawnedOnce, Stored,
              EntriesAreOutcomes, FreedIsGone, NoLostWakeup
<1>5. ASSUME NEW p \in Handler, GetFindToken(p) PROVE IInv'
  <2>1. \/ pc' = [pc EXCEPT ![p] = "lock"] /\ UNCHANGED <<job, got>>
        \/ Reply(p)
    BY <1>5 DEF GetFindToken
  <2>2. pc[p] = "find" /\ tokenOf(p) \in Token
        /\ UNCHANGED <<entries, ready, outcome, memory, query, product, owner>>
    BY <1>5 DEF GetFindToken, IInv, BusyHasToken
  <2>3. CASE pc' = [pc EXCEPT ![p] = "lock"] /\ UNCHANGED <<job, got>>
    BY <2>2, <2>3 DEF IInv, Types, BusyHasToken, SpawnedOnce, EntriesAreOutcomes, Stored,
                      FreedIsGone, NoLostWakeup
  <2>4. CASE Reply(p)
    BY <2>2, <2>4 DEF IInv, Types, BusyHasToken, SpawnedOnce, EntriesAreOutcomes, Stored,
                      FreedIsGone, NoLostWakeup
  <2>5. QED
    BY <2>1, <2>3, <2>4
<1>6. ASSUME NEW p \in Handler, GetLock(p) PROVE IInv'
  <2> DEFINE t == tokenOf(p)
  <2>1. t \in Token /\ pc[p] = "lock"
    BY <1>6 DEF GetLock, IInv, BusyHasToken
  <2>2. CASE ready[t]
    <3>1. Stored(t) /\ outcome[t] = product[t]
      BY <2>1, <2>2 DEF IInv, EntriesAreOutcomes
    <3>2. Types' /\ BusyHasToken' /\ SpawnedOnce'
      <4>1. /\ entries' = entries \cup {t}
            /\ got' = [got EXCEPT ![p] = outcome[t]] /\ pc' = [pc EXCEPT ![p] = "send"]
            /\ UNCHANGED <<ready, outcome, memory, job, query, product, owner>>
        BY <1>6, <2>1, <2>2 DEF GetLock, Predicate
      <4>2. Types'
        <5>1. outcome[t] \in Outcome
          BY <2>1 DEF IInv, Types
        <5> HIDE DEF t
        <5>2. QED
          BY <2>1, <4>1, <5>1 DEF IInv, Types, InGet
      <4> HIDE DEF t
      <4>3. BusyHasToken' /\ SpawnedOnce'
        BY <2>1, <4>1 DEF IInv, Types, BusyHasToken, SpawnedOnce
      <4>4. QED
        BY <4>2, <4>3
    <3>3. EntriesAreOutcomes' /\ FreedIsGone' /\ NoLostWakeup'
      BY <1>6, <2>1, <2>2, <3>1
         DEF GetLock, Predicate, IInv, Types, EntriesAreOutcomes, FreedIsGone, Stored, NoLostWakeup
    <3>4. QED
      BY <3>2, <3>3 DEF IInv
  <2>3. CASE ~ready[t]
    <3>1. Types' /\ BusyHasToken' /\ SpawnedOnce'
      BY <1>6, <2>1, <2>3 DEF GetLock, Predicate, IInv, Types, BusyHasToken, SpawnedOnce
    <3>2. EntriesAreOutcomes' /\ FreedIsGone' /\ NoLostWakeup'
      BY <1>6, <2>1, <2>3
         DEF GetLock, Predicate, IInv, Types, EntriesAreOutcomes, FreedIsGone, Stored, NoLostWakeup
    <3>3. QED
      BY <3>1, <3>2 DEF IInv
  <2>4. QED
    BY <2>2, <2>3
<1>7. ASSUME NEW p \in Handler, SpuriousWakeup(p) PROVE IInv'
  BY <1>7 DEF SpuriousWakeup, IInv, Types, BusyHasToken, SpawnedOnce, Stored,
              EntriesAreOutcomes, FreedIsGone, NoLostWakeup
<1>1. ASSUME NEW p \in Handler, GetFails(p) PROVE IInv'
  BY <1>1 DEF GetFails, IInv, Types, BusyHasToken, SpawnedOnce, Stored,
              EntriesAreOutcomes, FreedIsGone, NoLostWakeup
<1>8. ASSUME NEW p \in Handler, GetRespond(p) PROVE IInv'
  BY <1>8 DEF GetRespond, IInv, Types, BusyHasToken, SpawnedOnce, Stored,
              EntriesAreOutcomes, FreedIsGone, NoLostWakeup
<1>9. ASSUME NEW p \in Handler, NEW c \in Conn, NEW t \in Token, TryFree(p, c, t) PROVE IInv'
  <2>1. CASE LastReference(t)
    <3>1. free_results({t}) /\ UNCHANGED <<pc, job, got, query, product, owner>>
      BY <1>9, <2>1 DEF TryFree
    <3>2. entries' \subseteq Token
      BY <3>1 DEF free_results, IInv, Types
    <3>3. QED
      BY <3>1, <3>2, FreeKeeps
  <2>2. CASE ~LastReference(t)
    BY <1>9, <2>2, Untouched DEF TryFree, state
  <2>3. QED
    BY <2>1, <2>2
<1>10. ASSUME NEW p \in Handler, NEW c \in Conn, Close(p, c) PROVE IInv'
  <2> DEFINE F == Visited(tokens[c], Unreferenced) \cap Unreferenced
  <2>1. free_results(F) /\ UNCHANGED <<pc, job, got, query, product, owner>>
    BY <1>10 DEF Close
  <2> HIDE DEF F
  <2>2. entries' \subseteq Token
    BY <2>1 DEF free_results, IInv, Types
  <2>3. QED
    BY <2>1, <2>2, FreeKeeps
<1>11. ASSUME NEW t \in Token, QueryEnds(t) PROVE IInv'
  BY <1>11 DEF QueryEnds, IInv, Types, BusyHasToken, SpawnedOnce, Stored,
               EntriesAreOutcomes, FreedIsGone, NoLostWakeup
<1>12. ASSUME NEW t \in Token, UpdateCheck(t) PROVE IInv'
  <2>1. CASE t \in entries
    BY <1>12, <2>1 DEF UpdateCheck, IInv, Types, BusyHasToken, SpawnedOnce, Stored,
                       EntriesAreOutcomes, FreedIsGone, NoLostWakeup
  <2>2. CASE t \notin entries
    BY <1>12, <2>2 DEF UpdateCheck, IInv, Types, BusyHasToken, SpawnedOnce, Stored,
                       EntriesAreOutcomes, FreedIsGone, NoLostWakeup
  <2>3. QED
    BY <2>1, <2>2
<1>13. ASSUME NEW t \in Token, UpdateThrows(t) PROVE IInv'
  BY <1>13 DEF UpdateThrows, IInv, Types, BusyHasToken, SpawnedOnce, Stored,
               EntriesAreOutcomes, FreedIsGone, NoLostWakeup
<1>14. ASSUME NEW t \in Token, UpdateStore(t) PROVE IInv'
  BY <1>14 DEF UpdateStore, IInv, Types, BusyHasToken, SpawnedOnce, Stored,
               EntriesAreOutcomes, FreedIsGone, NoLostWakeup
<1>15. ASSUME NEW t \in Token, UpdateNotify(t) PROVE IInv'
  BY <1>15 DEF UpdateNotify, Notified, IInv, Types, BusyHasToken, SpawnedOnce, Stored,
               EntriesAreOutcomes, FreedIsGone, NoLostWakeup
<1>16. CASE UNCHANGED vars
  BY <1>16, Untouched DEF vars, state
<1>17. QED
  BY <1>1, <1>2, <1>3, <1>4, <1>5, <1>6, <1>7, <1>8, <1>9, <1>10, <1>11, <1>12, <1>13, <1>14,
     <1>15, <1>16 DEF Next

THEOREM Invariance == Spec => []IInv
BY InitIInv, NextKeepsIInv, PTL DEF Spec

(* A reply to getResult carries what the query of its token produced, for  *)
(* any number of clients and threads, whatever they do (get_result,        *)
(* update_token).                                                          *)
THEOREM RepliesCarryTheOutcome == Spec => []ReturnsTheOutcome
<1>1. IInv => ReturnsTheOutcome
  BY DEF IInv, EntriesAreOutcomes, Stored, ReturnsTheOutcome, tokenOf
<1>2. QED
  BY <1>1, Invariance, PTL

(* A handler that waits for a result that is ready is about to be notified.*)
THEOREM WakeupsAreNotLost == Spec => []NoLostWakeup
<1>1. IInv => NoLostWakeup
  BY DEF IInv
<1>2. QED
  BY <1>1, Invariance, PTL

-----------------------------------------------------------------------------
(* The references, for clients that free what they were given.             *)

(* The references counted fit into the bound.                              *)
Counts ==
  /\ held \in [Token -> Nat] /\ failed \in [Token -> Nat]
  /\ ref \in [Token -> Nat]
  /\ \A t \in Token : Kept(t) + Cardinality(Getting(t)) <= MaxGets

(* What is held, counted or being returned, is there.                      *)
HeldIsReady == Balanced => \A t \in Token : Kept(t) > 0 \/ Sending(t) # {} => ready[t]

RInv == Counts /\ HeldIsReady /\ RefExact

USE HandlersAreFinite, RefHoldsGets, BoundsArePositive

LEMMA Requests ==
  ASSUME NEW t
  PROVE  /\ IsFiniteSet(Getting(t)) /\ Cardinality(Getting(t)) \in Nat
         /\ IsFiniteSet(Sending(t)) /\ Cardinality(Sending(t)) \in Nat
         /\ Cardinality(Sending(t)) <= Cardinality(Getting(t))
         /\ Cardinality(Sending(t)) = 0 <=> Sending(t) = {}
<1>1. Getting(t) \subseteq Handler /\ Sending(t) \subseteq Getting(t)
  BY DEF Getting, Sending
<1>2. IsFiniteSet(Getting(t)) /\ IsFiniteSet(Sending(t))
  BY <1>1, FS_Subset
<1>3. QED
  BY <1>1, <1>2, FS_CardinalityType, FS_Subset, FS_EmptySet

(* The count fits into ref_counter.                                        *)
LEMMA CountFits ==
  ASSUME Counts, NEW t \in Token
  PROVE  Kept(t) \in Nat /\ Holders(t) \in Nat /\ Holders(t) < RefModulus
BY Requests DEF Counts, Kept, Holders

LEMMA Arithmetic ==
  ASSUME NEW r \in Nat
  PROVE  /\ Incremented(r) \in Nat /\ Decremented(r) \in Nat
         /\ r + 1 < RefModulus => Incremented(r) = r + 1
         /\ r \in 1 .. RefModulus - 1 => Decremented(r) = r - 1
<1>1. RefModulus \in Nat \ {0}
  OBVIOUS
<1>2. QED
  BY <1>1 DEF Incremented, Decremented

LEMMA InitRInv == Init => RInv
<1> SUFFICES ASSUME Init PROVE RInv
  OBVIOUS
<1>1. ASSUME NEW t PROVE Getting(t) = {} /\ Sending(t) = {}
  BY DEF Init, Getting, Sending
<1>2. \A t : Cardinality(Getting(t)) = 0 /\ Cardinality(Sending(t)) = 0
  BY <1>1, FS_EmptySet
<1>3. /\ held = [t \in Token |-> 0] /\ failed = [t \in Token |-> 0]
      /\ ref = [t \in Token |-> 0] /\ ready = [t \in Token |-> FALSE]
  BY DEF Init
<1>4. Counts
  BY <1>2, <1>3 DEF Counts, Kept
<1>5. HeldIsReady /\ RefExact
  BY <1>1, <1>3 DEF HeldIsReady, RefExact, Kept
<1>6. QED
  BY <1>4, <1>5 DEF RInv

(* A step that changes neither the counts nor who gets what.               *)
LEMMA CountsUntouched ==
  ASSUME RInv, UNCHANGED <<held, failed, ref, ready, rules>>,
         \A t \in Token : Getting(t)' = Getting(t) /\ Sending(t)' = Sending(t)
  PROVE  RInv'
BY DEF RInv, Counts, HeldIsReady, RefExact, Balanced, Kept, Holders

(* free_result, for entries without references.                            *)
LEMMA FreeKeepsCounts ==
  ASSUME RInv, NEW F, free_results(F), \A t \in F \cap Token : ref[t] = 0,
         ready \in [Token -> BOOLEAN],
         UNCHANGED <<pc, job, held, failed, rules>>
  PROVE  RInv'
<1>1. ASSUME NEW t
      PROVE  /\ Getting(t)' = Getting(t) /\ Sending(t)' = Sending(t)
             /\ Kept(t)' = Kept(t) /\ Holders(t)' = Holders(t)
  BY DEF Getting, Sending, Kept, Holders, tokenOf
<1>2. Counts'
  BY <1>1 DEF RInv, Counts, free_results
<1>3. ASSUME Balanced, NEW t \in Token \cap F PROVE Kept(t) = 0 /\ Sending(t) = {}
  BY <1>3, Requests, CountFits DEF RInv, Counts, HeldIsReady, RefExact, Holders
<1>4. /\ ready' = [t \in Token |-> ready[t] /\ t \notin F]
      /\ ref' = [t \in Token |-> IF t \in F THEN 0 ELSE ref[t]]
      /\ Balanced' = Balanced
  BY DEF free_results, Balanced
<1>5. HeldIsReady'
  BY <1>1, <1>3, <1>4 DEF RInv, HeldIsReady
<1>6. RefExact'
  <2> SUFFICES ASSUME Balanced, NEW t \in Token
               PROVE  ref'[t] = IF ready'[t] THEN Holders(t) ELSE 0
    BY <1>1, <1>4 DEF RefExact
  <2>1. CASE t \in F
    BY <2>1, <1>4
  <2>2. CASE t \notin F
    BY <2>2, <1>4 DEF RInv, RefExact
  <2>3. QED
    BY <2>1, <2>2
<1>7. QED
  BY <1>2, <1>5, <1>6 DEF RInv

LEMMA NextKeepsRInv == IInv /\ RInv /\ [Next]_vars => RInv'
<1> USE DEF Takes, Reply, About, resultSets, handlers, threads, ghosts, tokenOf, connOf
<1> SUFFICES ASSUME IInv, RInv, [Next]_vars PROVE RInv'
  OBVIOUS
<1>a. pc \in [Handler -> {"idle", "spawn"} \cup InGet]
      /\ job \in [Handler -> (Conn \cup {Null}) \X (Token \cup {Null})]
      /\ ready \in [Token -> BOOLEAN] /\ BusyHasToken
  BY DEF IInv, Types
<1>2. ASSUME NEW p \in Handler, NEW c \in Conn, NEW t \in Token, ExecuteRegister(p, c, t) PROVE RInv'
  <2>1. ASSUME NEW u \in Token PROVE Getting(u)' = Getting(u) /\ Sending(u)' = Sending(u)
    BY <1>2, <1>a DEF ExecuteRegister, Getting, Sending
  <2>2. QED
    BY <1>2, <2>1, CountsUntouched DEF ExecuteRegister
<1>3. ASSUME NEW p \in Handler, ExecuteSpawn(p) PROVE RInv'
  <2>1. ASSUME NEW u \in Token PROVE Getting(u)' = Getting(u) /\ Sending(u)' = Sending(u)
    BY <1>3, <1>a DEF ExecuteSpawn, Getting, Sending
  <2>2. QED
    BY <1>3, <2>1, CountsUntouched DEF ExecuteSpawn
<1>4. ASSUME NEW p \in Handler, NEW c \in Conn, NEW t \in Token, GetFindConnection(p, c, t) PROVE RInv'
  <2>1. Getting(t)' = Getting(t) \cup {p} /\ p \notin Getting(t)
    BY <1>4, <1>a DEF GetFindConnection, Getting
  <2>2. \A u \in Token \ {t} : Getting(u)' = Getting(u)
    BY <1>4, <1>a DEF GetFindConnection, Getting
  <2>3. \A u \in Token : Sending(u)' = Sending(u)
    BY <1>4, <1>a DEF GetFindConnection, Sending
  <2>4. Cardinality(Getting(t)') = Cardinality(Getting(t)) + 1
    BY <2>1, Requests, FS_AddElement
  <2>a. UNCHANGED <<held, failed, ref, ready, rules>> /\ Kept(t) + Cardinality(Getting(t)) < MaxGets
    BY <1>4 DEF GetFindConnection
  <2>b. \A u \in Token : Kept(u)' = Kept(u) /\ Kept(u) \in Nat
    BY <2>a DEF RInv, Counts, Kept
  <2>5. Counts'
    BY <2>2, <2>4, <2>a, <2>b, Requests DEF RInv, Counts
  <2>6. HeldIsReady' /\ RefExact'
    BY <2>3, <2>a, <2>b DEF RInv, HeldIsReady, RefExact, Balanced, Holders
  <2>7. QED
    BY <2>5, <2>6 DEF RInv
<1>5. ASSUME NEW p \in Handler, GetFindToken(p) PROVE RInv'
  <2>1. \A u \in Token : Sending(u)' = Sending(u)
    BY <1>5, <1>a DEF GetFindToken, Sending
  <2>2. \A u \in Token : Getting(u)' \subseteq Getting(u)
    BY <1>5, <1>a DEF GetFindToken, Getting
  <2>3. \A u \in Token : Cardinality(Getting(u)') <= Cardinality(Getting(u))
                         /\ Cardinality(Getting(u)') \in Nat
    BY <2>2, Requests, FS_Subset, FS_CardinalityType
  <2>a. UNCHANGED <<held, failed, ref, ready, rules>>
    BY <1>5 DEF GetFindToken
  <2>b. \A u \in Token : Kept(u)' = Kept(u) /\ Kept(u) \in Nat
    BY <2>a DEF RInv, Counts, Kept
  <2>4. Counts'
    BY <2>3, <2>a, <2>b, Requests DEF RInv, Counts
  <2>5. HeldIsReady' /\ RefExact'
    BY <2>1, <2>a, <2>b DEF RInv, HeldIsReady, RefExact, Balanced, Holders
  <2>6. QED
    BY <2>4, <2>5 DEF RInv
<1>6. ASSUME NEW p \in Handler, GetLock(p) PROVE RInv'
  <2>1. PICK t \in Token : t = tokenOf(p) /\ pc[p] = "lock"
    BY <1>6, <1>a DEF GetLock, BusyHasToken
  <2>2. \A u \in Token : Getting(u)' = Getting(u)
    BY <1>6, <1>a DEF GetLock, Getting
  <2>3. CASE ready[t]
    <3>1. ref' = [ref EXCEPT ![t] = Incremented(@)] /\ UNCHANGED <<held, failed, ready, rules>>
      BY <1>6, <2>1, <2>3 DEF GetLock, Predicate
    <3>2. Sending(t)' = Sending(t) \cup {p} /\ p \notin Sending(t)
      BY <1>6, <1>a, <2>1, <2>3 DEF GetLock, Predicate, Sending
    <3>3. \A u \in Token \ {t} : Sending(u)' = Sending(u)
      BY <1>6, <1>a, <2>1, <2>3 DEF GetLock, Predicate, Sending
    <3>4. Cardinality(Sending(t)') = Cardinality(Sending(t)) + 1
      BY <3>2, Requests, FS_AddElement
    <3>a. \A u \in Token : Kept(u)' = Kept(u) /\ Kept(u) \in Nat
      BY <3>1 DEF RInv, Counts, Kept
    <3>5. Counts'
      BY <2>1, <2>2, <3>1, <3>a, Arithmetic DEF RInv, Counts
    <3>6. HeldIsReady'
      BY <2>1, <2>3, <3>1, <3>3, <3>a DEF RInv, HeldIsReady, Balanced
    <3>7. Holders(t) + 1 < RefModulus /\ Holders(t) \in Nat
      <4>1. Getting(t) = Getting(t) /\ p \in Getting(t) \ Sending(t) /\ Sending(t) \subseteq Getting(t)
        BY <2>1 DEF Getting, Sending
      <4>2. Cardinality(Sending(t) \cup {p}) <= Cardinality(Getting(t))
        BY <4>1, Requests, FS_Subset
      <4>3. QED
        BY <2>1, <4>2, <3>2, <3>4, <3>a, Requests DEF RInv, Counts, Holders
    <3>8. RefExact'
      <4>1. Balanced => ref'[t] = Holders(t) + 1
        BY <2>1, <2>3, <3>1, <3>7, Arithmetic DEF RInv, Counts, RefExact
      <4>2. ready'[t] /\ Balanced' = Balanced
        BY <2>3, <3>1 DEF Balanced
      <4>3. Holders(t)' = Holders(t) + 1
        BY <2>1, <3>4, <3>a, Requests DEF Holders
      <4>4. \A u \in Token \ {t} : ref'[u] = ref[u] /\ ready'[u] = ready[u] /\ Holders(u)' = Holders(u)
        BY <3>1, <3>3, <3>a DEF RInv, Counts, Holders
      <4>5. QED
        BY <4>1, <4>2, <4>3, <4>4 DEF RInv, RefExact
    <3>9. QED
      BY <3>5, <3>6, <3>8 DEF RInv
  <2>4. CASE ~ready[t]
    <3>1. \A u \in Token : Sending(u)' = Sending(u)
      BY <1>6, <1>a, <2>1, <2>4 DEF GetLock, Predicate, Sending
    <3>2. QED
      BY <1>6, <2>1, <2>2, <2>4, <3>1, CountsUntouched DEF GetLock, Predicate
  <2>5. QED
    BY <2>3, <2>4
<1>7. ASSUME NEW p \in Handler, SpuriousWakeup(p) PROVE RInv'
  <2>1. ASSUME NEW u \in Token PROVE Getting(u)' = Getting(u) /\ Sending(u)' = Sending(u)
    BY <1>7, <1>a DEF SpuriousWakeup, Getting, Sending
  <2>2. QED
    BY <1>7, <2>1, CountsUntouched DEF SpuriousWakeup
<1>8. ASSUME NEW p \in Handler, GetRespond(p) \/ GetFails(p) PROVE RInv'
  <2>1. PICK t \in Token : t = tokenOf(p) /\ p \in Getting(t) /\ p \in Sending(t)
    BY <1>8, <1>a DEF GetRespond, GetFails, BusyHasToken, Getting, Sending
  <2>2. Getting(t)' = Getting(t) \ {p} /\ Sending(t)' = Sending(t) \ {p}
    BY <1>8, <1>a, <2>1 DEF GetRespond, GetFails, Getting, Sending
  <2>3. \A u \in Token \ {t} : Getting(u)' = Getting(u) /\ Sending(u)' = Sending(u)
    BY <1>8, <1>a, <2>1 DEF GetRespond, GetFails, Getting, Sending
  <2>4. /\ Cardinality(Getting(t)') = Cardinality(Getting(t)) - 1
        /\ Cardinality(Sending(t)') = Cardinality(Sending(t)) - 1
    <3>1. /\ Cardinality(Getting(t) \ {p}) = Cardinality(Getting(t)) - 1
          /\ Cardinality(Sending(t) \ {p}) = Cardinality(Sending(t)) - 1
      <4>1. IsFiniteSet(Getting(t)) /\ IsFiniteSet(Sending(t))
        BY Requests
      <4>2. p \in Getting(t) /\ p \in Sending(t)
        BY <2>1
      <4> HIDE DEF Getting, Sending
      <4>3. QED
        BY <4>1, <4>2, FS_RemoveElement
    <3>2. QED
      BY <2>2, <3>1
  <2>5. /\ \/ held' = [held EXCEPT ![t] = @ + 1] /\ UNCHANGED failed
           \/ failed' = [failed EXCEPT ![t] = @ + 1] /\ UNCHANGED held
        /\ UNCHANGED <<ref, ready, rules>>
    BY <1>8, <2>1 DEF GetRespond, GetFails
  <2>a. /\ held' \in [Token -> Nat] /\ failed' \in [Token -> Nat]
        /\ Kept(t)' = Kept(t) + 1
        /\ \A u \in Token \ {t} : Kept(u)' = Kept(u)
        /\ \A u \in Token : Kept(u) \in Nat
    BY <2>1, <2>5 DEF RInv, Counts, Kept
  <2>6. Counts'
    BY <2>1, <2>3, <2>4, <2>5, <2>a, Requests DEF RInv, Counts
  <2>7. HeldIsReady'
    BY <2>1, <2>3, <2>5, <2>a DEF RInv, HeldIsReady, Balanced
  <2>8. RefExact'
    <3>1. Holders(t)' = Holders(t)
      BY <2>1, <2>4, <2>a, Requests DEF Holders
    <3>2. \A u \in Token \ {t} : Holders(u)' = Holders(u)
      BY <2>3, <2>a DEF Holders
    <3>3. QED
      BY <2>5, <3>1, <3>2 DEF RInv, RefExact, Balanced
  <2>9. QED
    BY <2>6, <2>7, <2>8 DEF RInv
<1>9. ASSUME NEW p \in Handler, NEW c \in Conn, NEW t \in Token, TryFree(p, c, t) PROVE RInv'
  <2>1. /\ held' = [held EXCEPT ![t] = IF @ > 0 THEN @ - 1 ELSE 0]
        /\ UNCHANGED <<failed, rules>>
        /\ Balanced => held[t] > 0
    BY <1>9 DEF TryFree, Balanced
  <2>2. \A u \in Token : Getting(u)' = Getting(u) /\ Sending(u)' = Sending(u)
    BY <1>9 DEF TryFree, Getting, Sending
  <2>a. /\ held' \in [Token -> Nat] /\ failed' \in [Token -> Nat] /\ Balanced' = Balanced
        /\ \A u \in Token \ {t} : Kept(u)' = Kept(u) /\ Holders(u)' = Holders(u)
        /\ \A u \in Token : Kept(u) \in Nat /\ Kept(u)' \in Nat /\ Kept(u)' <= Kept(u)
        /\ Balanced => Kept(t)' = Kept(t) - 1 /\ Kept(t) > 0
    BY <2>1, <2>2 DEF RInv, Counts, Kept, Holders, Balanced
  <2>b. Balanced => /\ ready[t] /\ ref[t] = Holders(t) /\ Holders(t)' = Holders(t) - 1
                    /\ Holders(t) \in Nat \ {0}
    <3>1. Balanced => ready[t] /\ ref[t] = Holders(t)
      BY <2>a DEF RInv, HeldIsReady, RefExact
    <3>2. Balanced => Holders(t)' = Holders(t) - 1 /\ Holders(t) \in Nat \ {0}
      BY <2>2, <2>a, Requests DEF Holders
    <3>3. QED
      BY <3>1, <3>2
  <2>3. CASE LastReference(t)
    <3>1. /\ ref' = [u \in Token |-> IF u = t THEN 0 ELSE ref[u]]
          /\ ready' = [u \in Token |-> ready[u] /\ u # t]
      BY <1>9, <2>3 DEF TryFree, free_results
    <3>2. Counts'
      BY <2>2, <2>a, <3>1, Requests DEF RInv, Counts
    <3>3. Balanced => Kept(t)' = 0 /\ Sending(t) = {}
      BY <2>3, <2>a, <2>b, Requests DEF Holders, LastReference
    <3>4. ~ready'[t] /\ ref'[t] = 0
      BY <3>1
    <3>5. \A u \in Token \ {t} : ref'[u] = ref[u] /\ ready'[u] = ready[u]
      BY <1>a, <3>1 DEF RInv, Counts
    <3>6. HeldIsReady'
      BY <2>2, <2>a, <3>3, <3>4, <3>5 DEF RInv, HeldIsReady
    <3>7. RefExact'
      BY <2>a, <3>4, <3>5 DEF RInv, RefExact
    <3>8. QED
      BY <3>2, <3>6, <3>7 DEF RInv
  <2>4. CASE ~LastReference(t)
    <3>1. ref' = [ref EXCEPT ![t] = Decremented(@)] /\ UNCHANGED ready
      BY <1>9, <2>4 DEF TryFree
    <3>2. Counts'
      BY <2>2, <2>a, <3>1, Arithmetic, Requests DEF RInv, Counts
    <3>3. HeldIsReady'
      BY <2>2, <2>a, <2>b, <3>1 DEF RInv, HeldIsReady
    <3>5. Balanced => Decremented(ref[t]) = ref[t] - 1
      BY <2>b, CountFits, Arithmetic DEF RInv
    <3>6. RefExact'
      BY <2>a, <2>b, <3>1, <3>5 DEF RInv, Counts, RefExact
    <3>7. QED
      BY <3>2, <3>3, <3>6 DEF RInv
  <2>5. QED
    BY <2>3, <2>4
<1>10. ASSUME NEW p \in Handler, NEW c \in Conn, Close(p, c) PROVE RInv'
  <2> DEFINE F == Visited(tokens[c], Unreferenced) \cap Unreferenced
  <2>1. free_results(F) /\ UNCHANGED <<pc, job, held, failed, rules>>
    BY <1>10 DEF Close
  <2>2. \A t \in F \cap Token : ref[t] = 0
    BY DEF Unreferenced
  <2> HIDE DEF F
  <2>3. QED
    BY <1>a, <2>1, <2>2, FreeKeepsCounts
<1>11. ASSUME NEW t \in Token, QueryEnds(t) \/ UpdateCheck(t) \/ UpdateThrows(t) PROVE RInv'
  BY <1>11, CountsUntouched DEF QueryEnds, UpdateCheck, UpdateThrows, Getting, Sending
<1>12. ASSUME NEW t \in Token, UpdateStore(t) PROVE RInv'
  <2>1. \A u \in Token : Getting(u)' = Getting(u) /\ Sending(u)' = Sending(u)
    BY <1>12 DEF UpdateStore, Getting, Sending
  <2>2. /\ ref' = [ref EXCEPT ![t] = 0] /\ ready' = [ready EXCEPT ![t] = TRUE]
        /\ UNCHANGED <<held, failed, rules>>
    BY <1>12 DEF UpdateStore
  <2>3. ~ready[t]
    BY <1>12 DEF UpdateStore, IInv, EntriesAreOutcomes, Stored
  <2>a. \A u \in Token : Kept(u)' = Kept(u) /\ Holders(u)' = Holders(u)
    BY <2>1, <2>2 DEF Kept, Holders
  <2>4. Balanced => Holders(t) = 0
    BY <2>3, Requests, CountFits DEF RInv, HeldIsReady, Holders
  <2>5. Counts'
    BY <2>1, <2>2, <2>a DEF RInv, Counts
  <2>6. HeldIsReady' /\ RefExact'
    BY <1>a, <2>1, <2>2, <2>4, <2>a DEF RInv, Counts, HeldIsReady, RefExact, Balanced
  <2>7. QED
    BY <2>5, <2>6 DEF RInv
<1>13. ASSUME NEW t \in Token, UpdateNotify(t) PROVE RInv'
  <2>1. ASSUME NEW u \in Token PROVE Getting(u)' = Getting(u) /\ Sending(u)' = Sending(u)
    BY <1>13, <1>a DEF UpdateNotify, Notified, Getting, Sending
  <2>2. QED
    BY <1>13, <2>1, CountsUntouched DEF UpdateNotify
<1>14. CASE UNCHANGED vars
  BY <1>14, CountsUntouched DEF vars, Getting, Sending
<1>15. QED
  BY <1>2, <1>3, <1>4, <1>5, <1>6, <1>7, <1>8, <1>9, <1>10, <1>11, <1>12, <1>13, <1>14 DEF Next

(* ref_counter counts the results that were returned to balanced clients   *)
(* and not freed, those being returned, and those whose reply failed       *)
(* (get_result, getResultService, try_free_result,                         *)
(* remove_all_connection_tokens).                                          *)
THEOREM ReferencesAreExact == Spec => []RefExact
<1>1. Spec => []RInv
  BY Invariance, InitRInv, NextKeepsRInv, PTL DEF Spec
<1>2. RInv => RefExact
  BY DEF RInv
<1>3. QED
  BY <1>1, <1>2, PTL

(* The columns of a result that a balanced client has, or that a handler   *)
(* still reads, are never freed.                                           *)
THEOREM HeldResultsAreKept == Spec => []HeldNotFreed
<1>1. Spec => []RInv
  BY Invariance, InitRInv, NextKeepsRInv, PTL DEF Spec
<1>2. IInv /\ RInv => HeldNotFreed
  BY DEF IInv, RInv, Counts, HeldIsReady, FreedIsGone, HeldNotFreed, Kept
<1>3. QED
  BY <1>1, <1>2, Invariance, PTL

-----------------------------------------------------------------------------
(***************************************************************************)
(* result_set_repository implements ResultLifecycle: for balanced clients  *)
(* each result is pending or dropped, then ready, then gone for good,      *)
(* whatever the order in which handlers and query threads run; and a query *)
(* ends the process only when its own connection was closed, or its token  *)
(* freed, while it ran.                                                    *)
(***************************************************************************)

(* The vectors of connection_result_sets hold the tokens their connection  *)
(* has registered, each once (what Without relies on).                     *)
TokensOf(c) == {tokens[c][i] : i \in DOMAIN tokens[c]}

VectorsAreOwned ==
  /\ tokens \in [Conn -> Seq(Token)]
  /\ \A c \in Conn : \A t \in TokensOf(c) : owner[t] = c
  /\ \A c \in Conn : \A i, j \in DOMAIN tokens[c] : tokens[c][i] = tokens[c][j] => i = j

(* What was erased had been registered, and a result that was stored is    *)
(* there unless it was erased.                                             *)
GoneForGood ==
  /\ disposed \subseteq Token
  /\ \A t \in disposed : owner[t] # Null
  /\ \A t \in Token : query[t] \notin Unstored /\ ~ready[t] => t \in disposed

LInv == VectorsAreOwned /\ GoneForGood

USE NullIsNothing DEF Outcome, InGet, Ended

LEMMA InitLInv == Init => LInv
BY DEF Init, LInv, VectorsAreOwned, TokensOf, GoneForGood, Unstored

(* Erasing a token from a vector leaves the others, in their order.        *)
LEMMA WithoutIsShorter ==
  ASSUME NEW s \in Seq(Token), \A i, j \in DOMAIN s : s[i] = s[j] => i = j, NEW t \in Token
  PROVE  /\ Without(s, t) \in Seq(Token)
         /\ \A i \in DOMAIN Without(s, t) : \E k \in DOMAIN s : Without(s, t)[i] = s[k]
         /\ \A i, j \in DOMAIN Without(s, t) : Without(s, t)[i] = Without(s, t)[j] => i = j
<1>1. CASE \E k \in DOMAIN s : s[k] = t
  <2> DEFINE w == [i \in 1 .. Len(s) - 1 |->
                    IF \E k \in 1 .. i : s[k] = t THEN s[i + 1] ELSE s[i]]
  <2>1. Without(s, t) = w
    BY <1>1 DEF Without
  <2>2. Len(s) \in Nat \ {0} /\ DOMAIN s = 1 .. Len(s) /\ DOMAIN w = 1 .. Len(s) - 1
    BY <1>1
  <2>3. \A i \in DOMAIN w : w[i] \in Token /\ \E k \in DOMAIN s : w[i] = s[k]
    BY <2>2
  <2>4. w \in Seq(Token)
    BY <2>2, <2>3
  <2>5. ASSUME NEW i \in DOMAIN w, NEW j \in DOMAIN w, i < j PROVE w[i] # w[j]
    <3>1. CASE \E k \in 1 .. i : s[k] = t
      <4>1. \E k \in 1 .. j : s[k] = t
        BY <2>5, <2>2, <3>1
      <4>2. w[i] = s[i + 1] /\ w[j] = s[j + 1]
        BY <3>1, <4>1
      <4>3. QED
        BY <2>2, <2>5, <4>2
    <3>2. CASE ~\E k \in 1 .. i : s[k] = t
      <4>1. w[i] = s[i] /\ w[j] \in {s[j], s[j + 1]}
        BY <3>2
      <4>2. QED
        BY <2>2, <2>5, <4>1
    <3>3. QED
      BY <3>1, <3>2
  <2>6. \A i, j \in DOMAIN w : w[i] = w[j] => i = j
    BY <2>2, <2>5
  <2> HIDE DEF w
  <2>7. QED
    BY <2>1, <2>3, <2>4, <2>6
<1>2. CASE ~\E k \in DOMAIN s : s[k] = t
  BY <1>2 DEF Without
<1>3. QED
  BY <1>1, <1>2

(* A step that leaves the vectors alone.                                   *)
LEMMA VectorsUntouched ==
  ASSUME VectorsAreOwned, UNCHANGED <<tokens, owner>>
  PROVE  VectorsAreOwned'
BY DEF VectorsAreOwned, TokensOf

(* free_result for tokens that were registered.                            *)
LEMMA FreeKeepsGone ==
  ASSUME IInv, GoneForGood, NEW F, F \subseteq Token, free_results(F), UNCHANGED <<query, owner>>,
         \A t \in F : owner[t] # Null
  PROVE  GoneForGood'
<1>1. /\ disposed' = disposed \cup F
      /\ ready' = [t \in Token |-> ready[t] /\ t \notin F]
  BY DEF free_results
<1>2. QED
  BY <1>1 DEF GoneForGood

(* A step after which no other query has stored its result.                *)
LEMMA GoneUntouched ==
  ASSUME GoneForGood, disposed' = disposed,
         \A t \in Token : owner'[t] = Null => owner[t] = Null,
         \A t \in Token : \/ query'[t] \in Unstored
                          \/ ready'[t]
                          \/ query[t] \notin Unstored /\ ready'[t] = ready[t]
  PROVE  GoneForGood'
BY DEF GoneForGood, Unstored

(* remove_all_connection_tokens meets tokens of its connection only.       *)
LEMMA VisitedAreOwned ==
  ASSUME VectorsAreOwned, NEW c \in Conn, NEW S
  PROVE  \A t \in Visited(tokens[c], S) : t \in Token /\ owner[t] = c
<1>1. tokens[c] \in Seq(Token)
  BY DEF VectorsAreOwned
<1>2. Visited(tokens[c], S) \subseteq {tokens[c][k] : k \in 1 .. Len(tokens[c])}
  BY DEF Visited
<1>3. DOMAIN tokens[c] = 1 .. Len(tokens[c])
  BY <1>1
<1>4. QED
  BY <1>1, <1>2, <1>3 DEF VectorsAreOwned, TokensOf

LEMMA NextKeepsLInv == IInv /\ RInv /\ LInv /\ [Next]_vars => LInv'
<1> USE DEF Takes, Reply, About, resultSets, handlers, threads, ghosts
<1> SUFFICES ASSUME IInv, RInv, LInv, [Next]_vars PROVE LInv'
  OBVIOUS
<1>a. VectorsAreOwned /\ GoneForGood
  BY DEF LInv
<1>b. /\ ready \in [Token -> BOOLEAN] /\ owner \in [Token -> Conn \cup {Null}]
      /\ query \in [Token -> {"none", "running", "checking", "storing", "notifying"} \cup Ended]
  BY DEF IInv, Types
<1>1. ASSUME UNCHANGED <<tokens, owner, disposed, ready, query>> PROVE LInv'
  BY <1>1, <1>a, VectorsUntouched DEF LInv, GoneForGood
<1>2. ASSUME NEW p \in Handler, NEW c \in Conn, NEW t \in Token, ExecuteRegister(p, c, t) PROVE LInv'
  <2>1. /\ tokens' = [tokens EXCEPT ![c] = Append(@, t)] /\ owner' = [owner EXCEPT ![t] = c]
        /\ owner[t] = Null /\ UNCHANGED <<query, ready, disposed, rules>>
    BY <1>2 DEF ExecuteRegister
  <2>2. \A d \in Conn : t \notin TokensOf(d)
    BY <1>a, <2>1 DEF VectorsAreOwned
  <2>3. /\ tokens' \in [Conn -> Seq(Token)]
        /\ \A d \in Conn \ {c} : tokens'[d] = tokens[d]
        /\ tokens'[c] = Append(tokens[c], t)
    BY <1>a, <2>1 DEF VectorsAreOwned
  <2>4. tokens[c] \in Seq(Token) /\ tokens'[c] \in Seq(Token)
    BY <1>a, <2>3 DEF VectorsAreOwned
  <2>5. /\ \A i \in DOMAIN tokens[c] : tokens'[c][i] = tokens[c][i]
        /\ DOMAIN tokens'[c] = 1 .. Len(tokens[c]) + 1 /\ tokens'[c][Len(tokens[c]) + 1] = t
        /\ DOMAIN tokens[c] = 1 .. Len(tokens[c]) /\ Len(tokens[c]) \in Nat
    BY <2>3, <2>4
  <2>6. \A d \in Conn : \A u \in TokensOf(d)' : owner'[u] = d
    <3>1. ASSUME NEW d \in Conn, NEW i \in DOMAIN tokens'[d] PROVE owner'[tokens'[d][i]] = d
      <4>1. CASE d = c /\ i = Len(tokens[c]) + 1
        BY <1>b, <2>1, <2>5, <4>1
      <4>2. CASE d = c /\ i # Len(tokens[c]) + 1
        <5>1. i \in DOMAIN tokens[c] /\ tokens'[d][i] = tokens[c][i]
          BY <2>5, <3>1, <4>2
        <5>2. tokens[c][i] \in Token \ {t} /\ owner[tokens[c][i]] = c
          <6>1. tokens[c][i] \in TokensOf(c) /\ tokens[c][i] \in Token
            BY <2>4, <5>1 DEF TokensOf
          <6>2. QED
            BY <1>a, <2>2, <6>1 DEF VectorsAreOwned
        <5>3. QED
          BY <1>b, <2>1, <4>2, <5>1, <5>2
      <4>3. CASE d # c
        <5>1. i \in DOMAIN tokens[d] /\ tokens'[d][i] = tokens[d][i]
          BY <2>3, <3>1, <4>3
        <5>2. tokens[d][i] \in Token \ {t} /\ owner[tokens[d][i]] = d
          BY <1>a, <2>2, <5>1 DEF VectorsAreOwned, TokensOf
        <5>3. QED
          BY <1>b, <2>1, <5>1, <5>2
      <4>4. QED
        BY <4>1, <4>2, <4>3
    <3>2. QED
      BY <3>1 DEF TokensOf
  <2>7. \A d \in Conn : \A i, j \in DOMAIN tokens'[d] : tokens'[d][i] = tokens'[d][j] => i = j
    <3>1. ASSUME NEW i \in DOMAIN tokens'[c], NEW j \in DOMAIN tokens'[c],
                 tokens'[c][i] = tokens'[c][j]
          PROVE  i = j
      <4>1. \A k \in DOMAIN tokens[c] : tokens[c][k] # t
        BY <2>2 DEF TokensOf
      <4>2. \A k \in DOMAIN tokens'[c] : k \in DOMAIN tokens[c] \/ k = Len(tokens[c]) + 1
        BY <2>5
      <4>3. CASE i \in DOMAIN tokens[c] /\ j \in DOMAIN tokens[c]
        BY <1>a, <2>5, <3>1, <4>3 DEF VectorsAreOwned
      <4>4. CASE ~(i \in DOMAIN tokens[c] /\ j \in DOMAIN tokens[c])
        BY <2>5, <3>1, <4>1, <4>2, <4>4
      <4>5. QED
        BY <4>3, <4>4
    <3>2. ASSUME NEW d \in Conn \ {c}
          PROVE  \A i, j \in DOMAIN tokens'[d] : tokens'[d][i] = tokens'[d][j] => i = j
      BY <1>a, <2>3, <3>2 DEF VectorsAreOwned
    <3>3. QED
      BY <3>1, <3>2
  <2>8. GoneForGood'
    BY <1>a, <1>b, <2>1, GoneUntouched DEF Unstored
  <2>9. QED
    BY <2>3, <2>6, <2>7, <2>8 DEF LInv, VectorsAreOwned
<1>3. ASSUME NEW p \in Handler, ExecuteSpawn(p) PROVE LInv'
  <2>1. UNCHANGED <<tokens, owner, ready, disposed>>
    BY <1>3 DEF ExecuteSpawn
  <2>2. \A t \in Token : query'[t] \in Unstored \/ query'[t] = query[t]
    BY <1>3, <1>b DEF ExecuteSpawn, Unstored
  <2>3. GoneForGood'
    BY <1>a, <2>1, <2>2, GoneUntouched
  <2>4. QED
    BY <1>a, <2>1, <2>3, VectorsUntouched DEF LInv
<1>4. ASSUME NEW p \in Handler, NEW c \in Conn, NEW t \in Token, GetFindConnection(p, c, t) PROVE LInv'
  BY <1>1, <1>4 DEF GetFindConnection
<1>5. ASSUME NEW p \in Handler,
             GetFindToken(p) \/ GetLock(p) \/ SpuriousWakeup(p) \/ GetRespond(p) \/ GetFails(p)
      PROVE  LInv'
  <2>1. UNCHANGED <<tokens, owner, ready, disposed, query>>
    BY <1>5 DEF GetFindToken, GetLock, SpuriousWakeup, GetRespond, GetFails
  <2>2. QED
    BY <1>1, <2>1
<1>6. ASSUME NEW p \in Handler, NEW c \in Conn, NEW t \in Token, TryFree(p, c, t) PROVE LInv'
  <2>1. CASE LastReference(t)
    <3>1. /\ free_results({t}) /\ tokens' = [tokens EXCEPT ![c] = Without(@, t)]
          /\ UNCHANGED <<query, owner>> /\ owner[t] # Null
      BY <1>6, <2>1 DEF TryFree
    <3>2. VectorsAreOwned'
      <4> DEFINE s == tokens[c]
      <4>1. s \in Seq(Token) /\ \A i, j \in DOMAIN s : s[i] = s[j] => i = j
        BY <1>a DEF VectorsAreOwned
      <4>2. tokens'[c] = Without(s, t) /\ \A d \in Conn \ {c} : tokens'[d] = tokens[d]
        BY <1>a, <3>1 DEF VectorsAreOwned
      <4>3. tokens' \in [Conn -> Seq(Token)]
        BY <1>a, <3>1, <4>1, WithoutIsShorter DEF VectorsAreOwned
      <4>4. \A d \in Conn : \A u \in TokensOf(d)' : u \in TokensOf(d)
        BY <4>1, <4>2, WithoutIsShorter DEF TokensOf
      <4>5. \A d \in Conn : \A i, j \in DOMAIN tokens'[d] : tokens'[d][i] = tokens'[d][j] => i = j
        <5>1. \A i, j \in DOMAIN Without(s, t) : Without(s, t)[i] = Without(s, t)[j] => i = j
          BY <4>1, WithoutIsShorter
        <5>2. ASSUME NEW d \in Conn \ {c}
              PROVE  \A i, j \in DOMAIN tokens'[d] : tokens'[d][i] = tokens'[d][j] => i = j
          BY <1>a, <4>2, <5>2 DEF VectorsAreOwned
        <5>3. QED
          BY <4>2, <5>1, <5>2
      <4>6. QED
        BY <1>a, <3>1, <4>3, <4>4, <4>5 DEF VectorsAreOwned
    <3>4. GoneForGood'
      BY <1>a, <3>1, FreeKeepsGone
    <3>5. QED
      BY <3>2, <3>4 DEF LInv
  <2>2. CASE ~LastReference(t)
    BY <1>1, <1>6, <2>2 DEF TryFree
  <2>3. QED
    BY <2>1, <2>2
<1>7. ASSUME NEW p \in Handler, NEW c \in Conn, Close(p, c) PROVE LInv'
  <2> DEFINE F == Visited(tokens[c], Unreferenced) \cap Unreferenced
  <2>1. /\ free_results(F) /\ tokens' = [tokens EXCEPT ![c] = <<>>]
        /\ UNCHANGED <<query, owner>>
    BY <1>7 DEF Close
  <2>2. F \subseteq Token /\ \A t \in F : owner[t] = c
    BY <1>a, VisitedAreOwned DEF Unreferenced
  <2>3. VectorsAreOwned'
    BY <1>a, <2>1 DEF VectorsAreOwned, TokensOf
  <2> HIDE DEF F
  <2>5. GoneForGood'
    BY <1>a, <2>1, <2>2, FreeKeepsGone
  <2>6. QED
    BY <2>3, <2>5 DEF LInv
<1>8. ASSUME NEW t \in Token, QueryEnds(t) \/ UpdateCheck(t) \/ UpdateThrows(t) PROVE LInv'
  <2>1. UNCHANGED <<tokens, owner, ready, disposed>>
    BY <1>8 DEF QueryEnds, UpdateCheck, UpdateThrows
  <2>2. query' \in {query, [query EXCEPT ![t] = "checking"], [query EXCEPT ![t] = "storing"]}
    BY <1>8 DEF QueryEnds, UpdateCheck, UpdateThrows
  <2>3. \A u \in Token : query'[u] \in Unstored \/ query'[u] = query[u]
    BY <1>b, <2>2 DEF Unstored
  <2>4. GoneForGood'
    BY <1>a, <2>1, <2>3, GoneUntouched
  <2>5. QED
    BY <1>a, <2>1, <2>4, VectorsUntouched DEF LInv
<1>9. ASSUME NEW t \in Token, UpdateStore(t) PROVE LInv'
  <2>1. UNCHANGED <<tokens, owner, disposed>>
    BY <1>9 DEF UpdateStore
  <2>2. /\ \A u \in Token \ {t} : query'[u] = query[u] /\ ready'[u] = ready[u]
        /\ ready'[t]
    BY <1>9, <1>b DEF UpdateStore
  <2>3. GoneForGood'
    BY <1>a, <2>1, <2>2, GoneUntouched
  <2>4. QED
    BY <1>a, <2>1, <2>3, VectorsUntouched DEF LInv
<1>10. ASSUME NEW t \in Token, UpdateNotify(t) PROVE LInv'
  <2>1. UNCHANGED <<tokens, owner, ready, disposed>>
    BY <1>10 DEF UpdateNotify
  <2>2. /\ query[t] \notin Unstored
        /\ \A u \in Token \ {t} : query'[u] = query[u]
    BY <1>10, <1>b DEF UpdateNotify, Unstored
  <2>3. GoneForGood'
    BY <1>a, <2>1, <2>2, GoneUntouched
  <2>4. QED
    BY <1>a, <2>1, <2>3, VectorsUntouched DEF LInv
<1>11. CASE UNCHANGED vars
  BY <1>1, <1>11 DEF vars
<1>12. QED
  BY <1>2, <1>3, <1>4, <1>5, <1>6, <1>7, <1>8, <1>9, <1>10, <1>11 DEF Next

-----------------------------------------------------------------------------
(* The steps of the lifecycle.                                             *)

(* Nothing happens to the result of u.                                     *)
Same(u) == Stage(u)' = Stage(u) /\ Result(u)' = Result(u) /\ Holders(u)' = Holders(u)

LEMMA SameIsStutter ==
  ASSUME \A u \in Token : Same(u), rules' = rules
  PROVE  UNCHANGED Lifecycle!lifecycle
BY DEF Same, Lifecycle!lifecycle, Balanced

(* Something happens to the result of t only.                              *)
LEMMA SubmitStep ==
  ASSUME Balanced, Balanced', NEW t \in Token, \A u \in Token \ {t} : Same(u),
         Stage(t) = "none", Stage(t)' = "pending",
         Result(t)' = Result(t), Holders(t)' = Holders(t)
  PROVE  Lifecycle!Next
<1>1. Lifecycle!Submit(t)
  BY DEF Same, Lifecycle!Submit
<1>2. QED
  BY <1>1 DEF Lifecycle!Next

LEMMA FinishStep ==
  ASSUME Balanced, Balanced', NEW t \in Token, \A u \in Token \ {t} : Same(u),
         Stage(t) \in {"pending", "dropped"}, Stage(t)' = "ready",
         Result(t)' \in {"frame", "error"}, Holders(t)' = Holders(t)
  PROVE  Lifecycle!Next
<1>1. Lifecycle!Finish(t)
  BY DEF Same, Lifecycle!Finish
<1>2. QED
  BY <1>1 DEF Lifecycle!Next

LEMMA HandStep ==
  ASSUME Balanced, Balanced', NEW t \in Token, \A u \in Token \ {t} : Same(u),
         Stage(t) = "ready", Stage(t)' = "ready",
         Result(t)' = Result(t), Holders(t)' = Holders(t) + 1
  PROVE  Lifecycle!Next
<1>1. Lifecycle!Hand(t)
  BY DEF Same, Lifecycle!Hand
<1>2. QED
  BY <1>1 DEF Lifecycle!Next

LEMMA GiveBackStep ==
  ASSUME Balanced, Balanced', NEW t \in Token, \A u \in Token \ {t} : Same(u),
         Stage(t) = "ready", Stage(t)' = "ready", Holders(t) > 1,
         Result(t)' = Result(t), Holders(t)' = Holders(t) - 1
  PROVE  Lifecycle!Next
<1>1. Lifecycle!GiveBack(t)
  BY DEF Same, Lifecycle!GiveBack
<1>2. QED
  BY <1>1 DEF Lifecycle!Next

LEMMA GiveBackLastStep ==
  ASSUME Balanced, Balanced', NEW t \in Token, \A u \in Token \ {t} : Same(u),
         Stage(t) = "ready", Stage(t)' = "gone", Holders(t) = 1,
         Result(t)' = "none", Holders(t)' = 0
  PROVE  Lifecycle!Next
<1>1. Lifecycle!GiveBackLast(t)
  BY DEF Same, Lifecycle!GiveBackLast
<1>2. QED
  BY <1>1 DEF Lifecycle!Next

LEMMA DiscardStep ==
  ASSUME Balanced, Balanced', NEW S \in SUBSET Token,
         \A u \in Token \ S : Same(u),
         \A u \in S : /\ Stage(u) \in {"pending", "ready"}
                      /\ Stage(u)' = IF Stage(u) = "ready" THEN "gone" ELSE "dropped"
                      /\ Holders(u) = 0 /\ Holders(u)' = 0 /\ Result(u)' = "none"
  PROVE  Lifecycle!Next
<1>1. Lifecycle!Discard(S)
  BY DEF Same, Lifecycle!Discard
<1>2. QED
  BY <1>1 DEF Lifecycle!Next

LEMMA MirrorsTheEntry ==
  ASSUME NEW u \in Token, rules' = rules,
         (owner'[u] = Null) = (owner[u] = Null), (u \in disposed') = (u \in disposed),
         ready'[u] = ready[u], outcome'[u] = outcome[u],
         (query'[u] \in Unstored) = (query[u] \in Unstored),
         Kept(u)' = Kept(u), Sending(u)' = Sending(u)
  PROVE  Same(u)
BY DEF Same, Stage, Result, Holders, Balanced, Unstored

LEMMA ReadyStage ==
  ASSUME IInv, LInv, Balanced, NEW t \in Token, ready[t]
  PROVE  Stage(t) = "ready" /\ owner[t] # Null /\ query[t] \notin Unstored
BY DEF Stage, IInv, SpawnedOnce, EntriesAreOutcomes, Stored, Unstored

LEMMA RulesStay == [Next]_vars => rules' = rules
BY DEF Next, vars, ghosts, ExecuteRegister, ExecuteSpawn, GetFindConnection,
       GetFindToken, GetLock, SpuriousWakeup, GetRespond, GetFails, TryFree, Close, QueryEnds,
       UpdateCheck, UpdateThrows, UpdateStore, UpdateNotify

(* Every step of balanced clients is a step of the lifecycle of the result *)
(* it is about, or none.                                                   *)
LEMMA StepImplements ==
  ASSUME IInv, RInv, LInv, Next, Balanced
  PROVE  Lifecycle!Next \/ UNCHANGED Lifecycle!lifecycle
<1> USE DEF Takes, Reply, About, resultSets, handlers, threads, ghosts
<1>a. /\ pc \in [Handler -> {"idle", "spawn"} \cup InGet]
      /\ job \in [Handler -> (Conn \cup {Null}) \X (Token \cup {Null})]
      /\ ready \in [Token -> BOOLEAN] /\ owner \in [Token -> Conn \cup {Null}]
      /\ outcome \in [Token -> Outcome] /\ BusyHasToken
      /\ held \in [Token -> Nat] /\ failed \in [Token -> Nat] /\ disposed \subseteq Token
      /\ query \in [Token -> {"none", "running", "checking", "storing", "notifying"} \cup Ended]
  BY DEF IInv, Types, RInv, Counts, LInv, GoneForGood
<1>b. rules' = rules /\ Balanced'
  BY RulesStay DEF Balanced
<1> DEFINE Implemented == Lifecycle!Next \/ UNCHANGED Lifecycle!lifecycle
<1>d. \A u \in Token : Kept(u) \in Nat
  BY <1>a DEF Kept
<1>e. ASSUME UNCHANGED <<held, failed>> PROVE \A u \in Token : Kept(u)' = Kept(u)
  BY <1>e DEF Kept
<1>c. ASSUME UNCHANGED <<owner, disposed, ready, outcome, held, failed>>,
             \A u \in Token : (query'[u] \in Unstored) = (query[u] \in Unstored),
             \A u \in Token : Sending(u)' = Sending(u)
      PROVE  Implemented
  BY <1>b, <1>c, <1>e, MirrorsTheEntry, SameIsStutter
<1>2. ASSUME NEW p \in Handler, NEW c \in Conn, NEW t \in Token, ExecuteRegister(p, c, t)
      PROVE  Implemented
  <2>1. /\ owner[t] = Null /\ owner' = [owner EXCEPT ![t] = c]
        /\ UNCHANGED <<disposed, ready, outcome, held, failed, query>>
    BY <1>2 DEF ExecuteRegister
  <2>2. \A u \in Token : Sending(u)' = Sending(u)
    BY <1>2, <1>a DEF ExecuteRegister, Sending, tokenOf
  <2>3. \A u \in Token \ {t} : Same(u)
    BY <1>a, <1>b, <1>e, <2>1, <2>2, MirrorsTheEntry
  <2>4. query[t] = "none" /\ ~ready[t] /\ t \notin disposed
    BY <2>1 DEF IInv, SpawnedOnce, EntriesAreOutcomes, Stored, LInv, GoneForGood
  <2>5. Stage(t) = "none" /\ Stage(t)' = "pending"
    BY <1>a, <1>b, <2>1, <2>4 DEF Stage
  <2>6. Result(t)' = Result(t) /\ Holders(t)' = Holders(t)
    BY <1>b, <1>e, <2>1, <2>2 DEF Result, Holders
  <2>7. QED
    BY <1>b, <2>3, <2>5, <2>6, SubmitStep
<1>3. ASSUME NEW p \in Handler, ExecuteSpawn(p) PROVE Implemented
  <2>1. /\ query[tokenOf(p)] = "none"
        /\ \E q \in {"running", "never"} : query' = [query EXCEPT ![tokenOf(p)] = q]
        /\ UNCHANGED <<owner, disposed, ready, outcome, held, failed>>
    BY <1>3 DEF ExecuteSpawn, IInv, SpawnedOnce
  <2>2. \A u \in Token : (query'[u] \in Unstored) = (query[u] \in Unstored)
    BY <1>a, <2>1 DEF Unstored
  <2>3. \A u \in Token : Sending(u)' = Sending(u)
    BY <1>3, <1>a DEF ExecuteSpawn, Sending, tokenOf
  <2>4. QED
    BY <1>c, <2>1, <2>2, <2>3
<1>4. ASSUME NEW p \in Handler, NEW c \in Conn, NEW t \in Token, GetFindConnection(p, c, t)
      PROVE  Implemented
  <2>1. UNCHANGED <<owner, disposed, ready, outcome, held, failed, query>>
    BY <1>4 DEF GetFindConnection
  <2>2. \A u \in Token : Sending(u)' = Sending(u)
    BY <1>4, <1>a DEF GetFindConnection, Sending, tokenOf
  <2>3. QED
    BY <1>c, <2>1, <2>2
<1>5. ASSUME NEW p \in Handler, GetFindToken(p) \/ SpuriousWakeup(p) PROVE Implemented
  <2>1. UNCHANGED <<owner, disposed, ready, outcome, held, failed, query>>
    BY <1>5 DEF GetFindToken, SpuriousWakeup
  <2>2. \A u \in Token : Sending(u)' = Sending(u)
    BY <1>5, <1>a DEF GetFindToken, SpuriousWakeup, Sending, tokenOf
  <2>3. QED
    BY <2>1, <2>2, <1>c
<1>6. ASSUME NEW p \in Handler, GetLock(p) PROVE Implemented
  <2>1. PICK t \in Token : t = tokenOf(p) /\ pc[p] = "lock"
    BY <1>6, <1>a DEF GetLock, BusyHasToken
  <2>2. UNCHANGED <<owner, disposed, ready, outcome, held, failed, query, job>>
    BY <1>6 DEF GetLock
  <2>3. CASE ready[t]
    <3>1. pc' = [pc EXCEPT ![p] = "send"]
      BY <1>6, <2>1, <2>3 DEF GetLock, Predicate
    <3>2. Sending(t)' = Sending(t) \cup {p} /\ p \notin Sending(t)
      BY <1>a, <2>1, <2>2, <3>1 DEF Sending, tokenOf
    <3>3. \A u \in Token \ {t} : Sending(u)' = Sending(u)
      BY <1>a, <2>1, <2>2, <3>1 DEF Sending, tokenOf
    <3>4. \A u \in Token \ {t} : Same(u)
      BY <1>b, <1>e, <2>2, <3>3, MirrorsTheEntry
    <3>5. Cardinality(Sending(t)') = Cardinality(Sending(t)) + 1
      BY <3>2, Requests, FS_AddElement
    <3>6. Holders(t)' = Holders(t) + 1
      BY <1>d, <1>e, <2>2, <3>5, Requests DEF Holders
    <3>7. Stage(t) = "ready" /\ Stage(t)' = "ready" /\ Result(t)' = Result(t)
      BY <1>b, <2>2, <2>3, ReadyStage DEF Stage, Result
    <3>8. QED
      BY <1>b, <3>4, <3>6, <3>7, HandStep
  <2>4. CASE ~ready[t]
    <3>1. \A u \in Token : Sending(u)' = Sending(u)
      BY <1>6, <1>a, <2>1, <2>4 DEF GetLock, Predicate, Sending, tokenOf
    <3>2. QED
      BY <2>2, <3>1, <1>c
  <2>5. QED
    BY <2>3, <2>4
<1>7. ASSUME NEW p \in Handler, GetRespond(p) \/ GetFails(p) PROVE Implemented
  <2>1. PICK t \in Token : t = tokenOf(p) /\ p \in Sending(t)
    BY <1>7, <1>a DEF GetRespond, GetFails, BusyHasToken, Sending
  <2>2. /\ \/ held' = [held EXCEPT ![t] = @ + 1] /\ UNCHANGED failed
           \/ failed' = [failed EXCEPT ![t] = @ + 1] /\ UNCHANGED held
        /\ UNCHANGED <<owner, disposed, ready, outcome, query>>
    BY <1>7, <2>1 DEF GetRespond, GetFails
  <2>3. Sending(t)' = Sending(t) \ {p}
    BY <1>7, <1>a, <2>1 DEF GetRespond, GetFails, Sending, tokenOf
  <2>4. \A u \in Token \ {t} : Sending(u)' = Sending(u)
    BY <1>7, <1>a, <2>1 DEF GetRespond, GetFails, Sending, tokenOf
  <2>a. Kept(t)' = Kept(t) + 1 /\ \A u \in Token \ {t} : Kept(u)' = Kept(u)
    <3>1. held \in [Token -> Nat] /\ failed \in [Token -> Nat]
      BY <1>a
    <3>2. CASE held' = [held EXCEPT ![t] = @ + 1] /\ UNCHANGED failed
      BY ONLY t \in Token, <3>1, <3>2 DEF Kept
    <3>3. CASE failed' = [failed EXCEPT ![t] = @ + 1] /\ UNCHANGED held
      BY ONLY t \in Token, <3>1, <3>3 DEF Kept
    <3>4. QED
      BY <2>2, <3>2, <3>3
  <2>5. \A u \in Token \ {t} : Same(u)
    BY <1>b, <2>2, <2>4, <2>a, MirrorsTheEntry
  <2>6. Cardinality(Sending(t)') = Cardinality(Sending(t)) - 1
    <3>1. IsFiniteSet(Sending(t)) /\ p \in Sending(t)
      BY <2>1, Requests
    <3> HIDE DEF Sending
    <3>2. Cardinality(Sending(t) \ {p}) = Cardinality(Sending(t)) - 1
      BY <3>1, FS_RemoveElement
    <3>3. QED
      BY <2>3, <3>2
  <2>7. Holders(t)' = Holders(t)
    BY <1>d, <2>1, <2>6, <2>a, Requests DEF Holders
  <2>8. Same(t)
    BY <1>b, <2>2, <2>7 DEF Same, Stage, Result
  <2>9. QED
    BY <1>b, <2>5, <2>8, SameIsStutter
<1>8. ASSUME NEW p \in Handler, NEW c \in Conn, NEW t \in Token, TryFree(p, c, t)
      PROVE  Implemented
  <2>1. /\ held[t] > 0 /\ held' = [held EXCEPT ![t] = @ - 1]
        /\ UNCHANGED <<owner, failed, query>>
    BY <1>8 DEF TryFree, Balanced
  <2>2. \A u \in Token : Sending(u)' = Sending(u)
    BY <1>8 DEF TryFree, Sending, tokenOf
  <2>a. /\ Kept(t)' = Kept(t) - 1 /\ Kept(t) > 0
        /\ \A u \in Token \ {t} : Kept(u)' = Kept(u)
    BY <1>a, <2>1 DEF Kept
  <2>3. ready[t] /\ ref[t] = Holders(t)
    BY <2>a DEF RInv, HeldIsReady, RefExact
  <2>4. Holders(t)' = Holders(t) - 1 /\ Holders(t) \in Nat \ {0}
    BY <1>d, <2>2, <2>a, Requests DEF Holders
  <2>5. CASE LastReference(t)
    <3>1. /\ disposed' = disposed \cup {t}
          /\ ready' = [u \in Token |-> ready[u] /\ u \notin {t}]
          /\ outcome' = [u \in Token |-> IF u \in {t} THEN "none" ELSE outcome[u]]
      BY <1>8, <2>5 DEF TryFree, free_results
    <3>2. \A u \in Token \ {t} : Same(u)
      BY <1>a, <1>b, <2>1, <2>2, <2>a, <3>1, MirrorsTheEntry
    <3>3. Holders(t) = 1 /\ Holders(t)' = 0
      BY <2>3, <2>4, <2>5 DEF LastReference
    <3>4. Stage(t) = "ready" /\ owner[t] # Null /\ query[t] \notin Unstored
      BY <2>3, ReadyStage
    <3>5. Stage(t)' = "gone" /\ Result(t)' = "none"
      BY <1>b, <2>1, <3>1, <3>4 DEF Stage, Result
    <3>6. QED
      BY <1>b, <3>2, <3>3, <3>4, <3>5, GiveBackLastStep
  <2>6. CASE ~LastReference(t)
    <3>1. UNCHANGED <<disposed, ready, outcome>>
      BY <1>8, <2>6 DEF TryFree
    <3>2. \A u \in Token \ {t} : Same(u)
      BY <1>a, <1>b, <2>1, <2>2, <2>a, <3>1, MirrorsTheEntry
    <3>3. Holders(t) > 1
      BY <2>3, <2>4, <2>6 DEF LastReference
    <3>4. Stage(t) = "ready" /\ Stage(t)' = "ready" /\ Result(t)' = Result(t)
      BY <1>b, <2>1, <2>3, <3>1, ReadyStage DEF Stage, Result
    <3>5. QED
      BY <1>b, <2>4, <3>2, <3>3, <3>4, GiveBackStep
  <2>7. QED
    BY <2>5, <2>6
<1>9. ASSUME NEW p \in Handler, NEW c \in Conn, Close(p, c) PROVE Implemented
  <2> DEFINE F == Visited(tokens[c], Unreferenced) \cap Unreferenced
             S == {u \in F : ready[u] \/ u \notin disposed}
  <2>1. /\ free_results(F)
        /\ UNCHANGED <<pc, job, owner, held, failed, query>>
    BY <1>9 DEF Close
  <2>2. F \subseteq Token /\ \A t \in F : owner[t] # Null /\ ref[t] = 0
    BY VisitedAreOwned DEF LInv, Unreferenced
  <2> HIDE DEF F
  <2>3. /\ disposed' = disposed \cup F
        /\ ready' = [u \in Token |-> ready[u] /\ u \notin F]
        /\ outcome' = [u \in Token |-> IF u \in F THEN "none" ELSE outcome[u]]
    BY <2>1 DEF free_results
  <2>4. \A u \in Token : Sending(u)' = Sending(u)
    BY <2>1 DEF Sending, tokenOf
  <2>5. ASSUME NEW u \in Token \ S PROVE Same(u)
    <3>1. CASE u \notin F
      BY <1>a, <1>b, <1>e, <2>1, <2>3, <2>4, <3>1, MirrorsTheEntry
    <3>2. CASE u \in F /\ u \in disposed /\ ~ready[u]
      <4>1. outcome[u] = "none"
        BY <3>2 DEF IInv, EntriesAreOutcomes
      <4>2. QED
        BY <1>a, <1>b, <1>e, <2>1, <2>3, <2>4, <3>2, <4>1, MirrorsTheEntry
    <3>3. QED
      BY <3>1, <3>2
  <2>6. ASSUME NEW u \in S
        PROVE  /\ Stage(u) \in {"pending", "ready"}
               /\ Stage(u)' = IF Stage(u) = "ready" THEN "gone" ELSE "dropped"
               /\ Holders(u) = 0 /\ Holders(u)' = 0 /\ Result(u)' = "none"
    <3>1. u \in Token /\ u \in F /\ owner[u] # Null /\ ref[u] = 0
      BY <2>2
    <3>2. Holders(u) = 0
      BY <1>d, <3>1, Requests, CountFits DEF RInv, HeldIsReady, RefExact, Holders
    <3>3. Holders(u)' = 0
      BY <1>e, <2>1, <2>4, <3>1, <3>2 DEF Holders
    <3>4. ready[u] => query[u] \notin Unstored
      BY <3>1 DEF IInv, EntriesAreOutcomes, Stored, Unstored
    <3>5. ~ready[u] => query[u] \in Unstored /\ u \notin disposed
      BY <2>6, <3>1 DEF LInv, GoneForGood
    <3>6. QED
      BY <1>b, <2>1, <2>3, <3>1, <3>2, <3>3, <3>4, <3>5 DEF Stage, Result
  <2>7. S \in SUBSET Token
    BY <2>2
  <2> HIDE DEF S
  <2>8. QED
    BY <1>b, <2>5, <2>6, <2>7, DiscardStep
<1>10. ASSUME NEW t \in Token, QueryEnds(t) \/ UpdateCheck(t) \/ UpdateThrows(t)
       PROVE  Implemented
  <2>1. /\ UNCHANGED <<owner, disposed, ready, outcome, held, failed, pc, job>>
        /\ query[t] \in {"running", "checking", "storing"}
        /\ query' \in {query, [query EXCEPT ![t] = "checking"], [query EXCEPT ![t] = "storing"]}
    BY <1>10 DEF QueryEnds, UpdateCheck, UpdateThrows
  <2>2. \A u \in Token : (query'[u] \in Unstored) = (query[u] \in Unstored)
    BY <1>a, <2>1 DEF Unstored
  <2>3. \A u \in Token : Sending(u)' = Sending(u)
    BY <2>1 DEF Sending, tokenOf
  <2>4. QED
    BY <1>c, <2>1, <2>2, <2>3
<1>11. ASSUME NEW t \in Token, UpdateStore(t) PROVE Implemented
  <2>1. /\ query[t] = "storing" /\ ready' = [ready EXCEPT ![t] = TRUE]
        /\ outcome' = [outcome EXCEPT ![t] = product[t]]
        /\ query' = [query EXCEPT ![t] = "notifying"]
        /\ UNCHANGED <<owner, disposed, held, failed, pc, job>>
    BY <1>11 DEF UpdateStore
  <2>2. \A u \in Token : Sending(u)' = Sending(u)
    BY <2>1 DEF Sending, tokenOf
  <2>3. \A u \in Token \ {t} : Same(u)
    BY <1>a, <1>b, <1>e, <2>1, <2>2, MirrorsTheEntry
  <2>4. owner[t] # Null /\ ~ready[t] /\ product[t] \in {"frame", "error"}
    BY <2>1 DEF IInv, Types, SpawnedOnce, EntriesAreOutcomes, Stored
  <2>5. Stage(t) \in {"pending", "dropped"} /\ Stage(t)' = "ready"
    BY <1>a, <1>b, <2>1, <2>4 DEF Stage, Unstored
  <2>6. Result(t)' \in {"frame", "error"}
    BY <1>a, <1>b, <2>1, <2>4 DEF Result
  <2>7. Holders(t)' = Holders(t)
    BY <1>e, <2>1, <2>2 DEF Holders
  <2>8. QED
    BY <1>b, <2>3, <2>5, <2>6, <2>7, FinishStep
<1>12. ASSUME NEW t \in Token, UpdateNotify(t) PROVE Implemented
  <2>1. \A u \in Token : Sending(u)' = Sending(u)
    BY <1>12, <1>a DEF UpdateNotify, Notified, Sending, tokenOf
  <2>2. \A u \in Token : (query'[u] \in Unstored) = (query[u] \in Unstored)
    BY <1>12, <1>a DEF UpdateNotify, Unstored
  <2>3. QED
    BY <1>12, <2>1, <2>2, <1>c DEF UpdateNotify
<1>13. QED
  BY <1>2, <1>3, <1>4, <1>5, <1>6, <1>7, <1>8, <1>9, <1>10, <1>11, <1>12 DEF Next

(* result_set_repository implements ResultLifecycle, for any number of     *)
(* connections, tokens and handlers: a result is stored once, does not     *)
(* change, goes when the last holder gives it back or its connection is    *)
(* closed, and does not come back; one whose connection was closed before  *)
(* is stored all the same, or never.                                       *)
THEOREM ImplementsResultLifecycle == Spec => LifecycleHolds
<1>1. Init => Lifecycle!Init
  <2>1. ASSUME Init, NEW t \in Token
        PROVE  /\ Stage(t) = "none" /\ Result(t) = "none"
               /\ (IF Balanced THEN Holders(t) ELSE 0) = 0
    <3>1. Sending(t) = {}
      BY <2>1 DEF Init, Sending
    <3>2. Cardinality(Sending(t)) = 0
      BY <3>1, FS_EmptySet
    <3>3. QED
      BY <2>1, <3>2 DEF Init, Stage, Result, Holders, Kept
  <2>2. QED
    BY <2>1 DEF Lifecycle!Init
<1>2. IInv /\ RInv /\ LInv /\ [Next]_vars => [Lifecycle!Next]_(Lifecycle!lifecycle)
  <2> SUFFICES ASSUME IInv, RInv, LInv, [Next]_vars
               PROVE  Lifecycle!Next \/ UNCHANGED Lifecycle!lifecycle
    OBVIOUS
  <2>1. CASE ~Balanced
    <3>1. rules' = rules
      BY RulesStay
    <3>2. \A u \in Token : Stage(u)' = Stage(u) /\ Result(u)' = Result(u)
      BY <2>1, <3>1 DEF Stage, Result, Balanced
    <3>3. QED
      BY <2>1, <3>1, <3>2 DEF Lifecycle!lifecycle, Balanced
  <2>2. CASE UNCHANGED vars
    <3>1. \A u \in Token : Same(u)
      BY <2>2 DEF vars, resultSets, handlers, threads, ghosts, Same, Stage, Result, Holders,
                  Kept, Balanced, Sending, Unstored, tokenOf
    <3>2. QED
      BY <2>2, <3>1, SameIsStutter DEF vars, ghosts
  <2>3. QED
    BY <2>1, <2>2, StepImplements
<1>3. QED
  BY <1>1, <1>2, Invariance, InitRInv, NextKeepsRInv, InitLInv, NextKeepsLInv, PTL
     DEF Spec, LifecycleHolds, Lifecycle!Spec

-----------------------------------------------------------------------------
(* The types of the remaining variables.                                   *)
OtherTypes ==
  /\ ref \in [Token -> 0 .. RefModulus - 1]
  /\ sessions \subseteq Conn
  /\ crashed \in BOOLEAN
  /\ abandoned \subseteq Token
  /\ rules \in Disciplines

LEMMA RefStaysInRange ==
  ASSUME NEW r \in 0 .. RefModulus - 1
  PROVE  Incremented(r) \in 0 .. RefModulus - 1 /\ Decremented(r) \in 0 .. RefModulus - 1
<1>1. RefModulus \in Nat \ {0}
  BY RefHoldsGets, BoundsArePositive
<1>2. QED
  BY <1>1 DEF Incremented, Decremented

LEMMA InitOtherTypes == Init => OtherTypes
<1>1. 0 \in 0 .. RefModulus - 1
  BY RefHoldsGets, BoundsArePositive
<1> SUFFICES ASSUME Init PROVE OtherTypes
  OBVIOUS
<1>3. ref = [t \in Token |-> 0] /\ sessions = {} /\ rules \in Disciplines
  BY DEF Init
<1>4. crashed \in BOOLEAN
  BY Zenon DEF Init
<1>5. abandoned = {}
  BY DEF Init
<1>6. QED
  BY <1>1, <1>3, <1>4, <1>5 DEF OtherTypes

LEMMA NextKeepsOtherTypes == IInv /\ OtherTypes /\ [Next]_vars => OtherTypes'
<1> USE DEF resultSets, handlers, threads, ghosts
<1> SUFFICES ASSUME IInv, OtherTypes, [Next]_vars PROVE OtherTypes'
  OBVIOUS
<1>a. 0 \in 0 .. RefModulus - 1
  BY RefHoldsGets, BoundsArePositive
<1>b. rules' = rules
  BY RulesStay
<1>1. sessions' \subseteq Conn
  <2>1. sessions' = sessions \/ \E c \in Conn : sessions' \in {sessions \cup {c}, sessions \ {c}}
    BY DEF Next, vars, ExecuteRegister, ExecuteSpawn, GetFindConnection,
           GetFindToken, GetLock, SpuriousWakeup, GetRespond, GetFails, TryFree, Close, QueryEnds,
           UpdateCheck, UpdateThrows, UpdateStore, UpdateNotify
  <2>2. QED
    BY <2>1 DEF OtherTypes
<1>2. crashed' \in BOOLEAN
  <2>1. crashed' = crashed \/ \E t \in Token : crashed' = (product[t] = "error")
    BY DEF Next, vars, ExecuteRegister, ExecuteSpawn, GetFindConnection,
           GetFindToken, GetLock, SpuriousWakeup, GetRespond, GetFails, TryFree, Close, QueryEnds,
           UpdateCheck, UpdateThrows, UpdateStore, UpdateNotify
  <2>2. QED
    BY <2>1 DEF OtherTypes
<1>3. ref' \in [Token -> 0 .. RefModulus - 1]
  <2>1. ASSUME NEW p \in Handler, GetLock(p) PROVE ref' \in [Token -> 0 .. RefModulus - 1]
    BY <2>1, RefStaysInRange DEF GetLock, OtherTypes
  <2>2. ASSUME NEW p \in Handler, NEW c \in Conn, NEW t \in Token, TryFree(p, c, t)
        PROVE  ref' \in [Token -> 0 .. RefModulus - 1]
    <3>1. \/ ref' = [u \in Token |-> IF u \in {t} THEN 0 ELSE ref[u]]
          \/ ref' = [ref EXCEPT ![t] = Decremented(@)]
      BY <2>2 DEF TryFree, free_results
    <3>2. QED
      BY <1>a, <3>1, RefStaysInRange DEF OtherTypes
  <2>3. ASSUME NEW p \in Handler, NEW c \in Conn, Close(p, c)
        PROVE  ref' \in [Token -> 0 .. RefModulus - 1]
    <3>1. PICK F : ref' = [u \in Token |-> IF u \in F THEN 0 ELSE ref[u]]
      BY <2>3 DEF Close, free_results
    <3>2. QED
      BY <1>a, <3>1 DEF OtherTypes
  <2>4. ASSUME NEW t \in Token, UpdateStore(t) PROVE ref' \in [Token -> 0 .. RefModulus - 1]
    BY <1>a, <2>4 DEF UpdateStore, OtherTypes
  <2>5. \/ ref' = ref
        \/ \E p \in Handler : GetLock(p)
        \/ \E p \in Handler, c \in Conn, t \in Token : TryFree(p, c, t)
        \/ \E p \in Handler, c \in Conn : Close(p, c)
        \/ \E t \in Token : UpdateStore(t)
    BY DEF Next, vars, ExecuteRegister, ExecuteSpawn, GetFindConnection,
           GetFindToken, SpuriousWakeup, GetRespond, GetFails, QueryEnds, UpdateCheck, UpdateThrows,
           UpdateNotify
  <2>6. QED
    BY <2>1, <2>2, <2>3, <2>4, <2>5 DEF OtherTypes
<1>4. abandoned' \subseteq Token
  <2>1. \/ abandoned' = abandoned
        \/ \E S \in SUBSET Token : abandoned' \in {abandoned \cup S, abandoned \ S}
    BY DEF Next, vars, ExecuteRegister, ExecuteSpawn, GetFindConnection,
           GetFindToken, GetLock, SpuriousWakeup, GetRespond, GetFails, TryFree, Close, QueryEnds,
           UpdateCheck, UpdateThrows, UpdateStore, UpdateNotify
  <2>2. QED
    BY <2>1 DEF OtherTypes
<1>5. QED
  BY <1>b, <1>1, <1>2, <1>3, <1>4 DEF OtherTypes

(* Type correctness of the repository, its threads and the history; among  *)
(* it, that ref_counter stays in the range of its type.                    *)
THEOREM RepositoryTypes == Spec => []TypeOK
<1>1. ASSUME IInv, RInv, LInv, OtherTypes PROVE TypeOK
  <2>1. \A t \in Token : held[t] \in 0 .. MaxGets /\ failed[t] \in 0 .. MaxGets
    <3>1. ASSUME NEW t \in Token PROVE held[t] \in 0 .. MaxGets /\ failed[t] \in 0 .. MaxGets
      <4>1. /\ held[t] \in Nat /\ failed[t] \in Nat
            /\ held[t] + failed[t] + Cardinality(Getting(t)) <= MaxGets
        BY <1>1 DEF RInv, Counts, Kept
      <4>2. Cardinality(Getting(t)) \in Nat /\ MaxGets \in Nat
        BY Requests, BoundsArePositive
      <4>3. QED
        BY <4>1, <4>2
    <3>2. QED
      BY <3>1
  <2>2. held \in [Token -> 0 .. MaxGets] /\ failed \in [Token -> 0 .. MaxGets]
    BY <1>1, <2>1 DEF RInv, Counts
  <2>3. QED
    BY <1>1, <2>2
       DEF IInv, Types, OtherTypes, LInv, VectorsAreOwned, GoneForGood, TypeOK
<1>2. QED
  BY <1>1, InitOtherTypes, NextKeepsOtherTypes, Invariance, InitRInv, NextKeepsRInv, InitLInv,
     NextKeepsLInv, PTL DEF Spec

-----------------------------------------------------------------------------
(* A query that has not stored its result has its entry, unless it was     *)
(* abandoned.                                                              *)
AInv ==
  /\ \A t \in Token :
       owner[t] # Null /\ query[t] \in Unstored /\ t \notin entries => t \in abandoned
  /\ AbortsIfAbandoned

LEMMA NextKeepsAInv == IInv /\ LInv /\ AInv /\ [Next]_vars => AInv'
<1> USE DEF Takes, Reply, About, resultSets, handlers, threads, ghosts
<1> SUFFICES ASSUME IInv, LInv, AInv, [Next]_vars PROVE AInv'
  OBVIOUS
<1>a. \A t \in Token :
        owner[t] # Null /\ query[t] \in Unstored /\ t \notin entries => t \in abandoned
  BY DEF AInv
<1>b. /\ owner \in [Token -> Conn \cup {Null}]
      /\ query \in [Token -> {"none", "running", "checking", "storing", "notifying"} \cup Ended]
      /\ product \in [Token -> Outcome]
  BY DEF IInv, Types
<1>c. ASSUME ~crashed,  ~crashed',
             \A t \in Token :
               owner'[t] # Null /\ query'[t] \in Unstored /\ t \notin entries' => t \in abandoned'
      PROVE  AInv'
  BY <1>c DEF AInv, AbortsIfAbandoned, Unstored
<1>1. ASSUME NEW p \in Handler, NEW c \in Conn, NEW t \in Token, ExecuteRegister(p, c, t) PROVE AInv'
  <2>1. /\ ~crashed /\ ~crashed' /\ UNCHANGED <<query, abandoned>>
        /\ entries' = entries \cup {t} /\ owner' = [owner EXCEPT ![t] = c]
    BY <1>1 DEF ExecuteRegister
  <2>2. QED
    BY <1>a, <1>b, <1>c, <2>1
<1>2. ASSUME NEW p \in Handler, ExecuteSpawn(p) PROVE AInv'
  <2>1. /\ query[tokenOf(p)] = "none" /\ ~crashed /\ UNCHANGED <<owner, entries, crashed, abandoned>>
        /\ \E s \in {"running", "never"} : query' = [query EXCEPT ![tokenOf(p)] = s]
    BY <1>2 DEF ExecuteSpawn, IInv, SpawnedOnce
  <2>2. \A t \in Token : query'[t] \in Unstored => query[t] \in Unstored
    BY <1>b, <2>1 DEF Unstored
  <2>3. QED
    BY <1>a, <1>c, <2>1, <2>2
<1>4. ASSUME NEW p \in Handler, GetLock(p) PROVE AInv'
  <2>1. ~crashed /\ UNCHANGED <<owner, query, crashed, abandoned>> /\ entries \subseteq entries'
    BY <1>4 DEF GetLock
  <2>2. QED
    BY <1>a, <1>c, <2>1
<1>5. ASSUME NEW p \in Handler, NEW c \in Conn, NEW t \in Token, TryFree(p, c, t) PROVE AInv'
  <2>1. /\ ~crashed /\ UNCHANGED <<owner, query, crashed>>
        /\ entries' = entries \ {t} \/ entries' = entries
        /\ abandoned' = abandoned \cup {u \in {t} : query[u] \in Unstored}
    BY <1>5 DEF TryFree, free_results
  <2>2. QED
    BY <1>a, <1>c, <2>1
<1>6. ASSUME NEW p \in Handler, NEW c \in Conn, Close(p, c) PROVE AInv'
  <2> DEFINE F == Visited(tokens[c], Unreferenced) \cap Unreferenced
  <2>1. /\ ~crashed /\ entries' = entries \ F /\ UNCHANGED <<query, owner, crashed>>
        /\ abandoned' = abandoned \cup {t \in Token : owner[t] = c /\ query[t] \in Unstored}
    BY <1>6 DEF Close, free_results
  <2>2. \A t \in F : t \in Token /\ owner[t] = c
    BY VisitedAreOwned DEF LInv
  <2> HIDE DEF F
  <2>3. QED
    BY <1>a, <1>c, <2>1, <2>2
<1>7. ASSUME NEW t \in Token, UpdateCheck(t) PROVE AInv'
  <2>1. query[t] = "checking" /\ owner[t] # Null /\ ~crashed /\ UNCHANGED <<owner, entries, abandoned>>
    BY <1>7 DEF UpdateCheck, IInv, SpawnedOnce
  <2>2. CASE t \in entries
    <3>1. query' = [query EXCEPT ![t] = "storing"] /\ UNCHANGED crashed
      BY <1>7, <2>2 DEF UpdateCheck
    <3>2. \A u \in Token : query'[u] \in Unstored => query[u] \in Unstored
      BY <1>b, <2>1, <3>1 DEF Unstored
    <3>3. QED
      BY <1>a, <1>c, <2>1, <3>1, <3>2
  <2>3. CASE t \notin entries
    <3>1. UNCHANGED query /\ product' = [product EXCEPT ![t] = "error"]
      BY <1>7, <2>3 DEF UpdateCheck
    <3>2. t \in abandoned /\ query[t] = "checking" /\ product'[t] = "error"
      BY <1>a, <1>b, <2>1, <2>3, <3>1 DEF Unstored
    <3>3. QED
      BY <1>a, <2>1, <3>1, <3>2 DEF AInv, AbortsIfAbandoned
  <2>4. QED
    BY <2>2, <2>3
<1>8. ASSUME NEW t \in Token, QueryEnds(t) \/ UpdateThrows(t) \/ UpdateNotify(t) PROVE AInv'
  <2>1. /\ query[t] \in {"running", "storing", "notifying"} /\ ~crashed
        /\ UNCHANGED <<owner, entries, crashed, abandoned>>
        /\ query' \in {[query EXCEPT ![t] = "checking"], [query EXCEPT ![t] = "done"]}
    BY <1>8 DEF QueryEnds, UpdateThrows, UpdateNotify
  <2>2. query[t] = "notifying" => query' = [query EXCEPT ![t] = "done"]
    BY <1>8 DEF QueryEnds, UpdateThrows, UpdateNotify
  <2>3. \A u \in Token : query'[u] \in Unstored => query[u] \in Unstored
    BY <1>b, <2>1, <2>2 DEF Unstored
  <2>4. QED
    BY <1>a, <1>c, <2>1, <2>3
<1>9. ASSUME NEW t \in Token, UpdateStore(t) PROVE AInv'
  <2>1. /\ query' = [query EXCEPT ![t] = "notifying"] /\ entries' = entries \cup {t}
        /\ abandoned' = abandoned \ {t} /\ ~crashed /\ UNCHANGED <<owner, crashed>>
    BY <1>9 DEF UpdateStore
  <2>2. \A u \in Token \ {t} : query'[u] = query[u]
    BY <1>b, <2>1
  <2>3. QED
    BY <1>a, <1>c, <2>1, <2>2
<1>10. ASSUME \/ UNCHANGED vars
              \/ \E p \in Handler, c \in Conn, t \in Token : GetFindConnection(p, c, t)
              \/ \E p \in Handler : \/ GetFindToken(p) \/ SpuriousWakeup(p)
                                     \/ GetRespond(p) \/ GetFails(p)
       PROVE  AInv'
  <2>1. UNCHANGED <<owner, query, crashed, entries, abandoned, product>>
    BY <1>10 DEF vars, GetFindConnection, GetFindToken, SpuriousWakeup, GetRespond, GetFails
  <2>2. QED
    BY <2>1 DEF AInv, AbortsIfAbandoned
<1>11. QED
  BY <1>1, <1>2, <1>4, <1>5, <1>6, <1>7, <1>8, <1>9, <1>10 DEF Next

(* Whatever rules the clients keep, and for any number of clients and      *)
(* threads: update_token throws out of the exception handler of a detached *)
(* thread, and the process ends, only when the connection of that query    *)
(* was closed, or its token freed, while the query ran.                    *)
THEOREM ProcessGoesOn == Spec => []AbortsIfAbandoned
<1>1. Init => AInv
  BY DEF Init, AInv, AbortsIfAbandoned
<1>2. AInv => AbortsIfAbandoned
  BY DEF AInv
<1>3. QED
  BY <1>1, <1>2, NextKeepsAInv, Invariance, InitRInv, NextKeepsRInv, InitLInv, NextKeepsLInv, PTL
     DEF Spec
=============================================================================
