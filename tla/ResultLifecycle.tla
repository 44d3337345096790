-------------------------- MODULE ResultLifecycle ---------------------------
(***************************************************************************)
(* What result_set_repository promises about each query: it is pending     *)
(* until it ends, once, with a result that does not change; the result is  *)
(* handed out only while it is there, and it goes away, for good, when the *)
(* last holder gives it back or when nobody holds it.  A query whose       *)
(* connection is closed is dropped, but may end all the same, and its      *)
(* result is then there like any other.                                    *)
(***************************************************************************)
EXTENDS Naturals

CONSTANTS Token

VARIABLES
  stage,    \* "none", "pending", "dropped", "ready" or "gone"
  result,   \* "none", a "frame" or an "error"
  holders   \* how many hold the result

lifecycle == <<stage, result, holders>>

Init ==
  /\ stage = [t \in Token |-> "none"]
  /\ result = [t \in Token |-> "none"]
  /\ holders = [t \in Token |-> 0]

Submit(t) ==
  /\ stage[t] = "none"
  /\ stage' = [stage EXCEPT ![t] = "pending"]
  /\ UNCHANGED <<result, holders>>

Finish(t) ==
  /\ stage[t] \in {"pending", "dropped"}
  /\ stage' = [stage EXCEPT ![t] = "ready"]
  /\ \E r \in {"frame", "error"} : result' = [result EXCEPT ![t] = r]
  /\ UNCHANGED holders

Hand(t) ==
  /\ stage[t] = "ready"
  /\ holders' = [holders EXCEPT ![t] = @ + 1]
  /\ UNCHANGED <<stage, result>>

GiveBack(t) ==
  /\ stage[t] = "ready" /\ holders[t] > 1
  /\ holders' = [holders EXCEPT ![t] = @ - 1]
  /\ UNCHANGED <<stage, result>>

GiveBackLast(t) ==
  /\ stage[t] = "ready" /\ holders[t] = 1
  /\ stage' = [stage EXCEPT ![t] = "gone"]
  /\ result' = [result EXCEPT ![t] = "none"]
  /\ holders' = [holders EXCEPT ![t] = 0]

(* A connection is closed: some of the results nobody holds go, and some   *)
(* queries that have not ended are dropped.                                *)
Discard(S) ==
  /\ \A t \in S : stage[t] \in {"pending", "ready"} /\ holders[t] = 0
  /\ stage' = [t \in Token |->
       IF t \notin S THEN stage[t] ELSE IF stage[t] = "ready" THEN "gone" ELSE "dropped"]
  /\ result' = [t \in Token |-> IF t \in S THEN "none" ELSE result[t]]
  /\ UNCHANGED holders

Next ==
  \/ \E t \in Token : Submit(t)
  \/ \E t \in Token : Finish(t)
  \/ \E t \in Token : Hand(t)
  \/ \E t \in Token : GiveBack(t)
  \/ \E t \in Token : GiveBackLast(t)
  \/ \E S \in SUBSET Token : Discard(S)

Spec == Init /\ [][Next]_lifecycle
=============================================================================
