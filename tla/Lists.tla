-------------------------------- MODULE Lists --------------------------------
(***************************************************************************)
(* What several modules say of a sequence: what is left of it when some    *)
(* elements are dropped, the elements of a set in an order, and a sum.     *)
(* They are written so that theorems can be proved about them (a recursive *)
(* function, and a set where SelectSeq takes an operator).                 *)
(***************************************************************************)
EXTENDS Integers, Sequences, FiniteSets

(* For every i, the elements of S among the first i of s.                  *)
KeptUpTo(s, S) ==
  LET kept[i \in 0 .. Len(s)] ==
        IF i = 0 THEN <<>>
        ELSE IF s[i] \in S THEN Append(kept[i - 1], s[i]) ELSE kept[i - 1]
  IN kept

Kept(s, S) == KeptUpTo(s, S)[Len(s)]

(* The elements of a set in an order.                                      *)
InOrder(S, Before(_, _)) ==
  [i \in 1 .. Cardinality(S) |-> CHOOSE x \in S : Cardinality({y \in S : Before(y, x)}) = i - 1]

(* The positions of the numbers in s, the least number first.              *)
Ranked(s) == InOrder(DOMAIN s, LAMBDA i, j : s[i] < s[j] \/ (s[i] = s[j] /\ i < j))

(* The sum of a sequence of numbers.                                       *)
SumOf(s) ==
  LET sum[i \in 0 .. Len(s)] == IF i = 0 THEN 0 ELSE sum[i - 1] + s[i]
  IN sum[Len(s)]
=============================================================================
