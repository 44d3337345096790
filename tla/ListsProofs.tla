----------------------------- MODULE ListsProofs -----------------------------
(***************************************************************************)
(* Facts about the sequences of the models, for the proofs that use them.  *)
(***************************************************************************)
EXTENDS Lists, SequencesExt, SequenceTheorems, FiniteSetTheorems, TLAPS

(* Induction for a set of natural numbers: on the numbers up to n that are  *)
(* missing, the predecessor would be injective and leave out n.             *)
LEMMA SetInduction ==
  ASSUME NEW I, 0 \in I, \A k \in Nat : k \in I => k + 1 \in I,
         NEW n \in Nat
  PROVE  n \in I
<1>1. SUFFICES ASSUME n \notin I PROVE FALSE
  OBVIOUS
<1> DEFINE Missing == {k \in 0 .. n : k \notin I}
           pred == [k \in Missing |-> k - 1]
<1>2. n \in Missing /\ IsFiniteSet(Missing)
  <2>1. n \in Missing
    BY <1>1
  <2>2. Missing \in SUBSET (0 .. n) /\ IsFiniteSet(0 .. n)
    BY FS_Interval
  <2> HIDE DEF Missing
  <2>3. QED
    BY <2>1, <2>2, FS_Subset
<1>3. ASSUME NEW k \in Missing PROVE k - 1 \in Missing
  <2>1. k \in Nat /\ k # 0
    OBVIOUS
  <2>2. k - 1 \in Nat /\ (k - 1) + 1 = k
    BY <2>1
  <2>3. k - 1 \notin I
    BY <2>2
  <2>4. QED
    BY <2>2, <2>3
<1>4. pred \in Injection(Missing, Missing)
  <2>1. pred \in [Missing -> Missing]
    BY <1>3
  <2>2. \A a, b \in Missing : pred[a] = pred[b] => a = b
    OBVIOUS
  <2> HIDE DEF pred, Missing
  <2>3. IsInjective(pred) /\ DOMAIN pred = Missing
    BY <2>1, <2>2 DEF IsInjective
  <2>4. QED
    BY <2>1, <2>3 DEF Injection
<1>5. pred \in Surjection(Missing, Missing)
  <2> HIDE DEF pred, Missing
  <2>1. QED
    BY <1>2, <1>4, FS_Injection
<1>6. PICK k \in Missing : pred[k] = n
  <2> HIDE DEF pred, Missing
  <2>1. QED
    BY <1>2, <1>5 DEF Surjection
<1>7. QED
  BY <1>6

(* A function whose value at i is made from the one at i - 1: there is one. *)
Recursive(f, n, b, step) == f[0] = b /\ \A i \in 1 .. n : f[i] = step[i][f[i - 1]]

LEMMA RecursionExists ==
  ASSUME NEW X, NEW n \in Nat, NEW b \in X, NEW step \in [1 .. n -> [X -> X]]
  PROVE  \E f \in [0 .. n -> X] : Recursive(f, n, b, step)
<1> DEFINE Good(m) == m <= n => \E f \in [0 .. m -> X] :
                        f[0] = b /\ \A i \in 1 .. m : f[i] = step[i][f[i - 1]]
           I == {m \in Nat : Good(m)}
<1>1. 0 \in I
  <2> DEFINE f == [i \in 0 .. 0 |-> b]
  <2>1. f \in [0 .. 0 -> X] /\ f[0] = b /\ \A i \in 1 .. 0 : f[i] = step[i][f[i - 1]]
    OBVIOUS
  <2>2. Good(0)
    <3> HIDE DEF f
    <3>1. QED
      BY <2>1
  <2>3. QED
    BY <2>2
<1>2. ASSUME NEW m \in Nat, m \in I PROVE m + 1 \in I
  <2>1. SUFFICES ASSUME m + 1 <= n
                 PROVE  \E f \in [0 .. m + 1 -> X] :
                          f[0] = b /\ \A i \in 1 .. m + 1 : f[i] = step[i][f[i - 1]]
    OBVIOUS
  <2>2. PICK g \in [0 .. m -> X] : g[0] = b /\ \A i \in 1 .. m : g[i] = step[i][g[i - 1]]
    BY <1>2, <2>1
  <2> DEFINE f == [i \in 0 .. m + 1 |-> IF i <= m THEN g[i] ELSE step[m + 1][g[m]]]
  <2>3. step[m + 1][g[m]] \in X
    BY <2>1, <2>2
  <2>4. f \in [0 .. m + 1 -> X]
    BY <2>2, <2>3
  <2>5. f[0] = b
    BY <2>2
  <2>6. ASSUME NEW i \in 1 .. m + 1 PROVE f[i] = step[i][f[i - 1]]
    <3>1. CASE i <= m
      BY <2>2, <3>1
    <3>2. CASE i = m + 1
      <4>1. f[i - 1] = g[m] /\ f[i] = step[m + 1][g[m]]
        BY <3>2
      <4>2. QED
        BY <3>2, <4>1
    <3>3. QED
      BY <3>1, <3>2
  <2> HIDE DEF f
  <2>7. QED
    BY <2>4, <2>5, <2>6
<1> HIDE DEF I
<1>3. n \in I
  BY <1>1, <1>2, SetInduction
<1> USE DEF I
<1>4. QED
  BY <1>3 DEF Recursive
-----------------------------------------------------------------------------
(* KeptUpTo is the function that its definition describes.                  *)
Keeps(K, s, S) ==
  /\ K[0] = <<>>
  /\ \A i \in 1 .. Len(s) : K[i] = IF s[i] \in S THEN Append(K[i - 1], s[i]) ELSE K[i - 1]

LEMMA KeptUpToDefined ==
  ASSUME NEW T, NEW s \in Seq(T), NEW S
  PROVE  KeptUpTo(s, S) \in [0 .. Len(s) -> Seq(T \cap S)] /\ Keeps(KeptUpTo(s, S), s, S)
<1> DEFINE n == Len(s)
           X == Seq(T \cap S)
           step == [i \in 1 .. n |-> [k \in X |-> IF s[i] \in S THEN Append(k, s[i]) ELSE k]]
<1>1. n \in Nat /\ \A i \in 1 .. n : s[i] \in T
  OBVIOUS
<1>2. <<>> \in X
  OBVIOUS
<1>3. step \in [1 .. n -> [X -> X]]
  <2>1. ASSUME NEW i \in 1 .. n, NEW k \in X
        PROVE  (IF s[i] \in S THEN Append(k, s[i]) ELSE k) \in X
    BY <1>1
  <2>2. QED
    BY <2>1
<1>4. PICK f \in [0 .. n -> X] : f[0] = <<>> /\ \A i \in 1 .. n : f[i] = step[i][f[i - 1]]
  <2> DEFINE b == <<>>
  <2>1. b \in X
    BY <1>2
  <2> HIDE DEF n, X, step, b
  <2>2. \E f \in [0 .. n -> X] : Recursive(f, n, b, step)
    BY <1>1, <1>3, <2>1, RecursionExists
  <2>3. QED
    BY <2>2 DEF b, Recursive
<1>5. \A i \in 1 .. n : f[i] = IF s[i] \in S THEN Append(f[i - 1], s[i]) ELSE f[i - 1]
  <2>1. ASSUME NEW i \in 1 .. n PROVE f[i - 1] \in X
    <3>1. i - 1 \in 0 .. n
      BY <1>1
    <3> HIDE DEF X, n
    <3>2. QED
      BY <3>1
  <2>2. ASSUME NEW i \in 1 .. n
        PROVE  step[i][f[i - 1]] = IF s[i] \in S THEN Append(f[i - 1], s[i]) ELSE f[i - 1]
    <3> HIDE DEF X, n
    <3>1. QED
      BY <2>1
  <2>3. QED
    BY <1>4, <2>2
<1> HIDE DEF step
<1>6. f = [i \in 0 .. n |-> IF i = 0 THEN <<>>
                            ELSE IF s[i] \in S THEN Append(f[i - 1], s[i]) ELSE f[i - 1]]
  <2> DEFINE h == [i \in 0 .. n |-> IF i = 0 THEN <<>>
                            ELSE IF s[i] \in S THEN Append(f[i - 1], s[i]) ELSE f[i - 1]]
  <2>1. ASSUME NEW i \in 0 .. n PROVE f[i] = h[i]
    <3>1. CASE i = 0
      BY <1>4, <3>1
    <3>2. CASE i # 0
      <4>1. i \in 1 .. n
        BY <1>1, <3>2
      <4>2. QED
        BY <1>5, <4>1, <3>2
    <3>3. QED
      BY <3>1, <3>2
  <2>2. QED
    BY <1>4, <2>1
<1> DEFINE Def(k) == k = [i \in 0 .. Len(s) |-> IF i = 0 THEN <<>>
                            ELSE IF s[i] \in S THEN Append(k[i - 1], s[i]) ELSE k[i - 1]]
           K == KeptUpTo(s, S)
<1>7. K = CHOOSE k : Def(k)
  BY DEF KeptUpTo
<1>8. Def(f)
  BY <1>6
<1>9. Def(K)
  <2> HIDE DEF Def, K
  <2>1. QED
    BY <1>7, <1>8
<1>10. /\ K[0] = <<>>
       /\ \A i \in 1 .. n : K[i] = IF s[i] \in S THEN Append(K[i - 1], s[i]) ELSE K[i - 1]
  <2> HIDE DEF K
  <2>1. 0 \in 0 .. Len(s) /\ \A i \in 1 .. n : i \in 0 .. Len(s) /\ i # 0
    BY <1>1
  <2> DEFINE E(i) == IF i = 0 THEN <<>>
                     ELSE IF s[i] \in S THEN Append(K[i - 1], s[i]) ELSE K[i - 1]
  <2>2. K = [i \in 0 .. Len(s) |-> E(i)]
    BY <1>9
  <2>3. \A i \in 0 .. Len(s) : K[i] = E(i)
    <3> HIDE DEF E
    <3>1. QED
      BY <2>2
  <2>4. QED
    BY <2>1, <2>3
<1>11. \A i \in 0 .. n : K[i] \in X
  <2> DEFINE I == {i \in Nat : i <= n => K[i] \in X}
  <2> HIDE DEF K
  <2>1. 0 \in I
    BY <1>2, <1>10
  <2>2. ASSUME NEW i \in Nat, i \in I PROVE i + 1 \in I
    <3>1. SUFFICES ASSUME i + 1 <= n PROVE K[i + 1] \in X
      OBVIOUS
    <3>2. K[i] \in X /\ i + 1 \in 1 .. n
      BY <1>1, <2>2, <3>1
    <3>3. K[i + 1] = IF s[i + 1] \in S THEN Append(K[i], s[i + 1]) ELSE K[i]
      BY <1>10, <3>2
    <3>4. s[i + 1] \in T
      BY <1>1, <3>2
    <3>5. QED
      BY <3>2, <3>3, <3>4
  <2> HIDE DEF I
  <2>3. ASSUME NEW i \in Nat PROVE i \in I
    BY <2>1, <2>2, SetInduction
  <2> USE DEF I
  <2>4. QED
    BY <1>1, <2>3
<1>12. DOMAIN K = 0 .. n
  <2> HIDE DEF K
  <2>1. QED
    BY <1>9
<1>13. K \in [0 .. n -> X]
  <2> HIDE DEF X
  <2>1. K = [i \in 0 .. n |-> K[i]]
    <3> HIDE DEF K
    <3>1. QED
      BY <1>9
  <2>2. QED
    BY <2>1, <1>11
<1>14. QED
  BY <1>10, <1>13 DEF Keeps

LEMMA KeptUpToType ==
  ASSUME NEW T, NEW s \in Seq(T), NEW S
  PROVE  KeptUpTo(s, S) \in [0 .. Len(s) -> Seq(T \cap S)] /\ KeptUpTo(s, S)[0] = <<>>
<1>1. KeptUpTo(s, S) \in [0 .. Len(s) -> Seq(T \cap S)] /\ Keeps(KeptUpTo(s, S), s, S)
  BY KeptUpToDefined
<1>2. QED
  BY <1>1 DEF Keeps

LEMMA KeptUpToStep ==
  ASSUME NEW T, NEW s \in Seq(T), NEW S, NEW i \in 1 .. Len(s)
  PROVE  KeptUpTo(s, S)[i] = IF s[i] \in S THEN Append(KeptUpTo(s, S)[i - 1], s[i])
                                            ELSE KeptUpTo(s, S)[i - 1]
<1>1. Keeps(KeptUpTo(s, S), s, S)
  BY KeptUpToDefined
<1>2. QED
  BY <1>1 DEF Keeps

LEMMA KeptType ==
  ASSUME NEW T, NEW s \in Seq(T), NEW S
  PROVE  Kept(s, S) \in Seq(T \cap S)
<1>1. Len(s) \in 0 .. Len(s)
  OBVIOUS
<1>2. QED
  BY <1>1, KeptUpToType DEF Kept

(* What is kept of the first i elements begins what is kept of more.        *)
Begins(s, t) == Len(s) <= Len(t) /\ \A k \in 1 .. Len(s) : t[k] = s[k]

LEMMA KeptPrefix ==
  ASSUME NEW T, NEW s \in Seq(T), NEW S, NEW i \in 0 .. Len(s), NEW j \in i .. Len(s)
  PROVE  Begins(KeptUpTo(s, S)[i], KeptUpTo(s, S)[j])
<1> DEFINE K == KeptUpTo(s, S)
           Prefix(m) == /\ Len(K[i]) <= Len(K[m])
                        /\ \A k \in 1 .. Len(K[i]) : K[m][k] = K[i][k]
           I == {d \in Nat : i + d <= Len(s) => Prefix(i + d)}
<1>1. \A m \in 0 .. Len(s) : K[m] \in Seq(T \cap S)
  BY KeptUpToType
<1>2. \A m \in 1 .. Len(s) : K[m] = IF s[m] \in S THEN Append(K[m - 1], s[m]) ELSE K[m - 1]
  BY KeptUpToStep
<1>3. \A m \in 1 .. Len(s) : s[m] \in T
  OBVIOUS
<1>4. Len(s) \in Nat /\ i \in Nat /\ j \in Nat
  OBVIOUS
<1> HIDE DEF K
<1>5. 0 \in I
  <2>1. Prefix(i)
    BY <1>1
  <2>2. i + 0 = i
    BY <1>4
  <2>3. QED
    BY <2>1, <2>2
<1>6. ASSUME NEW d \in Nat, d \in I PROVE d + 1 \in I
  <2>1. SUFFICES ASSUME i + (d + 1) <= Len(s) PROVE Prefix(i + (d + 1))
    OBVIOUS
  <2> DEFINE m == i + d
  <2>2. /\ m \in 0 .. Len(s) /\ m + 1 \in 1 .. Len(s) /\ i + (d + 1) = m + 1
        /\ (m + 1) - 1 = m /\ m <= Len(s)
    BY <1>4, <2>1
  <2>3. Prefix(m)
    BY <1>6, <2>2
  <2> HIDE DEF m
  <2>4. K[m + 1] = IF s[m + 1] \in S THEN Append(K[m], s[m + 1]) ELSE K[m]
    BY <1>2, <2>2
  <2>5. K[m] \in Seq(T \cap S) /\ s[m + 1] \in T /\ K[i] \in Seq(T \cap S)
    BY <1>1, <1>3, <2>2
  <2>6. Prefix(m + 1)
    <3>1. CASE s[m + 1] \in S
      BY <2>3, <2>4, <2>5, <3>1
    <3>2. CASE s[m + 1] \notin S
      BY <2>3, <2>4, <3>2
    <3>3. QED
      BY <3>1, <3>2
  <2> HIDE DEF Prefix
  <2>7. QED
    BY <2>2, <2>6
<1>7. j - i \in Nat /\ i + (j - i) = j /\ j <= Len(s)
  BY <1>4
<1>8. j - i \in I
  <2> HIDE DEF I
  <2>1. QED
    BY <1>5, <1>6, <1>7, SetInduction
<1>9. Prefix(j)
  <2> HIDE DEF Prefix
  <2>1. QED
    BY <1>7, <1>8
<1>10. QED
  BY <1>9 DEF K, Begins

(* Where an element that is kept is found again.                            *)
LEMMA KeptAt ==
  ASSUME NEW T, NEW s \in Seq(T), NEW S, NEW i \in 1 .. Len(s), s[i] \in S
  PROVE  /\ Len(KeptUpTo(s, S)[i]) \in 1 .. Len(Kept(s, S))
         /\ Kept(s, S)[Len(KeptUpTo(s, S)[i])] = s[i]
<1> DEFINE K == KeptUpTo(s, S)
<1>1. /\ i \in 0 .. Len(s) /\ i - 1 \in 0 .. Len(s) /\ Len(s) \in i .. Len(s)
      /\ Len(s) \in 0 .. Len(s)
  OBVIOUS
<1>2. K[i] = Append(K[i - 1], s[i]) /\ K[i - 1] \in Seq(T \cap S) /\ s[i] \in T \cap S
  <2>1. K[i - 1] \in Seq(T \cap S) /\ s[i] \in T
    BY <1>1, KeptUpToType
  <2>2. QED
    BY <2>1, KeptUpToStep
<1>3. Len(K[i]) \in Nat /\ Len(K[i]) >= 1 /\ K[i][Len(K[i])] = s[i]
  <2> HIDE DEF K
  <2>1. QED
    BY <1>2
<1>4. /\ Len(K[i]) <= Len(K[Len(s)])
      /\ \A k \in 1 .. Len(K[i]) : K[Len(s)][k] = K[i][k]
  <2>1. Begins(K[i], K[Len(s)])
    BY <1>1, KeptPrefix
  <2>2. QED
    BY <2>1 DEF Begins
<1>5. K[Len(s)] \in Seq(T \cap S)
  BY <1>1, KeptUpToType
<1> HIDE DEF K
<1>6. Len(K[i]) \in 1 .. Len(K[Len(s)]) /\ K[Len(s)][Len(K[i])] = s[i]
  BY <1>3, <1>4, <1>5
<1>7. QED
  BY <1>6 DEF Kept, K

(* Kept are the elements that are in S, each once if they were so before.   *)
LEMMA KeptElements ==
  ASSUME NEW T, NEW s \in Seq(T), NEW S
  PROVE  /\ \A x : (\E k \in 1 .. Len(Kept(s, S)) : Kept(s, S)[k] = x)
                    <=> (x \in S /\ \E i \in 1 .. Len(s) : s[i] = x)
         /\ IsInjective(s) => IsInjective(Kept(s, S))
<1> DEFINE K == KeptUpTo(s, S)
           From(m) == \A k \in 1 .. Len(K[m]) : \E i \in 1 .. m : s[i] \in S /\ K[m][k] = s[i]
           Once(m) == IsInjective(s) => \A k, l \in 1 .. Len(K[m]) : K[m][k] = K[m][l] => k = l
           I == {m \in Nat : m <= Len(s) => From(m) /\ Once(m)}
<1>1. \A m \in 0 .. Len(s) : K[m] \in Seq(T \cap S)
  BY KeptUpToType
<1>2. /\ K[0] = <<>>
      /\ \A m \in 1 .. Len(s) : K[m] = IF s[m] \in S THEN Append(K[m - 1], s[m]) ELSE K[m - 1]
  <2>1. K[0] = <<>>
    BY KeptUpToType
  <2>2. QED
    BY <2>1, KeptUpToStep
<1>3. \A m \in 1 .. Len(s) : s[m] \in T
  OBVIOUS
<1>4. Len(s) \in Nat /\ DOMAIN s = 1 .. Len(s)
  OBVIOUS
<1> HIDE DEF K
<1>5. 0 \in I
  BY <1>2
<1>6. ASSUME NEW m \in Nat, m \in I PROVE m + 1 \in I
  <2>1. SUFFICES ASSUME m + 1 <= Len(s) PROVE From(m + 1) /\ Once(m + 1)
    OBVIOUS
  <2>2. m \in 0 .. Len(s) /\ m + 1 \in 1 .. Len(s) /\ (m + 1) - 1 = m /\ m <= Len(s)
    BY <1>4, <2>1
  <2>3. From(m) /\ Once(m)
    BY <1>6, <2>2
  <2>4. K[m + 1] = IF s[m + 1] \in S THEN Append(K[m], s[m + 1]) ELSE K[m]
    BY <1>2, <2>2
  <2>5. K[m] \in Seq(T \cap S) /\ s[m + 1] \in T
    BY <1>1, <1>3, <2>2
  <2>6. CASE s[m + 1] \notin S
    <3>1. K[m + 1] = K[m]
      BY <2>4, <2>6
    <3>2. QED
      BY <2>3, <3>1
  <2>7. CASE s[m + 1] \in S
    <3>1. /\ K[m + 1] = Append(K[m], s[m + 1]) /\ Len(K[m + 1]) = Len(K[m]) + 1 /\ Len(K[m]) \in Nat
          /\ K[m + 1][Len(K[m]) + 1] = s[m + 1]
          /\ \A k \in 1 .. Len(K[m]) : K[m + 1][k] = K[m][k]
      BY <2>4, <2>5, <2>7
    <3>2. From(m + 1)
      <4>1. ASSUME NEW k \in 1 .. Len(K[m]) + 1
            PROVE  \E i \in 1 .. m + 1 : s[i] \in S /\ K[m + 1][k] = s[i]
        <5>1. CASE k = Len(K[m]) + 1
          BY <2>7, <3>1, <5>1
        <5>2. CASE k # Len(K[m]) + 1
          <6>1. k \in 1 .. Len(K[m])
            BY <3>1, <5>2
          <6>2. PICK i \in 1 .. m : s[i] \in S /\ K[m][k] = s[i]
            BY <2>3, <6>1
          <6>3. QED
            BY <3>1, <6>1, <6>2
        <5>3. QED
          BY <5>1, <5>2
      <4>2. QED
        BY <3>1, <4>1
    <3>3. Once(m + 1)
      <4>1. SUFFICES ASSUME IsInjective(s), NEW k \in 1 .. Len(K[m + 1]), NEW l \in 1 .. Len(K[m + 1]),
                            K[m + 1][k] = K[m + 1][l], k < l
                     PROVE  FALSE
        BY <3>1
      <4>2. k \in 1 .. Len(K[m])
        BY <3>1, <4>1
      <4>3. PICK i \in 1 .. m : K[m][k] = s[i]
        BY <2>3, <4>2
      <4>4. CASE l \in 1 .. Len(K[m])
        BY <2>3, <3>1, <4>1, <4>2, <4>4
      <4>5. CASE l = Len(K[m]) + 1
        <5>1. s[i] = s[m + 1] /\ i # m + 1 /\ i \in 1 .. Len(s)
          BY <2>2, <3>1, <4>1, <4>2, <4>3, <4>5
        <5>2. QED
          BY <1>4, <2>2, <4>1, <5>1 DEF IsInjective
      <4>6. QED
        BY <3>1, <4>4, <4>5
    <3>4. QED
      BY <3>2, <3>3
  <2>8. QED
    BY <2>6, <2>7
<1>7. Len(s) \in I
  <2> HIDE DEF I
  <2>1. QED
    BY <1>4, <1>5, <1>6, SetInduction
<1>8. From(Len(s)) /\ Once(Len(s)) /\ K[Len(s)] \in Seq(T \cap S)
  BY <1>1, <1>4, <1>7
<1>9. Kept(s, S) = K[Len(s)]
  BY DEF Kept, K
<1>10. ASSUME NEW x, x \in S, NEW i \in 1 .. Len(s), s[i] = x
       PROVE  \E k \in 1 .. Len(Kept(s, S)) : Kept(s, S)[k] = x
  BY <1>10, KeptAt
<1>11. ASSUME NEW k \in 1 .. Len(Kept(s, S))
       PROVE  Kept(s, S)[k] \in S /\ \E i \in 1 .. Len(s) : s[i] = Kept(s, S)[k]
  BY <1>8, <1>9
<1>12. IsInjective(s) => IsInjective(Kept(s, S))
  <2>1. DOMAIN Kept(s, S) = 1 .. Len(Kept(s, S))
    BY <1>8, <1>9
  <2>2. QED
    BY <1>8, <1>9, <2>1 DEF IsInjective
<1>13. QED
  BY <1>10, <1>11, <1>12
-----------------------------------------------------------------------------
(* R orders the elements of S, each before or after every other one.        *)
Orders(R, S) ==
  /\ \A x \in S : <<x, x>> \notin R
  /\ \A x, y \in S : x # y => <<x, y>> \in R \/ <<y, x>> \in R
  /\ \A x, y, z \in S : <<x, y>> \in R /\ <<y, z>> \in R => <<x, z>> \in R

(* InOrder with the order as a set of pairs.                                *)
Ordered(S, R) ==
  [i \in 1 .. Cardinality(S) |-> CHOOSE x \in S : Cardinality({y \in S : <<y, x>> \in R}) = i - 1]

(* o lists the n elements of S, each once; each after those before it.      *)
Enumerates(o, n, S) ==
  /\ o \in [1 .. n -> S]
  /\ \A x \in S : \E i \in 1 .. n : o[i] = x
  /\ \A i, j \in 1 .. n : o[i] = o[j] => i = j
Follows(o, n, R) == \A i, j \in 1 .. n : i < j => <<o[i], o[j]>> \in R

(* How many elements come before one tells its place.                       *)
LEMMA RanksAreDistinct ==
  ASSUME NEW S, IsFiniteSet(S), NEW R, Orders(R, S), NEW x \in S, NEW z \in S, <<x, z>> \in R
  PROVE  /\ Cardinality({y \in S : <<y, x>> \in R}) \in 0 .. Cardinality(S) - 1
         /\ Cardinality({y \in S : <<y, x>> \in R}) < Cardinality({y \in S : <<y, z>> \in R})
<1> DEFINE Before(w) == {y \in S : <<y, w>> \in R}
<1>1. \A w \in S : IsFiniteSet(Before(w)) /\ Cardinality(Before(w)) \in Nat
  <2>1. ASSUME NEW w \in S PROVE IsFiniteSet(Before(w))
    <3>1. Before(w) \in SUBSET S
      OBVIOUS
    <3> HIDE DEF Before
    <3>2. QED
      BY <3>1, FS_Subset
  <2> HIDE DEF Before
  <2>2. QED
    BY <2>1, FS_CardinalityType
<1>2. Before(x) \cup {x} \in SUBSET Before(z) /\ x \notin Before(x)
  BY DEF Orders
<1>3. Before(x) \cup {x} \in SUBSET S
  OBVIOUS
<1> HIDE DEF Before
<1>4. /\ IsFiniteSet(Before(x) \cup {x})
      /\ Cardinality(Before(x) \cup {x}) = Cardinality(Before(x)) + 1
  BY <1>1, <1>2, FS_AddElement
<1>5. Cardinality(Before(x)) + 1 <= Cardinality(Before(z))
  <2>1. Cardinality(Before(x) \cup {x}) <= Cardinality(Before(z))
    BY <1>1, <1>2, FS_Subset
  <2>2. QED
    BY <1>4, <2>1
<1>6. Cardinality(Before(x)) + 1 <= Cardinality(S) /\ Cardinality(S) \in Nat
  <2>1. Cardinality(Before(x) \cup {x}) <= Cardinality(S)
    BY <1>3, FS_Subset
  <2>2. QED
    BY <1>4, <2>1, FS_CardinalityType
<1>7. /\ Cardinality(Before(x)) \in 0 .. Cardinality(S) - 1
      /\ Cardinality(Before(x)) < Cardinality(Before(z))
  BY <1>1, <1>5, <1>6
<1>8. QED
  BY <1>7 DEF Before

(* The last one has all the others before it.                               *)
LEMMA RankIsBelow ==
  ASSUME NEW S, IsFiniteSet(S), NEW R, Orders(R, S), NEW x \in S
  PROVE  Cardinality({y \in S : <<y, x>> \in R}) \in 0 .. Cardinality(S) - 1
<1> DEFINE Before == {y \in S : <<y, x>> \in R}
<1>1. Before \in SUBSET (S \ {x})
  BY DEF Orders
<1> HIDE DEF Before
<1>2. /\ IsFiniteSet(S \ {x}) /\ Cardinality(S \ {x}) = Cardinality(S) - 1
  BY FS_RemoveElement
<1>3. IsFiniteSet(Before) /\ Cardinality(Before) <= Cardinality(S \ {x})
  BY <1>1, <1>2, FS_Subset
<1>4. Cardinality(Before) \in Nat /\ Cardinality(S) \in Nat
  BY <1>3, FS_CardinalityType
<1>5. Cardinality(Before) \in 0 .. Cardinality(S) - 1
  BY <1>2, <1>3, <1>4
<1>6. QED
  BY <1>5 DEF Before

(* InOrder lists every element once, and each after those before it.        *)
LEMMA OrderedLists ==
  ASSUME NEW S, IsFiniteSet(S), NEW R, Orders(R, S)
  PROVE  /\ Cardinality(S) \in Nat
         /\ Enumerates(Ordered(S, R), Cardinality(S), S)
         /\ Follows(Ordered(S, R), Cardinality(S), R)
<1> DEFINE Rank(x) == Cardinality({y \in S : <<y, x>> \in R})
           n == Cardinality(S)
           rank == [x \in S |-> Rank(x)]
           o == Ordered(S, R)
<1>1. n \in Nat
  BY FS_CardinalityType
<1>2. \A x \in S : Rank(x) \in 0 .. n - 1
  BY RankIsBelow
<1>3. \A x, z \in S : <<x, z>> \in R => Rank(x) < Rank(z)
  BY RanksAreDistinct
<1>4. o = [i \in 1 .. n |-> CHOOSE x \in S : Rank(x) = i - 1]
  BY DEF Ordered
<1> HIDE DEF Rank, n, o
<1>5. \A x, z \in S : Rank(x) = Rank(z) => x = z
  <2>1. SUFFICES ASSUME NEW x \in S, NEW z \in S, x # z PROVE Rank(x) # Rank(z)
    OBVIOUS
  <2>2. <<x, z>> \in R \/ <<z, x>> \in R
    BY <2>1 DEF Orders
  <2>3. Rank(x) < Rank(z) \/ Rank(z) < Rank(x)
    BY <1>3, <2>2
  <2>4. QED
    BY <1>2, <1>1, <2>3
<1>6. rank \in Surjection(S, 0 .. n - 1)
  <2>1. rank \in [S -> 0 .. n - 1]
    BY <1>2
  <2>2. IsInjective(rank)
    BY <1>5 DEF IsInjective
  <2>3. rank \in Injection(S, 0 .. n - 1)
    BY <2>1, <2>2 DEF Injection
  <2>4. IsFiniteSet(0 .. n - 1) /\ Cardinality(0 .. n - 1) = n
    BY <1>1, FS_Interval
  <2> HIDE DEF rank
  <2>5. QED
    BY <2>3, <2>4, FS_Injection DEF n
<1>7. ASSUME NEW i \in 1 .. n PROVE o[i] \in S /\ Rank(o[i]) = i - 1
  <2>1. i - 1 \in 0 .. n - 1
    BY <1>1
  <2>2. \E x \in S : rank[x] = i - 1
    <3> HIDE DEF rank
    <3>1. QED
      BY <1>6, <2>1 DEF Surjection
  <2>3. \E x \in S : Rank(x) = i - 1
    BY <2>2
  <2>4. QED
    BY <1>4, <2>3
<1>8. o \in [1 .. n -> S]
  BY <1>4, <1>7
<1>9. ASSUME NEW x \in S PROVE \E i \in 1 .. n : o[i] = x
  <2>1. Rank(x) + 1 \in 1 .. n /\ (Rank(x) + 1) - 1 = Rank(x)
    BY <1>1, <1>2
  <2>2. o[Rank(x) + 1] = x
    BY <1>5, <1>7, <2>1
  <2>3. QED
    BY <2>1, <2>2
<1>10. ASSUME NEW i \in 1 .. n, NEW j \in 1 .. n PROVE o[i] = o[j] => i = j
  <2>1. o[i] = o[j] => i - 1 = j - 1
    BY <1>7
  <2>2. QED
    BY <1>1, <2>1
<1>11. ASSUME NEW i \in 1 .. n, NEW j \in 1 .. n, i < j PROVE <<o[i], o[j]>> \in R
  <2>1. o[i] \in S /\ o[j] \in S /\ Rank(o[i]) = i - 1 /\ Rank(o[j]) = j - 1
    BY <1>7
  <2>2. o[i] # o[j]
    BY <1>10, <1>11
  <2>3. CASE <<o[j], o[i]>> \in R
    <3>1. j - 1 < i - 1
      BY <1>3, <2>1, <2>3
    <3>2. QED
      BY <1>1, <1>11, <3>1
  <2>4. QED
    BY <2>1, <2>2, <2>3 DEF Orders
<1>12. QED
  BY <1>1, <1>8, <1>9, <1>10, <1>11 DEF n, o, Enumerates, Follows

(* The positions of the numbers of s, the least number first.               *)
LEMMA RankedLists ==
  ASSUME NEW s, NEW n \in Nat, s \in [1 .. n -> Int]
  PROVE  /\ Enumerates(Ranked(s), n, 1 .. n)
         /\ \A i, j \in 1 .. n : i < j => s[Ranked(s)[i]] <= s[Ranked(s)[j]]
<1> DEFINE S == 1 .. n
           R == {p \in S \X S : s[p[1]] < s[p[2]] \/ (s[p[1]] = s[p[2]] /\ p[1] < p[2])}
<1>1. DOMAIN s = S /\ IsFiniteSet(S) /\ Cardinality(S) = n
  BY FS_Interval
<1>2. \A x \in S : s[x] \in Int /\ x \in Int
  OBVIOUS
<1>3. \A x, y \in S : <<x, y>> \in R <=> s[x] < s[y] \/ (s[x] = s[y] /\ x < y)
  OBVIOUS
<1>4. Orders(R, S)
  <2> HIDE DEF R, S
  <2>1. \A x \in S : <<x, x>> \notin R
    BY <1>2, <1>3
  <2>2. \A x, y \in S : x # y => <<x, y>> \in R \/ <<y, x>> \in R
    BY <1>2, <1>3
  <2>3. \A x, y, z \in S : <<x, y>> \in R /\ <<y, z>> \in R => <<x, z>> \in R
    BY <1>2, <1>3
  <2>4. QED
    BY <2>1, <2>2, <2>3 DEF Orders
<1>5. Ranked(s) = Ordered(S, R)
  <2>1. ASSUME NEW x \in S
        PROVE  {y \in S : s[y] < s[x] \/ (s[y] = s[x] /\ y < x)} = {y \in S : <<y, x>> \in R}
    <3> HIDE DEF R, S
    <3>1. QED
      BY <1>3
  <2>2. Ranked(s) = [i \in 1 .. Cardinality(S) |-> CHOOSE x \in S :
                       Cardinality({y \in S : s[y] < s[x] \/ (s[y] = s[x] /\ y < x)}) = i - 1]
    BY <1>1 DEF Ranked, InOrder
  <2> HIDE DEF R, S
  <2>3. QED
    BY <2>1, <2>2 DEF Ordered
<1> DEFINE o == Ranked(s)
<1>6. Enumerates(o, n, S) /\ Follows(o, n, R)
  <2> HIDE DEF R, S
  <2>1. QED
    BY <1>1, <1>4, <1>5, OrderedLists
<1> HIDE DEF o, R, S
<1>7. ASSUME NEW i \in 1 .. n, NEW j \in 1 .. n, i < j PROVE s[o[i]] <= s[o[j]]
  <2>1. <<o[i], o[j]>> \in R /\ o[i] \in S /\ o[j] \in S
    BY <1>6, <1>7 DEF Enumerates, Follows
  <2>2. s[o[i]] \in Int /\ s[o[j]] \in Int
    BY <1>2, <2>1
  <2>3. s[o[i]] < s[o[j]] \/ s[o[i]] = s[o[j]]
    BY <1>3, <2>1
  <2>4. QED
    BY <2>2, <2>3
<1>8. QED
  BY <1>6, <1>7 DEF o, S
-----------------------------------------------------------------------------
(* The concatenation of no sequences, and of one.                           *)
LEMMA FlattenEmpty ==
  ASSUME NEW f, Len(f) = 0
  PROVE  FlattenSeq(f) = f
BY DEF FlattenSeq

LEMMA FlattenOne ==
  ASSUME NEW s
  PROVE  FlattenSeq(<<s>>) = s
<1> DEFINE f == <<s>>
           g == [i \in 1 .. 1 |-> s]
           Def(k) == k = [i \in 1 .. Len(f) |-> IF i = 1 THEN f[i] ELSE k[i - 1] \o f[i]]
<1>1. Len(f) = 1 /\ f[1] = s
  OBVIOUS
<1>2. Def(g)
  OBVIOUS
<1>3. Def(CHOOSE k : Def(k))
  <2> HIDE DEF Def
  <2>1. QED
    BY <1>2
<1>4. FlattenSeq(f) = (CHOOSE k : Def(k))[Len(f)]
  BY <1>1 DEF FlattenSeq
<1> DEFINE k == CHOOSE k : Def(k)
<1>5. k = [i \in 1 .. Len(f) |-> IF i = 1 THEN f[i] ELSE k[i - 1] \o f[i]] /\ FlattenSeq(f) = k[Len(f)]
  BY <1>3, <1>4
<1> HIDE DEF k, f
<1>6. 1 \in 1 .. Len(f)
  BY <1>1
<1>7. k[1] = f[1]
  BY <1>5, <1>6
<1>8. QED
  BY <1>1, <1>5, <1>7 DEF f

(* F[i] is the concatenation of the first i sequences of f.                 *)
Concatenates(F, f) ==
  F[0] = <<>> /\ \A i \in 1 .. Len(f) : F[i] = F[i - 1] \o f[i]

LEMMA Flattened ==
  ASSUME NEW X, NEW f \in Seq(Seq(X))
  PROVE  \E F \in [0 .. Len(f) -> Seq(X)] : Concatenates(F, f) /\ FlattenSeq(f) = F[Len(f)]
<1> DEFINE n == Len(f)
           S == Seq(X)
           step == [i \in 1 .. n |-> [s \in S |-> s \o f[i]]]
           b == <<>>
<1>1. n \in Nat /\ b \in S /\ \A i \in 1 .. n : f[i] \in S
  BY LenProperties, ElementOfSeq, EmptySeq
<1>2. step \in [1 .. n -> [S -> S]]
  <2>1. ASSUME NEW i \in 1 .. n, NEW s \in S PROVE s \o f[i] \in S
    BY <1>1, ConcatProperties
  <2> HIDE DEF S, n
  <2>2. QED
    BY <2>1
<1>3. PICK F \in [0 .. n -> S] : Recursive(F, n, b, step)
  <2> HIDE DEF S, n, step, b
  <2>1. QED
    BY <1>1, <1>2, RecursionExists
<1>4. F[0] = <<>> /\ \A i \in 1 .. n : F[i] = F[i - 1] \o f[i]
  <2>1. ASSUME NEW i \in 1 .. n PROVE F[i] = F[i - 1] \o f[i]
    <3>1. F[i] = step[i][F[i - 1]]
      BY <1>3 DEF Recursive
    <3>2. i - 1 \in 0 .. n
      BY <1>1
    <3>3. F[i - 1] \in S
      BY <3>2
    <3>4. QED
      BY <3>1, <3>3
  <2>2. QED
    BY <2>1, <1>3 DEF Recursive
<1>5. Concatenates(F, f)
  BY <1>4 DEF Concatenates
<1>6. CASE n = 0
  <2>1. FlattenSeq(f) = f /\ f = <<>>
    BY <1>6, FlattenEmpty, EmptySeq
  <2>2. QED
    BY <1>4, <1>5, <1>6, <2>1
<1>7. CASE n # 0
  <2> DEFINE g == [i \in 1 .. n |-> F[i]]
             Def(k) == k = [i \in 1 .. Len(f) |-> IF i = 1 THEN f[i] ELSE k[i - 1] \o f[i]]
             K == CHOOSE k : Def(k)
             h == [i \in 1 .. n |-> IF i = 1 THEN f[i] ELSE g[i - 1] \o f[i]]
  <2>1. ASSUME NEW i \in 1 .. n PROVE g[i] = h[i]
    <3>1. CASE i = 1
      <4>0. i - 1 = 0
        BY <3>1
      <4>1. F[i] = F[i - 1] \o f[i] /\ F[i - 1] = <<>>
        BY <1>4, <4>0
      <4>2. f[i] \in Seq(X)
        BY <1>1
      <4>3. <<>> \o f[i] = f[i]
        BY <4>2, ConcatEmptySeq
      <4>4. QED
        BY <4>1, <4>3, <3>1
    <3>2. CASE i # 1
      <4>1. i - 1 \in 1 .. n
        BY <1>1, <3>2
      <4>2. QED
        BY <1>4, <4>1, <3>2
    <3>3. QED
      BY <3>1, <3>2
  <2>2. g = h
    <3> HIDE DEF n
    <3>1. QED
      BY <2>1
  <2>3. Def(K)
    <3>1. Def(g)
      BY <2>2
    <3> HIDE DEF Def, g
    <3>2. QED
      BY <3>1
  <2>4. FlattenSeq(f) = K[n]
    <3> HIDE DEF K
    <3>1. FlattenSeq(f) = (CHOOSE k : Def(k))[n]
      BY <1>7 DEF FlattenSeq
    <3>2. QED
      BY <3>1 DEF K
  <2>5. \A i \in 1 .. n : K[i] = IF i = 1 THEN f[i] ELSE K[i - 1] \o f[i]
    <3> HIDE DEF K
    <3>1. K = [i \in 1 .. n |-> IF i = 1 THEN f[i] ELSE K[i - 1] \o f[i]]
      BY <2>3
    <3> DEFINE E(i) == IF i = 1 THEN f[i] ELSE K[i - 1] \o f[i]
    <3>2. K = [i \in 1 .. n |-> E(i)]
      BY <3>1
    <3>3. \A i \in 1 .. n : K[i] = E(i)
      <4> HIDE DEF E
      <4>1. QED
        BY <3>2
    <3>4. QED
      BY <3>3
  <2> HIDE DEF K, Def
  <2> DEFINE I == {i \in Nat : i + 1 <= n => K[i + 1] = F[i + 1]}
  <2>6. 0 \in I
    <3>1. 1 \in 1 .. n
      BY <1>1, <1>7
    <3>2. K[1] = f[1]
      BY <2>5, <3>1
    <3>3. F[1] = F[0] \o f[1]
      <4>1. ASSUME NEW i \in 1 .. n, i = 1 PROVE F[i] = F[0] \o f[i]
        <5>1. i - 1 = 0
          BY <4>1
        <5>2. QED
          BY <1>4, <5>1
      <4>2. QED
        BY <3>1, <4>1
    <3>4. f[1] \in Seq(X)
      BY <1>1, <3>1
    <3>5. <<>> \o f[1] = f[1]
      BY <3>4, ConcatEmptySeq
    <3>6. QED
      BY <3>2, <3>3, <3>5, <1>4
  <2>7. ASSUME NEW i \in Nat, i \in I PROVE i + 1 \in I
    <3>1. SUFFICES ASSUME (i + 1) + 1 <= n PROVE K[(i + 1) + 1] = F[(i + 1) + 1]
      OBVIOUS
    <3> DEFINE j == (i + 1) + 1
    <3>2. j \in 1 .. n /\ j # 1 /\ j - 1 = i + 1 /\ i + 1 <= n
      BY <1>1, <3>1
    <3>3. K[i + 1] = F[i + 1]
      BY <2>7, <3>2
    <3> HIDE DEF j
    <3>4. K[j] = K[j - 1] \o f[j] /\ F[j] = F[j - 1] \o f[j]
      BY <2>5, <1>4, <3>2
    <3>5. QED
      BY <3>2, <3>3, <3>4 DEF j
  <2> HIDE DEF I
  <2>8. \A i \in Nat : i \in I
    BY <2>6, <2>7, SetInduction
  <2>9. K[n] = F[n]
    <3>1. n - 1 \in I /\ (n - 1) + 1 = n
      BY <1>1, <1>7, <2>8
    <3>2. QED
      BY <3>1, <1>1 DEF I
  <2>10. QED
    BY <1>5, <2>4, <2>9
<1>8. QED
  BY <1>6, <1>7

-----------------------------------------------------------------------------
(* What a sequence contains, and how often.                                 *)
LEMMA Elements ==
  ASSUME NEW X, NEW s \in Seq(X)
  PROVE  ToSet(s) = {s[i] : i \in 1 .. Len(s)} /\ ToSet(s) \subseteq X
BY DEF ToSet

LEMMA ElementsOfConcat ==
  ASSUME NEW X, NEW s \in Seq(X), NEW t \in Seq(X)
  PROVE  ToSet(s \o t) = ToSet(s) \cup ToSet(t)
<1> DEFINE u == s \o t
<1>1. /\ u \in Seq(X) /\ Len(u) = Len(s) + Len(t) /\ Len(s) \in Nat /\ Len(t) \in Nat
      /\ \A i \in 1 .. Len(s) + Len(t) : u[i] = IF i <= Len(s) THEN s[i] ELSE t[i - Len(s)]
  BY ConcatProperties, LenProperties
<1> HIDE DEF u
<1>2. ToSet(u) \subseteq ToSet(s) \cup ToSet(t)
  <2>1. ASSUME NEW i \in 1 .. Len(u) PROVE u[i] \in ToSet(s) \cup ToSet(t)
    <3>1. CASE i <= Len(s)
      <4>1. i \in 1 .. Len(s) /\ u[i] = s[i]
        BY <1>1, <3>1
      <4>2. QED
        BY <4>1, Elements
    <3>2. CASE ~(i <= Len(s))
      <4>1. i - Len(s) \in 1 .. Len(t) /\ u[i] = t[i - Len(s)]
        BY <1>1, <3>2
      <4>2. QED
        BY <4>1, Elements
    <3>3. QED
      BY <3>1, <3>2
  <2>2. QED
    BY <1>1, <2>1, Elements
<1>3. ASSUME NEW i \in 1 .. Len(s) PROVE s[i] \in ToSet(u)
  <2>1. i \in 1 .. Len(u) /\ u[i] = s[i]
    BY <1>1
  <2>2. QED
    BY <1>1, <2>1, Elements
<1>4. ASSUME NEW i \in 1 .. Len(t) PROVE t[i] \in ToSet(u)
  <2> DEFINE k == i + Len(s)
  <2>1. k \in 1 .. Len(s) + Len(t) /\ ~(k <= Len(s)) /\ k - Len(s) = i
    BY <1>1
  <2> HIDE DEF k
  <2>2. k \in 1 .. Len(u) /\ u[k] = t[i]
    BY <1>1, <2>1
  <2>3. ToSet(u) = {u[j] : j \in 1 .. Len(u)}
    <3>1. u \in Seq(X)
      BY <1>1
    <3>2. QED
      BY <3>1, Elements
  <2>4. QED
    BY <2>2, <2>3
<1>5. ToSet(s) \cup ToSet(t) \subseteq ToSet(u)
  BY <1>3, <1>4, Elements
<1>6. QED
  BY <1>2, <1>5 DEF u

LEMMA ElementsOfFlat ==
  ASSUME NEW X, NEW f \in Seq(Seq(X))
  PROVE  ToSet(FlattenSeq(f)) = UNION {ToSet(f[i]) : i \in 1 .. Len(f)}
<1>1. PICK F \in [0 .. Len(f) -> Seq(X)] : Concatenates(F, f) /\ FlattenSeq(f) = F[Len(f)]
  BY Flattened
<1>2. F[0] = <<>> /\ \A i \in 1 .. Len(f) : F[i] = F[i - 1] \o f[i]
  BY <1>1 DEF Concatenates
<1>3. Len(f) \in Nat /\ \A i \in 1 .. Len(f) : f[i] \in Seq(X)
  BY LenProperties, ElementOfSeq
<1> DEFINE I == {m \in Nat : m <= Len(f) => ToSet(F[m]) = UNION {ToSet(f[i]) : i \in 1 .. m}}
<1>4. 0 \in I
  <2>1. ToSet(F[0]) = {}
    BY <1>2 DEF ToSet
  <2>2. QED
    BY <2>1
<1>5. ASSUME NEW m \in Nat, m \in I PROVE m + 1 \in I
  <2>1. SUFFICES ASSUME m + 1 <= Len(f)
                 PROVE  ToSet(F[m + 1]) = UNION {ToSet(f[i]) : i \in 1 .. m + 1}
    OBVIOUS
  <2>2. m + 1 \in 1 .. Len(f) /\ m \in 0 .. Len(f) /\ (m + 1) - 1 = m
    BY <1>3, <2>1
  <2>3. F[m + 1] = F[m] \o f[m + 1]
    BY <1>2, <2>2
  <2>4. F[m] \in Seq(X) /\ f[m + 1] \in Seq(X)
    BY <1>1, <1>3, <2>2
  <2>5. ToSet(F[m + 1]) = ToSet(F[m]) \cup ToSet(f[m + 1])
    BY <2>3, <2>4, ElementsOfConcat
  <2>6. ToSet(F[m]) = UNION {ToSet(f[i]) : i \in 1 .. m}
    BY <1>5, <2>1, <2>2
  <2>7. 1 .. m + 1 = 1 .. m \cup {m + 1}
    OBVIOUS
  <2>8. UNION {ToSet(f[i]) : i \in 1 .. m + 1} = UNION {ToSet(f[i]) : i \in 1 .. m} \cup ToSet(f[m + 1])
    BY <2>7
  <2>9. QED
    BY <2>5, <2>6, <2>8
<1> HIDE DEF I
<1>6. Len(f) \in I
  BY <1>3, <1>4, <1>5, SetInduction
<1>7. QED
  BY <1>1, <1>3, <1>6 DEF I

(* How many elements of s are in P.                                         *)
CountIn(s, P) == Cardinality({i \in DOMAIN s : s[i] \in P})

LEMMA CountType ==
  ASSUME NEW X, NEW s \in Seq(X), NEW P
  PROVE  /\ IsFiniteSet({i \in DOMAIN s : s[i] \in P}) /\ CountIn(s, P) \in 0 .. Len(s)
         /\ DOMAIN s = 1 .. Len(s) /\ Len(s) \in Nat
<1>1. DOMAIN s = 1 .. Len(s) /\ Len(s) \in Nat
  OBVIOUS
<1>2. IsFiniteSet(1 .. Len(s)) /\ Cardinality(1 .. Len(s)) = Len(s)
  <2>1. Cardinality(1 .. Len(s)) = IF 1 > Len(s) THEN 0 ELSE Len(s) - 1 + 1
    BY <1>1, FS_Interval
  <2>2. QED
    BY <1>1, <2>1, FS_Interval
<1>3. {i \in DOMAIN s : s[i] \in P} \in SUBSET (1 .. Len(s))
  BY <1>1
<1> DEFINE A == {i \in DOMAIN s : s[i] \in P}
           B == 1 .. Len(s)
<1> HIDE DEF A
<1>4. IsFiniteSet(A) /\ Cardinality(A) <= Cardinality(B) /\ Cardinality(A) \in Nat
  <2> HIDE DEF B
  <2>1. A \in SUBSET B /\ IsFiniteSet(B)
    BY <1>2, <1>3 DEF A, B
  <2>2. QED
    BY <2>1, FS_Subset, FS_CardinalityType
<1>5. QED
  BY <1>1, <1>2, <1>4 DEF A, CountIn

(* A bijection between the places of two sequences at which they have       *)
(* elements of P.                                                           *)
LEMMA CountMoved ==
  ASSUME NEW A, NEW B, IsFiniteSet(A),
         NEW m \in [A -> B], \A b \in B : \E a \in A : m[a] = b,
         \A a, b \in A : m[a] = m[b] => a = b
  PROVE  IsFiniteSet(B) /\ Cardinality(B) = Cardinality(A)
<1>1. m \in Bijection(A, B)
  BY DEF Bijection, Injection, Surjection, IsInjective
<1>2. QED
  BY <1>1, FS_Bijection DEF ExistsBijection

LEMMA CountNothing ==
  ASSUME NEW P
  PROVE  CountIn(<<>>, P) = 0
<1>1. {i \in DOMAIN <<>> : <<>>[i] \in P} = {}
  OBVIOUS
<1>2. QED
  BY <1>1, FS_EmptySet DEF CountIn

LEMMA CountConcat ==
  ASSUME NEW X, NEW s \in Seq(X), NEW t \in Seq(X), NEW P
  PROVE  CountIn(s \o t, P) = CountIn(s, P) + CountIn(t, P)
<1> DEFINE u == s \o t
           n == Len(s)
           A == {i \in DOMAIN s : s[i] \in P}
           B == {i \in DOMAIN t : t[i] \in P}
           C == {i \in DOMAIN u : u[i] \in P}
           D == {i + n : i \in B}
           m == [i \in B |-> i + n]
<1>1. /\ u \in Seq(X) /\ Len(u) = n + Len(t) /\ n \in Nat /\ Len(t) \in Nat
      /\ \A i \in 1 .. n + Len(t) : u[i] = IF i <= n THEN s[i] ELSE t[i - n]
      /\ DOMAIN s = 1 .. n /\ DOMAIN t = 1 .. Len(t) /\ DOMAIN u = 1 .. Len(u)
  BY ConcatProperties, LenProperties
<1> HIDE DEF u, n
<1>2. /\ \A i : i \in A <=> i \in 1 .. n /\ s[i] \in P
      /\ \A i : i \in B <=> i \in 1 .. Len(t) /\ t[i] \in P
      /\ \A i : i \in C <=> i \in 1 .. n + Len(t) /\ u[i] \in P
  BY <1>1
<1>3. /\ IsFiniteSet(A) /\ Cardinality(A) \in Nat /\ IsFiniteSet(B) /\ Cardinality(B) \in Nat
  <2>1. IsFiniteSet(A) /\ IsFiniteSet(B)
    BY CountType
  <2>2. QED
    BY <2>1, FS_CardinalityType
<1>4. D \cap A = {} /\ C = A \cup D
  <2>1. ASSUME NEW i \in A PROVE i \in C /\ i \notin D
    <3>1. i \in 1 .. n /\ s[i] \in P
      BY <1>2
    <3>2. i \in 1 .. n + Len(t) /\ u[i] = s[i]
      BY <1>1, <3>1
    <3>3. ASSUME NEW j \in B PROVE j + n # i
      <4>1. j \in 1 .. Len(t)
        BY <1>2
      <4>2. QED
        BY <1>1, <3>1, <4>1
    <3>4. QED
      BY <1>2, <3>1, <3>2, <3>3
  <2>2. ASSUME NEW j \in B PROVE j + n \in C
    <3> DEFINE k == j + n
    <3>1. j \in 1 .. Len(t) /\ t[j] \in P
      BY <1>2
    <3>2. k \in 1 .. n + Len(t) /\ ~(k <= n) /\ k - n = j
      BY <1>1, <3>1
    <3> HIDE DEF k
    <3>3. u[k] = t[j]
      BY <1>1, <3>2
    <3>4. QED
      BY <1>2, <3>1, <3>2, <3>3 DEF k
  <2>3. ASSUME NEW i \in C, i \notin A PROVE i \in D
    <3>1. i \in 1 .. n + Len(t) /\ u[i] \in P
      BY <1>2
    <3>2. ~(i <= n)
      <4>1. SUFFICES ASSUME i <= n PROVE FALSE
        OBVIOUS
      <4>2. i \in 1 .. n /\ u[i] = s[i]
        BY <1>1, <3>1, <4>1
      <4>3. QED
        BY <1>2, <2>3, <3>1, <4>2
    <3>3. i - n \in 1 .. Len(t) /\ u[i] = t[i - n] /\ (i - n) + n = i
      BY <1>1, <3>1, <3>2
    <3>4. i - n \in B
      BY <1>2, <3>1, <3>3
    <3>5. QED
      BY <3>3, <3>4
  <2> HIDE DEF A, B, C
  <2>4. QED
    BY <2>1, <2>2, <2>3
<1>5. IsFiniteSet(D) /\ Cardinality(D) = Cardinality(B)
  <2>1. \A i \in B : i \in Nat
    BY <1>2
  <2> HIDE DEF B
  <2>2. m \in [B -> D] /\ \A d \in D : \E i \in B : m[i] = d
    OBVIOUS
  <2>3. \A i, j \in B : m[i] = m[j] => i = j
    BY <1>1, <2>1
  <2> HIDE DEF m, D
  <2>4. QED
    BY <1>3, <2>2, <2>3, CountMoved
<1> HIDE DEF A, B, C, D, m
<1>6. Cardinality(A \cup D) = Cardinality(A) + Cardinality(D) - Cardinality(A \cap D) /\ Cardinality(A \cap D) = 0
  BY <1>3, <1>4, <1>5, FS_Union, FS_EmptySet
<1>7. Cardinality(C) = Cardinality(A) + Cardinality(B)
  BY <1>3, <1>4, <1>5, <1>6
<1>8. QED
  BY <1>7 DEF A, B, C, CountIn, u

(* Putting the elements in another order leaves them all.                   *)
LEMMA CountPermuted ==
  ASSUME NEW X, NEW s \in Seq(X), NEW o, Enumerates(o, Len(s), 1 .. Len(s)), NEW P
  PROVE  CountIn([i \in 1 .. Len(s) |-> s[o[i]]], P) = CountIn(s, P)
<1> DEFINE n == Len(s)
           u == [i \in 1 .. n |-> s[o[i]]]
           A == {i \in DOMAIN u : u[i] \in P}
           B == {i \in DOMAIN s : s[i] \in P}
           m == [i \in A |-> o[i]]
<1>1. n \in Nat /\ DOMAIN s = 1 .. n /\ DOMAIN u = 1 .. n
  BY LenProperties
<1>2. /\ o \in [1 .. n -> 1 .. n]
      /\ \A x \in 1 .. n : \E i \in 1 .. n : o[i] = x
      /\ \A i, j \in 1 .. n : o[i] = o[j] => i = j
  BY DEF Enumerates
<1>3. /\ \A i : i \in A <=> i \in 1 .. n /\ s[o[i]] \in P
      /\ \A i : i \in B <=> i \in 1 .. n /\ s[i] \in P
  BY <1>1
<1>4. A \in SUBSET (1 .. n) /\ IsFiniteSet(1 .. n)
  BY <1>1, FS_Interval
<1> HIDE DEF A, B, n
<1>5. IsFiniteSet(A)
  BY <1>4, FS_Subset
<1>6. m \in [A -> B] /\ (\A b \in B : \E a \in A : m[a] = b) /\ \A a, b \in A : m[a] = m[b] => a = b
  BY <1>2, <1>3
<1> HIDE DEF m
<1>7. Cardinality(B) = Cardinality(A)
  BY <1>5, <1>6, CountMoved
<1>8. QED
  BY <1>7 DEF A, B, n, u, CountIn

LEMMA CountOne ==
  ASSUME NEW X, NEW x \in X, NEW P
  PROVE  CountIn(<<x>>, P) = IF x \in P THEN 1 ELSE 0
<1> DEFINE A == {i \in DOMAIN <<x>> : <<x>>[i] \in P}
<1>1. DOMAIN <<x>> = {1} /\ <<x>>[1] = x
  OBVIOUS
<1>2. CASE x \in P
  <2>1. A = {1}
    BY <1>1, <1>2
  <2>2. QED
    BY <1>2, <2>1, FS_Singleton DEF CountIn
<1>3. CASE x \notin P
  <2>1. A = {}
    BY <1>1, <1>3
  <2>2. QED
    BY <1>3, <2>1, FS_EmptySet DEF CountIn
<1>4. QED
  BY <1>2, <1>3

LEMMA CountAppend ==
  ASSUME NEW X, NEW s \in Seq(X), NEW x \in X, NEW P
  PROVE  CountIn(Append(s, x), P) = CountIn(s, P) + IF x \in P THEN 1 ELSE 0
<1>1. Append(s, x) = s \o <<x>> /\ <<x>> \in Seq(X)
  BY AppendIsConcat
<1>2. CountIn(s \o <<x>>, P) = CountIn(s, P) + CountIn(<<x>>, P)
  BY <1>1, CountConcat
<1>3. QED
  BY <1>1, <1>2, CountOne

(* What is kept is as often there as before.                                *)
LEMMA CountKept ==
  ASSUME NEW X, NEW s \in Seq(X), NEW S, NEW P
  PROVE  CountIn(Kept(s, S), P) = CountIn(s, S \cap P)
<1> DEFINE K == KeptUpTo(s, S)
           first(m) == SubSeq(s, 1, m)
           I == {m \in Nat : m <= Len(s) => CountIn(K[m], P) = CountIn(first(m), S \cap P)}
<1>1. Len(s) \in Nat /\ \A i \in 1 .. Len(s) : s[i] \in X
  OBVIOUS
<1>2. K[0] = <<>> /\ \A m \in 0 .. Len(s) : K[m] \in Seq(X \cap S)
  BY KeptUpToType
<1>3. 0 \in I
  <2>1. first(0) = <<>>
    BY SubSeqEmpty
  <2>2. QED
    BY <1>2, <2>1, CountNothing
<1>4. ASSUME NEW m \in Nat, m \in I PROVE m + 1 \in I
  <2>1. SUFFICES ASSUME m + 1 <= Len(s)
                 PROVE  CountIn(K[m + 1], P) = CountIn(first(m + 1), S \cap P)
    OBVIOUS
  <2>2. m + 1 \in 1 .. Len(s) /\ m \in 0 .. Len(s) /\ (m + 1) - 1 = m /\ 1 \in 1 .. Len(s) /\ m + 1 \in 1 .. Len(s)
    BY <1>1, <2>1
  <2>3. CountIn(K[m], P) = CountIn(first(m), S \cap P)
    BY <1>4, <2>2
  <2>4. s[m + 1] \in X /\ K[m] \in Seq(X \cap S)
    BY <1>1, <1>2, <2>2
  <2>5. K[m + 1] = IF s[m + 1] \in S THEN Append(K[m], s[m + 1]) ELSE K[m]
    BY <2>2, KeptUpToStep
  <2>6. first(m) \in Seq(X)
    <3>1. \A i \in 1 .. m : s[i] \in X
      BY <1>1, <2>2
    <3>2. QED
      BY <3>1, SubSeqProperties
  <2>7. first(m + 1) = Append(first(m), s[m + 1])
    <3>1. first(m + 1) = first((m + 1) - 1) \o <<s[m + 1]>>
      BY <2>2, SubSeqRecursiveSecond
    <3>2. QED
      BY <2>2, <2>4, <2>6, <3>1, AppendIsConcat
  <2>8. CountIn(first(m + 1), S \cap P)
          = CountIn(first(m), S \cap P) + IF s[m + 1] \in S \cap P THEN 1 ELSE 0
    <3> DEFINE a == first(m)
               x == s[m + 1]
               Q == S \cap P
    <3>1. a \in Seq(X) /\ x \in X /\ first(m + 1) = Append(a, x)
      BY <2>4, <2>6, <2>7
    <3>2. CountIn(Append(a, x), Q) = CountIn(a, Q) + IF x \in Q THEN 1 ELSE 0
      <4> HIDE DEF a, x, Q
      <4>1. QED
        BY <3>1, CountAppend
    <3> HIDE DEF first
    <3>3. QED
      BY <3>1, <3>2
  <2>9. CASE s[m + 1] \in S
    <3>1. s[m + 1] \in X \cap S
      BY <2>4, <2>9
    <3>2. CountIn(Append(K[m], s[m + 1]), P) = CountIn(K[m], P) + IF s[m + 1] \in P THEN 1 ELSE 0
      BY <2>4, <3>1, CountAppend
    <3>3. QED
      BY <2>3, <2>5, <2>8, <2>9, <3>2
  <2>10. CASE s[m + 1] \notin S
    <3> DEFINE a == first(m)
               Q == S \cap P
    <3>1. a \in Seq(X)
      BY <2>6
    <3>2. CountIn(a, Q) \in Nat
      <4> HIDE DEF a, Q
      <4>1. CountIn(a, Q) \in 0 .. Len(a) /\ Len(a) \in Nat
        BY <3>1, CountType
      <4>2. QED
        BY <4>1
    <3>3. CountIn(first(m), S \cap P) \in Nat
      BY <3>2
    <3> HIDE DEF first, a
    <3>4. QED
      BY <2>3, <2>5, <2>8, <2>10, <3>3
  <2>11. QED
    BY <2>9, <2>10
<1> HIDE DEF I
<1>5. Len(s) \in I
  BY <1>1, <1>3, <1>4, SetInduction
<1>6. first(Len(s)) = s
  BY SubSeqFull
<1>7. CountIn(K[Len(s)], P) = CountIn(first(Len(s)), S \cap P)
  <2> HIDE DEF K, first
  <2>1. QED
    BY <1>1, <1>5 DEF I
<1>8. QED
  BY <1>6, <1>7 DEF Kept

(* Sequences that contain everything as often, one by one, do so when they  *)
(* are concatenated.                                                        *)
LEMMA CountFlat ==
  ASSUME NEW X, NEW f \in Seq(Seq(X)), NEW g \in Seq(Seq(X)), Len(f) = Len(g), NEW P,
         \A i \in 1 .. Len(f) : CountIn(f[i], P) = CountIn(g[i], P)
  PROVE  CountIn(FlattenSeq(f), P) = CountIn(FlattenSeq(g), P)
<1>1. PICK F \in [0 .. Len(f) -> Seq(X)] : Concatenates(F, f) /\ FlattenSeq(f) = F[Len(f)]
  BY Flattened
<1>2. PICK G \in [0 .. Len(f) -> Seq(X)] : Concatenates(G, g) /\ FlattenSeq(g) = G[Len(f)]
  BY Flattened
<1>3. /\ F[0] = <<>> /\ \A i \in 1 .. Len(f) : F[i] = F[i - 1] \o f[i]
      /\ G[0] = <<>> /\ \A i \in 1 .. Len(f) : G[i] = G[i - 1] \o g[i]
  BY <1>1, <1>2 DEF Concatenates
<1>4. Len(f) \in Nat /\ \A i \in 1 .. Len(f) : f[i] \in Seq(X) /\ g[i] \in Seq(X)
  BY LenProperties, ElementOfSeq
<1> DEFINE I == {m \in Nat : m <= Len(f) => CountIn(F[m], P) = CountIn(G[m], P)}
<1>5. 0 \in I
  BY <1>3
<1>6. ASSUME NEW m \in Nat, m \in I PROVE m + 1 \in I
  <2>1. SUFFICES ASSUME m + 1 <= Len(f) PROVE CountIn(F[m + 1], P) = CountIn(G[m + 1], P)
    OBVIOUS
  <2>2. m + 1 \in 1 .. Len(f) /\ m \in 0 .. Len(f) /\ (m + 1) - 1 = m
    BY <1>4, <2>1
  <2>3. F[m + 1] = F[m] \o f[m + 1] /\ G[m + 1] = G[m] \o g[m + 1]
    BY <1>3, <2>2
  <2>4. F[m] \in Seq(X) /\ f[m + 1] \in Seq(X) /\ G[m] \in Seq(X) /\ g[m + 1] \in Seq(X)
    BY <1>1, <1>2, <1>4, <2>2
  <2>5. CountIn(F[m] \o f[m + 1], P) = CountIn(F[m], P) + CountIn(f[m + 1], P)
    BY <2>4, CountConcat
  <2>6. CountIn(G[m] \o g[m + 1], P) = CountIn(G[m], P) + CountIn(g[m + 1], P)
    BY <2>4, CountConcat
  <2>7. CountIn(F[m], P) = CountIn(G[m], P) /\ CountIn(f[m + 1], P) = CountIn(g[m + 1], P)
    BY <1>6, <2>2
  <2>8. QED
    BY <2>3, <2>5, <2>6, <2>7
<1> HIDE DEF I
<1>7. Len(f) \in I
  BY <1>4, <1>5, <1>6, SetInduction
<1>8. QED
  BY <1>1, <1>2, <1>4, <1>7 DEF I

(* The pieces between the bounds b are the whole.                           *)
LEMMA FlattenPieces ==
  ASSUME NEW X, NEW t \in Seq(X), NEW n \in Nat, NEW b \in [0 .. n -> 0 .. Len(t)],
         b[0] = 0, b[n] = Len(t), \A i \in 1 .. n : b[i - 1] <= b[i]
  PROVE  FlattenSeq([i \in 1 .. n |-> SubSeq(t, b[i - 1] + 1, b[i])]) = t
<1> DEFINE f == [i \in 1 .. n |-> SubSeq(t, b[i - 1] + 1, b[i])]
<1>1. Len(t) \in Nat /\ \A i \in 1 .. Len(t) : t[i] \in X
  OBVIOUS
<1>2. ASSUME NEW i \in 1 .. n PROVE f[i] \in Seq(X)
  <2>1. i - 1 \in 0 .. n /\ i \in 0 .. n
    OBVIOUS
  <2>2. b[i - 1] \in Int /\ b[i] \in Int /\ \A k \in b[i - 1] + 1 .. b[i] : t[k] \in X
    BY <1>1, <2>1
  <2>3. SubSeq(t, b[i - 1] + 1, b[i]) \in Seq(X)
    BY <2>2, SubSeqProperties
  <2>4. QED
    BY <2>3
<1>3. f \in Seq(Seq(X)) /\ Len(f) = n
  <2> DEFINE S == Seq(X)
  <2>1. f \in [1 .. n -> S]
    <3> HIDE DEF S
    <3>1. QED
      BY <1>2 DEF S
  <2> HIDE DEF f, S
  <2>2. f \in Seq(S) /\ Len(f) = n
    BY <2>1
  <2>3. QED
    BY <2>2 DEF S
<1>4. \A i \in 1 .. n : f[i] = SubSeq(t, b[i - 1] + 1, b[i])
  OBVIOUS
<1> HIDE DEF f
<1>5. PICK F \in [0 .. n -> Seq(X)] : Concatenates(F, f) /\ FlattenSeq(f) = F[n]
  BY <1>3, Flattened
<1>6. F[0] = <<>> /\ \A i \in 1 .. n : F[i] = F[i - 1] \o f[i]
  BY <1>3, <1>5 DEF Concatenates
<1> DEFINE I == {m \in Nat : m <= n => F[m] = SubSeq(t, 1, b[m])}
<1>7. 0 \in I
  <2>1. SubSeq(t, 1, 0) = <<>>
    BY SubSeqEmpty
  <2>2. QED
    BY <1>6, <2>1
<1>8. ASSUME NEW m \in Nat, m \in I PROVE m + 1 \in I
  <2>1. SUFFICES ASSUME m + 1 <= n PROVE F[m + 1] = SubSeq(t, 1, b[m + 1])
    OBVIOUS
  <2>2. m + 1 \in 1 .. n /\ m \in 0 .. n /\ m + 1 \in 0 .. n /\ (m + 1) - 1 = m
    BY <2>1
  <2>3. F[m + 1] = F[m] \o f[m + 1] /\ F[m] = SubSeq(t, 1, b[m]) /\ b[m] <= b[m + 1]
    <3>1. F[m + 1] = F[m] \o f[m + 1]
      BY <1>6, <2>2
    <3>2. F[m] = SubSeq(t, 1, b[m])
      BY <1>8, <2>2
    <3>3. b[(m + 1) - 1] <= b[m + 1]
      BY <2>2
    <3>4. QED
      BY <2>2, <3>1, <3>2, <3>3
  <2>4. f[m + 1] = SubSeq(t, b[m] + 1, b[m + 1])
    BY <1>4, <2>2
  <2>5. b[m] \in 0 .. Len(t) /\ b[m + 1] \in 0 .. Len(t)
    BY <2>2
  <2>6. 1 \in 1 .. Len(t) + 1 /\ b[m] \in 1 - 1 .. Len(t) /\ b[m + 1] \in b[m] .. Len(t)
    BY <1>1, <2>3, <2>5
  <2>7. SubSeq(t, 1, b[m]) \o SubSeq(t, b[m] + 1, b[m + 1]) = SubSeq(t, 1, b[m + 1])
    BY <2>6, ConcatAdjacentSubSeq
  <2>8. QED
    BY <2>3, <2>4, <2>7
<1> HIDE DEF I
<1>9. n \in I
  BY <1>7, <1>8, SetInduction
<1>10. SubSeq(t, 1, Len(t)) = t
  BY SubSeqFull
<1>11. F[n] = SubSeq(t, 1, b[n])
  BY <1>9 DEF I
<1>12. QED
  BY <1>5, <1>10, <1>11 DEF f

(* And the whole is cut into its pieces again where they end.               *)
LEMMA PiecesOfFlat ==
  ASSUME NEW X, NEW f \in Seq(Seq(X)), NEW b \in [0 .. Len(f) -> Nat],
         b[0] = 0, \A i \in 1 .. Len(f) : b[i] = b[i - 1] + Len(f[i]),
         NEW i \in 1 .. Len(f)
  PROVE  /\ SubSeq(FlattenSeq(f), b[i - 1] + 1, b[i]) = f[i]
         /\ Len(FlattenSeq(f)) = b[Len(f)] /\ b[i] <= b[Len(f)] /\ b[i - 1] <= b[i]
<1> DEFINE n == Len(f)
<1>1. PICK F \in [0 .. n -> Seq(X)] : Concatenates(F, f) /\ FlattenSeq(f) = F[n]
  BY Flattened
<1>2. F[0] = <<>> /\ \A j \in 1 .. n : F[j] = F[j - 1] \o f[j]
  BY <1>1 DEF Concatenates
<1>3. n \in Nat /\ i \in 1 .. n /\ \A j \in 1 .. n : f[j] \in Seq(X)
  BY LenProperties, ElementOfSeq
<1> HIDE DEF n
<1>4. ASSUME NEW j \in 1 .. n
      PROVE  /\ F[j] \in Seq(X) /\ F[j - 1] \in Seq(X) /\ f[j] \in Seq(X)
             /\ Len(F[j]) = Len(F[j - 1]) + Len(f[j])
             /\ \A k \in 1 .. Len(F[j - 1]) + Len(f[j]) :
                  F[j][k] = IF k <= Len(F[j - 1]) THEN F[j - 1][k] ELSE f[j][k - Len(F[j - 1])]
  <2>1. j \in 0 .. n /\ j - 1 \in 0 .. n
    BY <1>3
  <2>2. F[j] \in Seq(X) /\ F[j - 1] \in Seq(X) /\ f[j] \in Seq(X) /\ F[j] = F[j - 1] \o f[j]
    BY <1>2, <1>3, <2>1
  <2> DEFINE a == F[j - 1]
             c == f[j]
  <2>3. /\ Len(a \o c) = Len(a) + Len(c)
        /\ \A k \in 1 .. Len(a) + Len(c) : (a \o c)[k] = IF k <= Len(a) THEN a[k] ELSE c[k - Len(a)]
    <3>1. a \in Seq(X) /\ c \in Seq(X)
      BY <2>2
    <3> HIDE DEF a, c
    <3>2. QED
      BY <3>1, ConcatProperties
  <2>4. F[j] = a \o c
    BY <2>2
  <2> HIDE DEF a, c
  <2>5. /\ Len(F[j]) = Len(a) + Len(c)
        /\ \A k \in 1 .. Len(a) + Len(c) : F[j][k] = IF k <= Len(a) THEN a[k] ELSE c[k - Len(a)]
    BY <2>3, <2>4
  <2>6. QED
    BY <2>2, <2>5 DEF a, c
<1> DEFINE I == {m \in Nat : m <= n => Len(F[m]) = b[m]}
<1>5. ASSUME NEW m \in 0 .. n PROVE Len(F[m]) = b[m]
  <2>1. 0 \in I
    BY <1>2
  <2>2. ASSUME NEW j \in Nat, j \in I PROVE j + 1 \in I
    <3>1. SUFFICES ASSUME j + 1 <= n PROVE Len(F[j + 1]) = b[j + 1]
      OBVIOUS
    <3> DEFINE k == j + 1
    <3>2. k \in 1 .. n /\ k - 1 = j /\ j <= n
      BY <1>3, <3>1
    <3> HIDE DEF k
    <3>3. Len(F[j]) = b[j]
      BY <2>2, <3>2
    <3>4. b[k] = b[k - 1] + Len(f[k]) /\ Len(F[k]) = Len(F[k - 1]) + Len(f[k])
      BY <1>4, <3>2 DEF n
    <3>5. QED
      BY <3>2, <3>3, <3>4 DEF k
  <2> HIDE DEF I
  <2>3. \A j \in Nat : j \in I
    BY <2>1, <2>2, SetInduction
  <2>4. m \in I /\ m <= n
    BY <1>3, <2>3
  <2>5. QED
    BY <2>4 DEF I
<1> HIDE DEF I
<1> DEFINE J == {d \in Nat : i + d <= n => Begins(F[i], F[i + d])}
<1>6. 0 \in J
  <2>1. i + 0 = i /\ i \in 0 .. n
    BY <1>3
  <2>2. F[i] \in Seq(X)
    BY <2>1
  <2>3. Begins(F[i], F[i])
    BY <2>2 DEF Begins
  <2>4. QED
    BY <2>1, <2>3
<1>7. ASSUME NEW d \in Nat, d \in J PROVE d + 1 \in J
  <2>1. SUFFICES ASSUME i + (d + 1) <= n PROVE Begins(F[i], F[i + (d + 1)])
    OBVIOUS
  <2> DEFINE k == i + (d + 1)
  <2>2. k \in 1 .. n /\ k - 1 = i + d /\ i + d <= n /\ i \in 0 .. n
    BY <1>3, <2>1
  <2> HIDE DEF k
  <2>3. Begins(F[i], F[k - 1])
    BY <1>7, <2>2
  <2>4. /\ F[k] \in Seq(X) /\ F[k - 1] \in Seq(X) /\ F[i] \in Seq(X)
        /\ Len(F[k]) = Len(F[k - 1]) + Len(f[k]) /\ f[k] \in Seq(X)
        /\ \A j \in 1 .. Len(F[k - 1]) + Len(f[k]) :
             F[k][j] = IF j <= Len(F[k - 1]) THEN F[k - 1][j] ELSE f[k][j - Len(F[k - 1])]
    BY <1>4, <2>2
  <2>5. Len(F[k]) \in Nat /\ Len(F[k - 1]) \in Nat /\ Len(F[i]) \in Nat /\ Len(f[k]) \in Nat
    BY <2>4, LenProperties
  <2>6. Len(F[i]) <= Len(F[k - 1]) /\ \A j \in 1 .. Len(F[i]) : F[k - 1][j] = F[i][j]
    BY <2>3 DEF Begins
  <2>l. Len(F[k]) = Len(F[k - 1]) + Len(f[k])
    BY <2>4
  <2>m. Len(F[i]) <= Len(F[k - 1])
    BY <2>6
  <2>n. k \in Int
    BY <2>2
  <2>7. Len(F[i]) <= Len(F[k])
    <3> DEFINE x == Len(F[i])
               y == Len(F[k - 1])
               z == Len(F[k])
               w == Len(f[k])
    <3>1. z = y + w /\ x <= y /\ x \in Nat /\ y \in Nat /\ z \in Nat /\ w \in Nat
      BY <2>l, <2>m, <2>5
    <3> HIDE DEF x, y, z, w
    <3>2. x <= z
      BY <3>1
    <3>3. QED
      BY <3>2 DEF x, z
  <2>8. ASSUME NEW j \in 1 .. Len(F[i]) PROVE F[k][j] = F[i][j]
    <3>1. j \in 1 .. Len(F[k - 1]) + Len(f[k]) /\ j <= Len(F[k - 1])
      <4> DEFINE x == Len(F[i])
                 y == Len(F[k - 1])
                 w == Len(f[k])
      <4>1. j \in 1 .. x /\ x <= y /\ x \in Nat /\ y \in Nat /\ w \in Nat
        BY <2>m, <2>5
      <4> HIDE DEF x, y, w
      <4>2. j \in 1 .. y + w /\ j <= y
        BY <4>1
      <4>3. QED
        BY <4>2 DEF y, w
    <3>2. F[k][j] = F[k - 1][j]
      BY <2>4, <3>1
    <3>3. QED
      BY <2>6, <3>2
  <2>9. QED
    BY <2>7, <2>8 DEF Begins, k
<1> HIDE DEF J
<1>8. Begins(F[i], F[n])
  <2>1. n - i \in Nat /\ i + (n - i) = n
    BY <1>3
  <2>2. n - i \in J
    BY <1>6, <1>7, <2>1, SetInduction
  <2>3. QED
    BY <2>1, <2>2 DEF J
<1>9. /\ i \in 0 .. n /\ i - 1 \in 0 .. n /\ n \in 0 .. n
  BY <1>3
<1>10. b[i - 1] \in Nat /\ b[i] \in Nat /\ b[n] \in Nat /\ b[i] = b[i - 1] + Len(f[i])
  BY <1>3, <1>9 DEF n
<1>11. Len(F[i]) = b[i] /\ Len(F[i - 1]) = b[i - 1] /\ Len(F[n]) = b[n]
  BY <1>5, <1>9
<1>12. b[i] <= b[n] /\ Len(f[i]) \in Nat /\ f[i] \in Seq(X) /\ F[n] \in Seq(X)
  BY <1>3, <1>8, <1>9, <1>11, LenProperties DEF Begins
<1>13. ASSUME NEW k \in 1 .. Len(f[i]) PROVE F[n][b[i - 1] + k] = f[i][k]
  <2> DEFINE j == b[i - 1] + k
  <2>1. j \in 1 .. b[i] /\ ~(j <= b[i - 1]) /\ j - b[i - 1] = k
    <3> DEFINE x == b[i - 1]
               y == Len(f[i])
               z == b[i]
    <3>1. x \in Nat /\ y \in Nat /\ z = x + y /\ k \in 1 .. y
      BY <1>10, <1>12
    <3> HIDE DEF x, y, z
    <3>2. x + k \in 1 .. z /\ ~(x + k <= x) /\ (x + k) - x = k
      BY <3>1
    <3>3. QED
      BY <3>2 DEF x, z
  <2> HIDE DEF j
  <2>2. F[n][j] = F[i][j]
    BY <1>8, <1>11, <2>1 DEF Begins
  <2>3. F[i][j] = f[i][j - b[i - 1]]
    BY <1>3, <1>4, <1>10, <1>11, <2>1
  <2>4. QED
    BY <2>1, <2>2, <2>3 DEF j
<1> DEFINE s == SubSeq(F[n], b[i - 1] + 1, b[i])
           lo == b[i - 1] + 1
           hi == b[i]
<1>14. s \in Seq(X) /\ Len(s) = Len(f[i]) /\ \A k \in 1 .. Len(f[i]) : s[k] = f[i][k]
  <2>1. lo \in Int /\ hi \in Int /\ hi - lo + 1 = Len(f[i]) /\ hi <= b[n] /\ lo >= 1
    BY <1>10, <1>12
  <2>2. \A k \in lo .. hi : F[n][k] \in X
    <3>1. \A k \in 1 .. Len(F[n]) : F[n][k] \in X
      BY <1>12, ElementOfSeq
    <3>2. Len(F[n]) = b[n] /\ b[n] \in Nat
      BY <1>10, <1>11
    <3> HIDE DEF lo, hi
    <3>3. \A k \in lo .. hi : k \in 1 .. Len(F[n])
      BY <2>1, <3>2
    <3>4. QED
      BY <3>1, <3>3
  <2> DEFINE u == SubSeq(F[n], lo, hi)
  <2>3. /\ u \in Seq(X) /\ Len(u) = IF lo <= hi THEN hi - lo + 1 ELSE 0
        /\ \A k \in 1 .. hi - lo + 1 : u[k] = F[n][lo + k - 1]
    <3> HIDE DEF lo, hi
    <3>1. QED
      BY <2>1, <2>2, SubSeqProperties
  <2>4. Len(u) = Len(f[i])
    <3> HIDE DEF u, lo, hi
    <3>1. QED
      BY <1>12, <2>1, <2>3
  <2>5. ASSUME NEW k \in 1 .. Len(f[i]) PROVE u[k] = f[i][k]
    <3>1. lo + k - 1 = b[i - 1] + k
      BY <1>10
    <3>2. u[k] = F[n][lo + k - 1]
      <4> HIDE DEF u, lo, hi
      <4>1. QED
        BY <2>1, <2>3
    <3> HIDE DEF u, lo
    <3>3. QED
      BY <1>13, <3>1, <3>2
  <2> HIDE DEF u
  <2>6. QED
    BY <2>3, <2>4, <2>5 DEF u
<1> HIDE DEF s
<1>15. s = f[i]
  BY <1>12, <1>14, SeqEqual
<1>16. b[i - 1] <= b[i]
  BY <1>10, <1>12
<1>17. QED
  BY <1>1, <1>11, <1>12, <1>15, <1>16 DEF s, n

LEMMA CountSplit ==
  ASSUME NEW X, NEW s \in Seq(X), NEW P, NEW Q, P \cap Q = {}
  PROVE  CountIn(s, P \cup Q) = CountIn(s, P) + CountIn(s, Q)
<1> DEFINE A == {i \in DOMAIN s : s[i] \in P}
           B == {i \in DOMAIN s : s[i] \in Q}
           C == {i \in DOMAIN s : s[i] \in P \cup Q}
<1>1. IsFiniteSet(A) /\ IsFiniteSet(B)
  BY CountType
<1>2. C = A \cup B /\ A \cap B = {}
  OBVIOUS
<1> HIDE DEF A, B, C
<1>3. Cardinality(A \cap B) = 0
  BY <1>2, FS_EmptySet
<1>4. /\ Cardinality(A \cup B) = Cardinality(A) + Cardinality(B) - Cardinality(A \cap B)
      /\ Cardinality(A) \in Nat /\ Cardinality(B) \in Nat
  BY <1>1, FS_Union, FS_CardinalityType
<1>5. Cardinality(C) = Cardinality(A) + Cardinality(B)
  BY <1>2, <1>3, <1>4
<1>6. QED
  BY <1>5 DEF A, B, C, CountIn

(* Every element is counted in a set that has them all, and so is only      *)
(* what matters of the set.                                                 *)
LEMMA CountAll ==
  ASSUME NEW X, NEW s \in Seq(X), NEW P, X \subseteq P
  PROVE  CountIn(s, P) = Len(s)
<1>1. DOMAIN s = 1 .. Len(s) /\ Len(s) \in Nat /\ \A i \in 1 .. Len(s) : s[i] \in X
  BY LenProperties, ElementOfSeq
<1>2. {i \in DOMAIN s : s[i] \in P} = 1 .. Len(s)
  BY <1>1
<1>3. Cardinality(1 .. Len(s)) = Len(s)
  <2>1. Cardinality(1 .. Len(s)) = IF 1 > Len(s) THEN 0 ELSE Len(s) - 1 + 1
    BY <1>1, FS_Interval
  <2>2. QED
    BY <1>1, <2>1
<1>4. QED
  BY <1>2, <1>3 DEF CountIn

LEMMA CountWithin ==
  ASSUME NEW X, NEW s \in Seq(X), NEW P, NEW Q, \A x \in X : x \in P <=> x \in Q
  PROVE  CountIn(s, P) = CountIn(s, Q)
<1>1. DOMAIN s = 1 .. Len(s) /\ \A i \in 1 .. Len(s) : s[i] \in X
  BY LenProperties, ElementOfSeq
<1>2. {i \in DOMAIN s : s[i] \in P} = {i \in DOMAIN s : s[i] \in Q}
  BY <1>1
<1>3. QED
  BY <1>2 DEF CountIn
-----------------------------------------------------------------------------
LEMMA FlattenTwo ==
  ASSUME NEW X, NEW s \in Seq(X), NEW t \in Seq(X)
  PROVE  FlattenSeq(<<s, t>>) = s \o t
<1> DEFINE f == <<s, t>>
           Y == Seq(X)
<1>1. f \in Seq(Y) /\ Len(f) = 2 /\ f[1] = s /\ f[2] = t
  <2>1. s \in Y /\ t \in Y
    OBVIOUS
  <2> HIDE DEF Y
  <2>2. QED
    BY <2>1
<1> HIDE DEF f, Y
<1>2. PICK F \in [0 .. Len(f) -> Seq(X)] : Concatenates(F, f) /\ FlattenSeq(f) = F[Len(f)]
  BY <1>1, Flattened DEF Y
<1>3. F[0] = <<>> /\ F[1] = F[0] \o f[1] /\ F[2] = F[1] \o f[2]
  <2>1. 1 \in 1 .. Len(f) /\ 2 \in 1 .. Len(f) /\ 1 - 1 = 0 /\ 2 - 1 = 1
    BY <1>1
  <2>2. \A i \in 1 .. Len(f) : F[i] = F[i - 1] \o f[i]
    BY <1>2 DEF Concatenates
  <2>3. F[1] = F[1 - 1] \o f[1] /\ F[2] = F[2 - 1] \o f[2]
    BY <2>1, <2>2
  <2>4. QED
    BY <1>2, <2>1, <2>3 DEF Concatenates
<1>4. <<>> \o s = s
  BY ConcatEmptySeq
<1>5. QED
  BY <1>1, <1>2, <1>3, <1>4 DEF f

(* Integers below a bound that are some have a greatest.                    *)
LEMMA Greatest ==
  ASSUME NEW a \in Int, NEW b \in Int, NEW S \in SUBSET (a .. b), S # {}
  PROVE  \E i \in S : \A j \in S : j <= i
<1>1. SUFFICES ASSUME \A i \in S : \E j \in S : j > i PROVE FALSE
  <2>1. \A i, j \in S : ~(j <= i) => j > i
    OBVIOUS
  <2>2. QED
    BY <2>1
<1> DEFINE I == {m \in Nat : \A i \in S : i <= b - m}
<1>2. 0 \in I
  OBVIOUS
<1>3. ASSUME NEW m \in Nat, m \in I PROVE m + 1 \in I
  <2>1. ASSUME NEW i \in S PROVE i <= b - (m + 1)
    <3>1. PICK j \in S : j > i
      BY <1>1
    <3>2. i \in Int /\ j \in Int /\ j <= b - m
      BY <1>3
    <3>3. QED
      BY <3>1, <3>2
  <2>2. QED
    BY <2>1
<1> HIDE DEF I
<1>4. PICK i \in S : TRUE
  OBVIOUS
<1>5. b - i + 1 \in Nat
  BY <1>4
<1>6. b - i + 1 \in I
  BY <1>2, <1>3, <1>5, SetInduction
<1>7. i <= b - (b - i + 1) /\ i \in Int
  BY <1>4, <1>6 DEF I
<1>8. QED
  BY <1>7

(* A list that has every element, each after those before it, is the one in *)
(* order.                                                                   *)
LEMMA OnlyOrder ==
  ASSUME NEW S, NEW R, Orders(R, S), NEW n \in Nat, NEW o, Enumerates(o, n, S), Follows(o, n, R)
  PROVE  o = Ordered(S, R) /\ IsFiniteSet(S) /\ Cardinality(S) = n
<1> DEFINE Before(x) == {y \in S : <<y, x>> \in R}
           q == Ordered(S, R)
<1>1. /\ o \in [1 .. n -> S] /\ (\A x \in S : \E i \in 1 .. n : o[i] = x)
      /\ (\A i, j \in 1 .. n : o[i] = o[j] => i = j)
      /\ \A i, j \in 1 .. n : i < j => <<o[i], o[j]>> \in R
  BY DEF Enumerates, Follows
<1>2. ASSUME NEW m \in Nat PROVE IsFiniteSet(1 .. m) /\ Cardinality(1 .. m) = m
  <2>1. IsFiniteSet(1 .. m) /\ Cardinality(1 .. m) = IF 1 > m THEN 0 ELSE m - 1 + 1
    BY FS_Interval
  <2>2. QED
    BY <2>1
<1>3. IsFiniteSet(S) /\ Cardinality(S) = n
  BY <1>1, <1>2, CountMoved
<1>4. ASSUME NEW i \in 1 .. n PROVE Cardinality(Before(o[i])) = i - 1
  <2> DEFINE A == 1 .. i - 1
             B == Before(o[i])
             m == [j \in A |-> o[j]]
  <2>1. i - 1 \in Nat /\ \A j \in A : j \in 1 .. n /\ j < i
    OBVIOUS
  <2>2. m \in [A -> B]
    <3>1. \A j \in A : o[j] \in B
      BY <1>1, <2>1
    <3> HIDE DEF A, B
    <3>2. QED
      BY <3>1
  <2>3. ASSUME NEW y \in B PROVE \E j \in A : m[j] = y
    <3>1. y \in S /\ <<y, o[i]>> \in R
      OBVIOUS
    <3>2. PICK j \in 1 .. n : o[j] = y
      BY <1>1, <3>1
    <3>3. j < i
      <4>1. SUFFICES ASSUME ~(j < i) PROVE FALSE
        OBVIOUS
      <4>2. j = i \/ i < j
        BY <4>1
      <4>3. <<o[i], o[i]>> \notin R /\ o[i] \in S
        BY <1>1 DEF Orders
      <4>4. i < j => <<o[i], y>> \in R
        BY <1>1, <3>2
      <4>5. ~(<<o[i], y>> \in R /\ <<y, o[i]>> \in R)
        BY <3>1, <4>3 DEF Orders
      <4>6. QED
        BY <3>1, <3>2, <4>2, <4>3, <4>4, <4>5
    <3>4. j \in A
      BY <3>3
    <3>5. m[j] = y
      BY <3>2, <3>4
    <3>6. QED
      BY <3>4, <3>5
  <2>4. \A x, y \in A : m[x] = m[y] => x = y
    BY <1>1, <2>1
  <2>5. IsFiniteSet(A) /\ Cardinality(A) = i - 1
    BY <1>2, <2>1
  <2> HIDE DEF A, B, m
  <2>6. Cardinality(B) = Cardinality(A)
    BY <2>2, <2>3, <2>4, <2>5, CountMoved
  <2>7. QED
    BY <2>5, <2>6 DEF B
<1>5. q = [i \in 1 .. n |-> CHOOSE x \in S : Cardinality(Before(x)) = i - 1]
  BY <1>3 DEF Ordered
<1>6. ASSUME NEW i \in 1 .. n PROVE q[i] = o[i]
  <2> HIDE DEF Before, q
  <2>1. o[i] \in S /\ Cardinality(Before(o[i])) = i - 1
    BY <1>1, <1>4
  <2>2. q[i] \in S /\ Cardinality(Before(q[i])) = i - 1
    BY <1>5, <2>1
  <2>3. SUFFICES ASSUME q[i] # o[i] PROVE FALSE
    OBVIOUS
  <2>4. <<q[i], o[i]>> \in R \/ <<o[i], q[i]>> \in R
    BY <2>1, <2>2, <2>3 DEF Orders
  <2>5. \A x, z \in S : <<x, z>> \in R => Cardinality(Before(x)) < Cardinality(Before(z))
    BY <1>3, RanksAreDistinct DEF Before
  <2>6. Cardinality(Before(q[i])) < Cardinality(Before(o[i]))
        \/ Cardinality(Before(o[i])) < Cardinality(Before(q[i]))
    BY <2>1, <2>2, <2>4, <2>5
  <2>7. QED
    BY <2>1, <2>2, <2>6
<1>7. o = q
  <2>1. o = [i \in 1 .. n |-> o[i]] /\ q = [i \in 1 .. n |-> q[i]]
    BY <1>1, <1>5
  <2> HIDE DEF q
  <2>2. QED
    BY <1>6, <2>1
<1>8. QED
  BY <1>3, <1>7

-----------------------------------------------------------------------------
(* Sums of numbers.                                                          *)

(* f[i] is the sum of the first i numbers of s.                             *)
Sums(f, s) == f[0] = 0 /\ \A i \in 1 .. Len(s) : f[i] = f[i - 1] + s[i]

LEMMA SumDefined ==
  ASSUME NEW s \in Seq(Int)
  PROVE  \E f \in [0 .. Len(s) -> Int] : Sums(f, s) /\ SumOf(s) = f[Len(s)]
<1> DEFINE n == Len(s)
           E(k, i) == IF i = 0 THEN 0 ELSE k[i - 1] + s[i]
           Def(k) == k = [i \in 0 .. Len(s) |-> E(k, i)]
           K == CHOOSE k : Def(k)
           step == [i \in 1 .. n |-> [x \in Int |-> x + s[i]]]
<1>1. n \in Nat /\ \A i \in 1 .. n : s[i] \in Int
  OBVIOUS
<1>2. step \in [1 .. n -> [Int -> Int]]
  BY <1>1
<1>3. PICK f \in [0 .. n -> Int] : Recursive(f, n, 0, step)
  <2> DEFINE b == 0
             X == Int
  <2>1. b \in X /\ step \in [1 .. n -> [X -> X]]
    BY <1>2
  <2> HIDE DEF step, n, b, X
  <2>2. \E f \in [0 .. n -> X] : Recursive(f, n, b, step)
    BY <1>1, <2>1, RecursionExists
  <2>3. QED
    BY <2>2 DEF b, X
<1>4. f[0] = 0 /\ \A i \in 1 .. n : f[i] = f[i - 1] + s[i]
  <2>1. ASSUME NEW i \in 1 .. n PROVE f[i] = f[i - 1] + s[i]
    <3>1. i - 1 \in 0 .. n
      BY <1>1
    <3>2. f[i] = step[i][f[i - 1]] /\ f[i - 1] \in Int
      <4> HIDE DEF step
      <4>1. QED
        BY <1>3, <3>1 DEF Recursive
    <3>3. QED
      BY <3>2
  <2>2. QED
    BY <1>3, <2>1 DEF Recursive
<1> HIDE DEF step
<1>5. Def(f)
  <2>1. ASSUME NEW i \in 0 .. n PROVE f[i] = E(f, i)
    <3>1. i # 0 => i \in 1 .. n
      BY <1>1
    <3>2. QED
      BY <1>4, <3>1
  <2> HIDE DEF E
  <2>2. QED
    BY <1>3, <2>1
<1>6. Def(K)
  <2> HIDE DEF Def
  <2>1. QED
    BY <1>5
<1>7. SumOf(s) = K[n]
  BY DEF SumOf
<1> HIDE DEF K
<1>a. K = [j \in 0 .. n |-> E(K, j)]
  BY <1>6
<1>8. ASSUME NEW i \in 0 .. n PROVE K[i] = E(K, i)
  <2> HIDE DEF E
  <2>1. QED
    BY <1>a
<1> DEFINE I == {m \in Nat : m <= n => K[m] \in Int}
<1>9. 0 \in I
  BY <1>1, <1>8
<1>10. ASSUME NEW m \in Nat, m \in I PROVE m + 1 \in I
  <2>1. SUFFICES ASSUME m + 1 <= n PROVE K[m + 1] \in Int
    OBVIOUS
  <2>2. m + 1 \in 0 .. n /\ m + 1 # 0 /\ (m + 1) - 1 = m /\ m <= n
    BY <1>1, <2>1
  <2>3. K[m + 1] = K[m] + s[m + 1]
    BY <1>8, <2>2
  <2>4. K[m] \in Int /\ s[m + 1] \in Int
    BY <1>1, <1>10, <2>2
  <2>5. QED
    BY <2>3, <2>4
<1>11. ASSUME NEW i \in 0 .. n PROVE K[i] \in Int
  <2>1. i \in Nat /\ i <= n
    BY <1>1
  <2> HIDE DEF I
  <2>2. i \in I
    BY <1>9, <1>10, <2>1, SetInduction
  <2>3. QED
    BY <2>1, <2>2 DEF I
<1>12. K \in [0 .. n -> Int]
  <2>1. DOMAIN K = 0 .. n /\ K = [j \in 0 .. n |-> K[j]]
    <3> HIDE DEF E
    <3>1. QED
      BY <1>a
  <2>2. QED
    BY <1>11, <2>1
<1>13. Sums(K, s)
  <2>1. K[0] = 0
    BY <1>1, <1>8
  <2>2. ASSUME NEW i \in 1 .. n PROVE K[i] = K[i - 1] + s[i]
    <3>1. i \in 0 .. n /\ i # 0
      BY <1>1
    <3>2. QED
      BY <1>8, <3>1
  <2>3. QED
    BY <2>1, <2>2 DEF Sums
<1>14. QED
  BY <1>7, <1>12, <1>13

(* What is added later changes no sum of the numbers before it.             *)
LEMMA SumsAgree ==
  ASSUME NEW s \in Seq(Int), NEW t \in Seq(Int), Begins(s, t),
         NEW f \in [0 .. Len(s) -> Int], Sums(f, s),
         NEW g \in [0 .. Len(t) -> Int], Sums(g, t)
  PROVE  g[Len(s)] = f[Len(s)]
<1> DEFINE I == {m \in Nat : m <= Len(s) => g[m] = f[m]}
<1>1. Len(s) \in Nat /\ Len(t) \in Nat /\ Len(s) <= Len(t)
      /\ \A k \in 1 .. Len(s) : t[k] = s[k] /\ s[k] \in Int
  BY DEF Begins
<1>2. 0 \in I
  BY <1>1 DEF Sums
<1>3. ASSUME NEW m \in Nat, m \in I PROVE m + 1 \in I
  <2>1. SUFFICES ASSUME m + 1 <= Len(s) PROVE g[m + 1] = f[m + 1]
    OBVIOUS
  <2>2. m + 1 \in 1 .. Len(s) /\ m + 1 \in 1 .. Len(t) /\ (m + 1) - 1 = m /\ m <= Len(s)
    BY <1>1, <2>1
  <2>3. f[m + 1] = f[m] + s[m + 1] /\ g[m + 1] = g[m] + t[m + 1]
    BY <2>2 DEF Sums
  <2>4. QED
    BY <1>1, <1>3, <2>2, <2>3
<1> HIDE DEF I
<1>4. Len(s) \in I
  BY <1>1, <1>2, <1>3, SetInduction
<1>5. QED
  BY <1>1, <1>4 DEF I

LEMMA SumNothing == SumOf(<<>>) = 0
<1> DEFINE s == <<>>
<1>1. s \in Seq(Int) /\ Len(s) = 0
  OBVIOUS
<1> HIDE DEF s
<1>2. PICK f \in [0 .. Len(s) -> Int] : Sums(f, s) /\ SumOf(s) = f[Len(s)]
  BY <1>1, SumDefined
<1>3. SumOf(s) = 0
  BY <1>1, <1>2 DEF Sums
<1>4. QED
  BY <1>3 DEF s

LEMMA SumAppend ==
  ASSUME NEW s \in Seq(Int), NEW x \in Int
  PROVE  SumOf(Append(s, x)) = SumOf(s) + x
<1> DEFINE t == Append(s, x)
           n == Len(s)
<1>1. /\ t \in Seq(Int) /\ n \in Nat /\ Len(t) = n + 1 /\ t[n + 1] = x
      /\ \A k \in 1 .. n : t[k] = s[k]
  OBVIOUS
<1> HIDE DEF t
<1>2. Begins(s, t)
  BY <1>1 DEF Begins
<1>3. PICK f \in [0 .. Len(s) -> Int] : Sums(f, s) /\ SumOf(s) = f[Len(s)]
  BY SumDefined
<1>4. PICK g \in [0 .. Len(t) -> Int] : Sums(g, t) /\ SumOf(t) = g[Len(t)]
  BY <1>1, SumDefined
<1>5. g[n] = f[n]
  BY <1>1, <1>2, <1>3, <1>4, SumsAgree
<1>6. g[n + 1] = g[n] + x
  <2>1. n + 1 \in 1 .. Len(t) /\ (n + 1) - 1 = n
    BY <1>1
  <2>2. QED
    BY <1>1, <1>4, <2>1 DEF Sums
<1>7. SumOf(t) = g[n + 1] /\ SumOf(s) = f[n]
  BY <1>1, <1>3, <1>4
<1>8. QED
  BY <1>5, <1>6, <1>7 DEF t

LEMMA SumIsInt ==
  ASSUME NEW s \in Seq(Int)
  PROVE  SumOf(s) \in Int
<1>1. PICK f \in [0 .. Len(s) -> Int] : Sums(f, s) /\ SumOf(s) = f[Len(s)]
  BY SumDefined
<1>2. QED
  BY <1>1

LEMMA SumOne ==
  ASSUME NEW x \in Int
  PROVE  SumOf(<<x>>) = x
<1> DEFINE e == <<>>
<1>1. e \in Seq(Int) /\ SumOf(e) = 0
  BY SumNothing
<1> DEFINE o == <<x>>
<1>2. o = Append(e, x)
  OBVIOUS
<1> HIDE DEF e, o
<1>3. SumOf(Append(e, x)) = SumOf(e) + x
  BY <1>1, SumAppend
<1>4. SumOf(o) = x
  BY <1>1, <1>2, <1>3
<1>5. QED
  BY <1>4 DEF o

(* A sequence that is not empty ends with an element.                       *)
EndsWith(s, n, X) == \E q \in Seq(X) : \E x \in X : Len(q) = n /\ s = Append(q, x)

LEMMA LastElement ==
  ASSUME NEW X, NEW s \in Seq(X), NEW n, n \in Nat, Len(s) = n + 1
  PROVE  EndsWith(s, n, X)
<1> DEFINE q == [i \in 1 .. n |-> s[i]]
           x == s[n + 1]
           u == Append(q, x)
<1>1. \A i \in 1 .. n + 1 : s[i] \in X
  OBVIOUS
<1>2. x \in X /\ q \in [1 .. n -> X]
  <2>1. n + 1 \in 1 .. n + 1 /\ \A i \in 1 .. n : i \in 1 .. n + 1
    OBVIOUS
  <2>2. QED
    BY <1>1, <2>1
<1> HIDE DEF x
<1>3. \A i \in 1 .. n : q[i] = s[i]
  OBVIOUS
<1> HIDE DEF q
<1>4. q \in Seq(X) /\ Len(q) = n
  BY <1>2
<1>5. /\ u \in Seq(X) /\ Len(u) = n + 1 /\ u[n + 1] = x
      /\ \A i \in 1 .. n : u[i] = q[i]
  BY <1>2, <1>4
<1> HIDE DEF u
<1>6. \A i \in 1 .. n + 1 : u[i] = s[i]
  <2>1. ASSUME NEW i \in 1 .. n + 1 PROVE u[i] = s[i]
    <3>1. CASE i = n + 1
      BY <1>5, <3>1 DEF x
    <3>2. CASE i # n + 1
      <4>1. i \in 1 .. n
        BY <3>2
      <4>2. QED
        BY <1>3, <1>5, <4>1
    <3>3. QED
      BY <3>1, <3>2
  <2>2. QED
    BY <2>1
<1>7. u = s
  <2>1. u = [i \in 1 .. n + 1 |-> u[i]] /\ s = [i \in 1 .. n + 1 |-> s[i]]
    BY <1>5
  <2>2. QED
    BY <1>6, <2>1
<1>8. QED
  BY <1>2, <1>4, <1>7 DEF u, EndsWith

LEMMA SumConcat ==
  ASSUME NEW s \in Seq(Int), NEW t \in Seq(Int)
  PROVE  SumOf(s \o t) = SumOf(s) + SumOf(t)
<1> DEFINE Adds(u) == SumOf(s \o u) = SumOf(s) + SumOf(u)
           I == {m \in Nat : \A u \in Seq(Int) : Len(u) = m => Adds(u)}
<1>1. 0 \in I
  <2>1. SUFFICES ASSUME NEW u \in Seq(Int), Len(u) = 0 PROVE Adds(u)
    OBVIOUS
  <2>2. u = <<>> /\ s \o <<>> = s
    BY <2>1, EmptySeq
  <2>3. QED
    BY <2>2, SumNothing, SumIsInt
<1>2. ASSUME NEW m \in Nat, m \in I PROVE m + 1 \in I
  <2>1. SUFFICES ASSUME NEW u \in Seq(Int), Len(u) = m + 1 PROVE Adds(u)
    OBVIOUS
  <2>a. PICK q \in Seq(Int) : \E x \in Int : Len(q) = m /\ u = Append(q, x)
    <3>1. EndsWith(u, m, Int)
      BY <2>1, LastElement
    <3>2. QED
      BY <3>1 DEF EndsWith
  <2>2. PICK x \in Int : Len(q) = m /\ u = Append(q, x)
    BY <2>a
  <2>3. Adds(q)
    BY <1>2, <2>2
  <2> DEFINE v == s \o q
  <2>4. v \in Seq(Int) /\ s \o u = Append(v, x)
    BY <2>2
  <2> HIDE DEF v
  <2>5. SumOf(Append(v, x)) = SumOf(v) + x /\ SumOf(u) = SumOf(q) + x
    BY <2>2, <2>4, SumAppend
  <2>6. SumOf(s) \in Int /\ SumOf(q) \in Int
    BY SumIsInt
  <2>7. QED
    BY <2>3, <2>4, <2>5, <2>6 DEF v
<1> HIDE DEF I, Adds
<1>3. Len(t) \in Nat
  OBVIOUS
<1>4. Len(t) \in I
  BY <1>1, <1>2, <1>3, SetInduction
<1>5. QED
  BY <1>4 DEF I, Adds

-----------------------------------------------------------------------------
(* Sequences with the same elements, in any order.                           *)

(* Sequences that have the same elements equally often.                     *)
SameCounts(s, t) == \A P : CountIn(s, P) = CountIn(t, P)

(* Around one of its elements a sequence has a part before and one after.   *)
Around(t, x, X) == \E a, b \in Seq(X) : t = Append(a, x) \o b

LEMMA AroundElement ==
  ASSUME NEW X, NEW t \in Seq(X), NEW j \in 1 .. Len(t)
  PROVE  Around(t, t[j], X)
<1> DEFINE n == Len(t)
           x == t[j]
           a == [i \in 1 .. j - 1 |-> t[i]]
           b == [i \in 1 .. n - j |-> t[j + i]]
           c == Append(a, x)
           u == c \o b
<1>1. n \in Nat /\ j \in Nat /\ 1 <= j /\ j <= n /\ \A i \in 1 .. n : t[i] \in X
  OBVIOUS
<1>2. j - 1 \in Nat /\ n - j \in Nat /\ x \in X
  BY <1>1
<1>3. a \in [1 .. j - 1 -> X] /\ b \in [1 .. n - j -> X]
  <2>1. \A i \in 1 .. j - 1 : i \in 1 .. n
    BY <1>1
  <2>2. \A i \in 1 .. n - j : j + i \in 1 .. n
    BY <1>1
  <2>3. QED
    BY <1>1, <2>1, <2>2
<1>4. (\A i \in 1 .. j - 1 : a[i] = t[i]) /\ (\A i \in 1 .. n - j : b[i] = t[j + i])
  OBVIOUS
<1> HIDE DEF a, b, x, n
<1>5. a \in Seq(X) /\ Len(a) = j - 1 /\ b \in Seq(X) /\ Len(b) = n - j
  BY <1>2, <1>3
<1>6. /\ c \in Seq(X) /\ Len(c) = j /\ c[j] = x
      /\ \A i \in 1 .. j - 1 : c[i] = a[i]
  BY <1>1, <1>2, <1>5
<1> HIDE DEF c
<1>7. u \in Seq(X) /\ Len(u) = n
      /\ \A i \in 1 .. n : u[i] = IF i <= j THEN c[i] ELSE b[i - j]
  <2>0. c \in Seq(X) /\ b \in Seq(X)
    BY <1>5, <1>6
  <2>1. u \in Seq(X) /\ Len(u) = Len(c) + Len(b)
        /\ \A i \in 1 .. Len(c) + Len(b) : u[i] = IF i <= Len(c) THEN c[i] ELSE b[i - Len(c)]
    BY <2>0
  <2>2. Len(c) = j /\ Len(c) + Len(b) = n
    BY <1>1, <1>2, <1>5, <1>6
  <2>3. QED
    BY <2>1, <2>2
<1> HIDE DEF u
<1>8. ASSUME NEW i \in 1 .. n PROVE u[i] = t[i]
  <2>1. CASE i < j
    <3>1. i \in 1 .. j - 1
      BY <1>1, <2>1
    <3>2. QED
      BY <1>1, <1>4, <1>6, <1>7, <2>1, <3>1
  <2>2. CASE i = j
    BY <1>1, <1>6, <1>7, <2>2 DEF x
  <2>3. CASE i > j
    <3>1. i - j \in 1 .. n - j /\ j + (i - j) = i
      BY <1>1, <2>3
    <3>2. u[i] = b[i - j]
      BY <1>1, <1>7, <2>3
    <3>3. QED
      BY <1>4, <3>1, <3>2
  <2>4. QED
    BY <1>1, <2>1, <2>2, <2>3
<1>9. u = t
  <2>1. u = [i \in 1 .. n |-> u[i]] /\ t = [i \in 1 .. n |-> t[i]]
    BY <1>7 DEF n
  <2>2. QED
    BY <1>8, <2>1
<1>10. QED
  BY <1>5, <1>9 DEF Around, u, c, x

(* Without that element there is one less of it.                            *)
LEMMA CountAround ==
  ASSUME NEW X, NEW x \in X, NEW a \in Seq(X), NEW b \in Seq(X), NEW P
  PROVE  CountIn(Append(a, x) \o b, P) = CountIn(a \o b, P) + IF x \in P THEN 1 ELSE 0
<1> DEFINE c == Append(a, x)
           one == IF x \in P THEN 1 ELSE 0
<1>1. c \in Seq(X)
  OBVIOUS
<1>2. CountIn(c, P) = CountIn(a, P) + one
  BY CountAppend
<1> HIDE DEF c
<1>3. CountIn(c \o b, P) = CountIn(c, P) + CountIn(b, P)
  BY <1>1, CountConcat
<1>4. CountIn(a \o b, P) = CountIn(a, P) + CountIn(b, P)
  BY CountConcat
<1>5. CountIn(a, P) \in Int /\ CountIn(b, P) \in Int /\ one \in Int
  <2>1. CountIn(a, P) \in 0 .. Len(a) /\ CountIn(b, P) \in 0 .. Len(b)
    BY CountType
  <2>2. QED
    BY <2>1
<1> HIDE DEF one
<1>6. CountIn(c \o b, P) = CountIn(a \o b, P) + one
  BY <1>2, <1>3, <1>4, <1>5
<1>7. QED
  BY <1>6 DEF c, one

LEMMA SumAround ==
  ASSUME NEW x \in Int, NEW a \in Seq(Int), NEW b \in Seq(Int)
  PROVE  SumOf(Append(a, x) \o b) = SumOf(a \o b) + x
<1> DEFINE c == Append(a, x)
<1>1. c \in Seq(Int)
  OBVIOUS
<1>2. SumOf(c) = SumOf(a) + x
  BY SumAppend
<1> HIDE DEF c
<1>3. SumOf(c \o b) = SumOf(c) + SumOf(b) /\ SumOf(a \o b) = SumOf(a) + SumOf(b)
  BY <1>1, SumConcat
<1>4. SumOf(a) \in Int /\ SumOf(b) \in Int
  BY SumIsInt
<1>5. QED
  BY <1>2, <1>3, <1>4 DEF c

(* Sequences that have every element as often as each other have as much of *)
(* everything, and the same sum.                                            *)
Alike(s, t, X) == \A r \in X : CountIn(s, {r}) = CountIn(t, {r})
AsMuch(s, t, X) == SameCounts(s, t) /\ (X = Int => SumOf(s) = SumOf(t))

LEMMA AlikeStep ==
  ASSUME NEW X, NEW n \in Nat,
         \A q, u \in Seq(X) : Len(q) = n /\ Alike(q, u, X) => AsMuch(q, u, X),
         NEW s \in Seq(X), NEW t \in Seq(X), Len(s) = n + 1, Alike(s, t, X)
  PROVE  AsMuch(s, t, X)
<1>1. EndsWith(s, n, X)
  BY LastElement
<1>2. PICK q \in Seq(X) : \E x \in X : Len(q) = n /\ s = Append(q, x)
  BY <1>1 DEF EndsWith
<1>3. PICK x \in X : Len(q) = n /\ s = Append(q, x)
  BY <1>2
<1>4. \A P : CountIn(s, P) = CountIn(q, P) + IF x \in P THEN 1 ELSE 0
  BY <1>3, CountAppend
<1>5. PICK j \in 1 .. Len(t) : t[j] = x
  <2>1. CountIn(q, {x}) \in Nat
    <3>1. CountIn(q, {x}) \in 0 .. Len(q)
      BY CountType
    <3>2. QED
      BY <3>1
  <2>2. CountIn(s, {x}) = CountIn(q, {x}) + 1
    BY <1>4
  <2>3. CountIn(t, {x}) # 0
    BY <2>1, <2>2 DEF Alike
  <2>4. ASSUME \A j \in 1 .. Len(t) : t[j] # x PROVE FALSE
    <3>1. {i \in DOMAIN t : t[i] \in {x}} = {}
      BY <2>4
    <3>2. CountIn(t, {x}) = 0
      BY <3>1, FS_EmptySet DEF CountIn
    <3>3. QED
      BY <2>3, <3>2
  <2>5. QED
    BY <2>4
<1>6. Around(t, x, X)
  BY <1>5, AroundElement
<1>7. PICK a \in Seq(X), b \in Seq(X) : t = Append(a, x) \o b
  BY <1>6 DEF Around
<1> DEFINE u == a \o b
<1>8. \A P : CountIn(t, P) = CountIn(u, P) + IF x \in P THEN 1 ELSE 0
  BY <1>7, CountAround
<1>9. u \in Seq(X)
  OBVIOUS
<1>10. X = Int => SumOf(t) = SumOf(u) + x /\ SumOf(s) = SumOf(q) + x
  <2>1. ASSUME X = Int PROVE SumOf(t) = SumOf(u) + x /\ SumOf(s) = SumOf(q) + x
    <3>1. x \in Int /\ a \in Seq(Int) /\ b \in Seq(Int) /\ q \in Seq(Int)
      BY <2>1
    <3>2. QED
      BY <1>3, <1>7, <3>1, SumAround, SumAppend
  <2>2. QED
    BY <2>1
<1> HIDE DEF u
<1>11. ASSUME NEW P PROVE CountIn(q, P) \in Int /\ CountIn(u, P) \in Int
  <2>1. CountIn(q, P) \in 0 .. Len(q) /\ CountIn(u, P) \in 0 .. Len(u)
    BY <1>9, CountType
  <2>2. QED
    BY <2>1
<1>12. ASSUME NEW P PROVE CountIn(s, P) = CountIn(t, P) <=> CountIn(q, P) = CountIn(u, P)
  <2> DEFINE one == IF x \in P THEN 1 ELSE 0
  <2>1. one \in Int /\ CountIn(s, P) = CountIn(q, P) + one /\ CountIn(t, P) = CountIn(u, P) + one
    BY <1>4, <1>8
  <2> HIDE DEF one
  <2>2. QED
    BY <1>11, <2>1
<1>13. Alike(q, u, X)
  BY <1>12 DEF Alike
<1>14. AsMuch(q, u, X)
  BY <1>3, <1>9, <1>13
<1>15. QED
  BY <1>10, <1>12, <1>14 DEF AsMuch, SameCounts

LEMMA AlikeIsAsMuch ==
  ASSUME NEW X, NEW s \in Seq(X), NEW t \in Seq(X), Alike(s, t, X)
  PROVE  AsMuch(s, t, X)
<1> DEFINE I == {m \in Nat : \A q, u \in Seq(X) : Len(q) = m /\ Alike(q, u, X) => AsMuch(q, u, X)}
<1>1. 0 \in I
  <2>1. SUFFICES ASSUME NEW q \in Seq(X), NEW u \in Seq(X), Len(q) = 0, Alike(q, u, X)
                 PROVE  AsMuch(q, u, X)
    OBVIOUS
  <2>2. q = <<>>
    BY <2>1, EmptySeq
  <2>3. u = <<>>
    <3>1. SUFFICES ASSUME u # <<>> PROVE FALSE
      OBVIOUS
    <3>2. 1 \in 1 .. Len(u) /\ DOMAIN u = 1 .. Len(u) /\ u[1] \in X
      BY <3>1, EmptySeq
    <3> DEFINE x == u[1]
               A == {i \in DOMAIN u : u[i] \in {x}}
    <3>3. CountIn(u, {x}) = 0
      BY <2>1, <2>2, <3>2, CountNothing DEF Alike
    <3>4. IsFiniteSet(A) /\ Cardinality(A) = 0
      BY <3>3, CountType DEF CountIn
    <3>5. 1 \in A
      BY <3>2
    <3> HIDE DEF A
    <3>6. QED
      BY <3>4, <3>5, FS_EmptySet
  <2>4. QED
    BY <2>2, <2>3 DEF AsMuch, SameCounts
<1>2. ASSUME NEW m \in Nat, m \in I PROVE m + 1 \in I
  <2>1. \A q, u \in Seq(X) : Len(q) = m /\ Alike(q, u, X) => AsMuch(q, u, X)
    BY <1>2
  <2>2. ASSUME NEW q \in Seq(X), NEW u \in Seq(X), Len(q) = m + 1, Alike(q, u, X)
        PROVE  AsMuch(q, u, X)
    BY <2>1, <2>2, AlikeStep
  <2>3. QED
    BY <2>2
<1> HIDE DEF I
<1>3. Len(s) \in Nat
  OBVIOUS
<1>4. Len(s) \in I
  BY <1>1, <1>2, <1>3, SetInduction
<1>5. QED
  BY <1>4 DEF I

-----------------------------------------------------------------------------
(* Sums do not depend on the order.                                          *)

LEMMA SumPermuted ==
  ASSUME NEW s \in Seq(Int), NEW o, Enumerates(o, Len(s), 1 .. Len(s))
  PROVE  SumOf([i \in 1 .. Len(s) |-> s[o[i]]]) = SumOf(s)
<1> DEFINE n == Len(s)
           u == [i \in 1 .. n |-> s[o[i]]]
<1>1. n \in Nat /\ o \in [1 .. n -> 1 .. n] /\ \A i \in 1 .. n : s[i] \in Int
  BY DEF Enumerates
<1>2. u \in [1 .. n -> Int]
  BY <1>1
<1>3. \A P : CountIn(u, P) = CountIn(s, P)
  BY CountPermuted
<1> HIDE DEF u, n
<1>4. u \in Seq(Int)
  BY <1>1, <1>2
<1>5. Alike(u, s, Int)
  BY <1>3 DEF Alike
<1>6. AsMuch(u, s, Int)
  BY <1>4, <1>5, AlikeIsAsMuch
<1>7. QED
  BY <1>6 DEF AsMuch, u, n

(* One number that is not zero is the sum.                                  *)
LEMMA SumOnly ==
  ASSUME NEW s \in Seq(Int), NEW d \in 1 .. Len(s), \A i \in 1 .. Len(s) : i # d => s[i] = 0
  PROVE  SumOf(s) = s[d]
<1> DEFINE n == Len(s)
<1>1. n \in Nat /\ d \in 1 .. n /\ \A i \in 1 .. n : s[i] \in Int
  OBVIOUS
<1>2. PICK f \in [0 .. n -> Int] : Sums(f, s) /\ SumOf(s) = f[n]
  BY SumDefined
<1> DEFINE I == {m \in Nat : m <= n => f[m] = IF m < d THEN 0 ELSE s[d]}
<1>3. 0 \in I
  BY <1>1, <1>2 DEF Sums
<1>4. ASSUME NEW m \in Nat, m \in I PROVE m + 1 \in I
  <2>1. SUFFICES ASSUME m + 1 <= n PROVE f[m + 1] = IF m + 1 < d THEN 0 ELSE s[d]
    OBVIOUS
  <2>2. m + 1 \in 1 .. n /\ (m + 1) - 1 = m /\ m <= n
    BY <1>1, <2>1
  <2>3. f[m + 1] = f[m] + s[m + 1] /\ f[m] = IF m < d THEN 0 ELSE s[d]
    BY <1>2, <1>4, <2>2 DEF Sums
  <2>4. s[d] \in Int /\ s[m + 1] \in Int /\ d \in Int
    BY <1>1, <2>2
  <2>5. CASE m + 1 = d
    BY <2>3, <2>4, <2>5
  <2>6. CASE m + 1 # d
    <3>1. s[m + 1] = 0
      BY <2>2, <2>6
    <3>2. QED
      BY <2>3, <2>4, <2>6, <3>1
  <2>7. QED
    BY <2>5, <2>6
<1> HIDE DEF I
<1>5. n \in I
  BY <1>1, <1>3, <1>4, SetInduction
<1>6. f[n] = s[d]
  BY <1>1, <1>5 DEF I
<1>7. QED
  BY <1>2, <1>6

LEMMA SumZeros ==
  ASSUME NEW s \in Seq(Int), \A i \in 1 .. Len(s) : s[i] = 0
  PROVE  SumOf(s) = 0
<1>1. CASE Len(s) = 0
  <2>1. s = <<>>
    BY <1>1, EmptySeq
  <2>2. QED
    BY <2>1, SumNothing
<1>2. CASE Len(s) # 0
  <2>1. 1 \in 1 .. Len(s)
    BY <1>2
  <2>2. SumOf(s) = s[1]
    BY <2>1, SumOnly
  <2>3. QED
    BY <2>1, <2>2
<1>3. QED
  BY <1>1, <1>2

LEMMA SumPlus ==
  ASSUME NEW n \in Nat, NEW a \in [1 .. n -> Int], NEW b \in [1 .. n -> Int]
  PROVE  SumOf([i \in 1 .. n |-> a[i] + b[i]]) = SumOf(a) + SumOf(b)
<1> DEFINE c == [i \in 1 .. n |-> a[i] + b[i]]
<1>1. c \in [1 .. n -> Int] /\ \A i \in 1 .. n : c[i] = a[i] + b[i] /\ a[i] \in Int /\ b[i] \in Int
  OBVIOUS
<1> HIDE DEF c
<1>2. a \in Seq(Int) /\ b \in Seq(Int) /\ c \in Seq(Int) /\ Len(a) = n /\ Len(b) = n /\ Len(c) = n
  BY <1>1
<1>3. PICK f \in [0 .. n -> Int] : Sums(f, a) /\ SumOf(a) = f[n]
  BY <1>2, SumDefined
<1>4. PICK g \in [0 .. n -> Int] : Sums(g, b) /\ SumOf(b) = g[n]
  BY <1>2, SumDefined
<1>5. PICK h \in [0 .. n -> Int] : Sums(h, c) /\ SumOf(c) = h[n]
  BY <1>2, SumDefined
<1> DEFINE I == {m \in Nat : m <= n => h[m] = f[m] + g[m]}
<1>6. 0 \in I
  BY <1>3, <1>4, <1>5 DEF Sums
<1>7. ASSUME NEW m \in Nat, m \in I PROVE m + 1 \in I
  <2>1. SUFFICES ASSUME m + 1 <= n PROVE h[m + 1] = f[m + 1] + g[m + 1]
    OBVIOUS
  <2>2. m + 1 \in 1 .. n /\ (m + 1) - 1 = m /\ m <= n /\ m \in 0 .. n
    BY <2>1
  <2>3. f[m + 1] = f[m] + a[m + 1] /\ g[m + 1] = g[m] + b[m + 1] /\ h[m + 1] = h[m] + c[m + 1]
    BY <1>2, <1>3, <1>4, <1>5, <2>2 DEF Sums
  <2>4. h[m] = f[m] + g[m] /\ f[m] \in Int /\ g[m] \in Int
    BY <1>7, <2>2
  <2>5. c[m + 1] = a[m + 1] + b[m + 1] /\ a[m + 1] \in Int /\ b[m + 1] \in Int
    BY <1>1, <2>2
  <2>6. h[m + 1] = (f[m] + g[m]) + (a[m + 1] + b[m + 1])
    BY <2>3, <2>4, <2>5
  <2> DEFINE x == f[m]
             y == g[m]
             v == a[m + 1]
             w == b[m + 1]
  <2>7. x \in Int /\ y \in Int /\ v \in Int /\ w \in Int
    BY <2>4, <2>5
  <2> HIDE DEF x, y, v, w
  <2>8. (x + y) + (v + w) = (x + v) + (y + w)
    BY <2>7
  <2>9. QED
    BY <2>3, <2>6, <2>8 DEF x, y, v, w
<1> HIDE DEF I
<1>8. n \in I
  BY <1>6, <1>7, SetInduction
<1>9. h[n] = f[n] + g[n]
  BY <1>8 DEF I
<1>10. QED
  BY <1>3, <1>4, <1>5, <1>9 DEF c

(* Row by row or column by column, the sum is the same.                     *)
LEMMA SumExchange ==
  ASSUME NEW k \in Nat, NEW l \in Nat, NEW c \in [1 .. k -> [1 .. l -> Int]]
  PROVE  SumOf([i \in 1 .. k |-> SumOf(c[i])])
           = SumOf([j \in 1 .. l |-> SumOf([i \in 1 .. k |-> c[i][j]])])
<1> DEFINE column(j) == [i \in 1 .. k |-> c[i][j]]
           rows == [i \in 1 .. k |-> SumOf(c[i])]
           Whose(g, j) == g \in [0 .. k -> Int] /\ Sums(g, column(j)) /\ SumOf(column(j)) = g[k]
           G == [j \in 1 .. l |-> CHOOSE g : Whose(g, j)]
           upTo(m) == [j \in 1 .. l |-> G[j][m]]
<1>1. ASSUME NEW i \in 1 .. k PROVE c[i] \in [1 .. l -> Int] /\ c[i] \in Seq(Int) /\ SumOf(c[i]) \in Int
  <2> DEFINE r == c[i]
  <2>1. r \in [1 .. l -> Int]
    OBVIOUS
  <2> HIDE DEF r
  <2>2. r \in Seq(Int)
    BY <2>1
  <2>3. SumOf(r) \in Int
    BY <2>2, SumIsInt
  <2>4. QED
    BY <2>1, <2>2, <2>3 DEF r
<1>2. ASSUME NEW j \in 1 .. l
      PROVE  /\ column(j) \in Seq(Int) /\ Len(column(j)) = k
             /\ \A i \in 1 .. k : column(j)[i] = c[i][j]
  <2> DEFINE u == column(j)
  <2>1. u \in [1 .. k -> Int]
    BY <1>1
  <2>2. \A i \in 1 .. k : u[i] = c[i][j]
    OBVIOUS
  <2> HIDE DEF u
  <2>3. u \in Seq(Int) /\ Len(u) = k
    BY <2>1
  <2>4. QED
    BY <2>2, <2>3 DEF u
<1> HIDE DEF column
<1>3. ASSUME NEW j \in 1 .. l PROVE Whose(G[j], j)
  <2>1. \E g \in [0 .. Len(column(j)) -> Int] :
          Sums(g, column(j)) /\ SumOf(column(j)) = g[Len(column(j))]
    BY <1>2, SumDefined
  <2>2. \E g : Whose(g, j)
    BY <1>2, <2>1
  <2>3. G[j] = CHOOSE g : Whose(g, j)
    OBVIOUS
  <2> HIDE DEF Whose, G
  <2>4. QED
    BY <2>2, <2>3
<1> HIDE DEF G
<1>4. rows \in [1 .. k -> Int] /\ \A i \in 1 .. k : rows[i] = SumOf(c[i])
  BY <1>1
<1> HIDE DEF rows
<1>5. rows \in Seq(Int) /\ Len(rows) = k
  BY <1>4
<1>6. PICK f \in [0 .. k -> Int] : Sums(f, rows) /\ SumOf(rows) = f[k]
  BY <1>5, SumDefined
<1>7. ASSUME NEW m \in 0 .. k
      PROVE  /\ upTo(m) \in [1 .. l -> Int] /\ upTo(m) \in Seq(Int) /\ Len(upTo(m)) = l
             /\ \A j \in 1 .. l : upTo(m)[j] = G[j][m]
  <2> DEFINE u == upTo(m)
  <2>1. u \in [1 .. l -> Int] /\ \A j \in 1 .. l : u[j] = G[j][m]
    BY <1>3
  <2>a. u \in [1 .. l -> Int]
    BY <2>1
  <2> HIDE DEF u
  <2>2. u \in Seq(Int) /\ Len(u) = l
    BY <2>a
  <2>3. QED
    BY <2>1, <2>2 DEF u
<1> HIDE DEF upTo
<1> DEFINE I == {m \in Nat : m <= k => f[m] = SumOf(upTo(m))}
<1>8. 0 \in I
  <2>1. 0 \in 0 .. k
    OBVIOUS
  <2>2. \A j \in 1 .. l : upTo(0)[j] = 0
    BY <1>3, <1>7, <2>1 DEF Sums
  <2>3. SumOf(upTo(0)) = 0
    BY <1>7, <2>1, <2>2, SumZeros
  <2>4. QED
    BY <1>6, <2>3 DEF Sums
<1>9. ASSUME NEW m \in Nat, m \in I PROVE m + 1 \in I
  <2>1. SUFFICES ASSUME m + 1 <= k PROVE f[m + 1] = SumOf(upTo(m + 1))
    OBVIOUS
  <2>2. m + 1 \in 1 .. k /\ (m + 1) - 1 = m /\ m <= k /\ m \in 0 .. k /\ m + 1 \in 0 .. k
    BY <2>1
  <2>3. f[m + 1] = f[m] + rows[m + 1]
    BY <1>5, <1>6, <2>2 DEF Sums
  <2>4. f[m] = SumOf(upTo(m)) /\ rows[m + 1] = SumOf(c[m + 1])
    BY <1>4, <1>9, <2>2
  <2>5. \A j \in 1 .. l : upTo(m + 1)[j] = upTo(m)[j] + c[m + 1][j]
    <3>1. SUFFICES ASSUME NEW j \in 1 .. l PROVE upTo(m + 1)[j] = upTo(m)[j] + c[m + 1][j]
      OBVIOUS
    <3>2. G[j][m + 1] = G[j][m] + column(j)[m + 1]
      BY <1>2, <1>3, <2>2 DEF Sums
    <3>3. QED
      BY <1>2, <1>7, <2>2, <3>2
  <2> DEFINE a == upTo(m)
             b == c[m + 1]
             s == upTo(m + 1)
  <2>6. a \in [1 .. l -> Int] /\ b \in [1 .. l -> Int] /\ s \in [1 .. l -> Int]
    BY <1>1, <1>7, <2>2
  <2>7. \A j \in 1 .. l : s[j] = a[j] + b[j]
    BY <2>5
  <2> HIDE DEF a, b, s
  <2>8. s = [j \in 1 .. l |-> a[j] + b[j]]
    BY <2>6, <2>7
  <2>9. SumOf(s) = SumOf(a) + SumOf(b)
    BY <2>6, <2>8, SumPlus
  <2>10. QED
    BY <2>3, <2>4, <2>9 DEF a, b, s
<1> HIDE DEF I
<1>10. k \in I
  BY <1>8, <1>9, SetInduction
<1>11. f[k] = SumOf(upTo(k))
  BY <1>10 DEF I
<1>12. upTo(k) = [j \in 1 .. l |-> SumOf(column(j))]
  <2>2. k \in 0 .. k
    OBVIOUS
  <2>1. \A j \in 1 .. l : upTo(k)[j] = SumOf(column(j))
    BY <1>3, <1>7, <2>2
  <2>3. upTo(k) = [j \in 1 .. l |-> upTo(k)[j]]
    BY <1>7, <2>2
  <2>4. QED
    BY <2>1, <2>3
<1>13. SumOf(rows) = SumOf([j \in 1 .. l |-> SumOf(column(j))])
  BY <1>6, <1>11, <1>12
<1>14. QED
  BY <1>13 DEF rows, column

-----------------------------------------------------------------------------
(* Flattened sequences: their elements, counted, and rows for columns.       *)

LEMMA FlatType ==
  ASSUME NEW X, NEW n \in Nat, NEW f \in [1 .. n -> Seq(X)]
  PROVE  FlattenSeq(f) \in Seq(X) /\ f \in Seq(Seq(X)) /\ Len(f) = n
<1> DEFINE Y == Seq(X)
<1>1. f \in [1 .. n -> Y]
  OBVIOUS
<1> HIDE DEF Y
<1>2. f \in Seq(Y) /\ Len(f) = n
  BY <1>1
<1>3. f \in Seq(Seq(X))
  BY <1>2 DEF Y
<1>4. PICK F \in [0 .. Len(f) -> Seq(X)] : Concatenates(F, f) /\ FlattenSeq(f) = F[Len(f)]
  BY <1>3, Flattened
<1>5. QED
  BY <1>2, <1>3, <1>4

(* What is in a table that was put together is in its pieces.               *)
LEMMA CountOfFlat ==
  ASSUME NEW X, NEW n \in Nat, NEW f \in [1 .. n -> Seq(X)], NEW P
  PROVE  CountIn(FlattenSeq(f), P) = SumOf([i \in 1 .. n |-> CountIn(f[i], P)])
<1> DEFINE c == [i \in 1 .. n |-> CountIn(f[i], P)]
<1>1. f \in Seq(Seq(X)) /\ Len(f) = n
  BY FlatType
<1>2. PICK F \in [0 .. n -> Seq(X)] : Concatenates(F, f) /\ FlattenSeq(f) = F[n]
  BY <1>1, Flattened
<1>3. ASSUME NEW i \in 1 .. n PROVE c[i] = CountIn(f[i], P) /\ c[i] \in Int
  <2>1. CountIn(f[i], P) \in 0 .. Len(f[i])
    BY CountType
  <2>2. QED
    BY <2>1
<1>4. c \in [1 .. n -> Int]
  BY <1>3
<1> HIDE DEF c
<1>5. c \in Seq(Int) /\ Len(c) = n
  BY <1>4
<1>6. PICK g \in [0 .. n -> Int] : Sums(g, c) /\ SumOf(c) = g[n]
  BY <1>5, SumDefined
<1> DEFINE I == {m \in Nat : m <= n => CountIn(F[m], P) = g[m]}
<1>7. 0 \in I
  BY <1>2, <1>6, CountNothing DEF Sums, Concatenates
<1>8. ASSUME NEW m \in Nat, m \in I PROVE m + 1 \in I
  <2>1. SUFFICES ASSUME m + 1 <= n PROVE CountIn(F[m + 1], P) = g[m + 1]
    OBVIOUS
  <2>2. m + 1 \in 1 .. n /\ (m + 1) - 1 = m /\ m <= n /\ m \in 0 .. n
    BY <2>1
  <2>3. F[m + 1] = F[m] \o f[m + 1] /\ F[m] \in Seq(X) /\ f[m + 1] \in Seq(X)
    BY <1>1, <1>2, <2>2 DEF Concatenates
  <2>4. CountIn(F[m + 1], P) = CountIn(F[m], P) + CountIn(f[m + 1], P)
    BY <2>3, CountConcat
  <2>5. g[m + 1] = g[m] + c[m + 1]
    BY <1>5, <1>6, <2>2 DEF Sums
  <2>6. QED
    BY <1>3, <1>8, <2>2, <2>4, <2>5
<1> HIDE DEF I
<1>9. n \in I
  BY <1>7, <1>8, SetInduction
<1>10. QED
  BY <1>2, <1>6, <1>9 DEF I, c

LEMMA SumOfFlat ==
  ASSUME NEW n \in Nat, NEW f \in [1 .. n -> Seq(Int)]
  PROVE  SumOf(FlattenSeq(f)) = SumOf([i \in 1 .. n |-> SumOf(f[i])])
<1> DEFINE c == [i \in 1 .. n |-> SumOf(f[i])]
<1>1. f \in Seq(Seq(Int)) /\ Len(f) = n
  BY FlatType
<1>2. PICK F \in [0 .. n -> Seq(Int)] : Concatenates(F, f) /\ FlattenSeq(f) = F[n]
  BY <1>1, Flattened
<1>3. ASSUME NEW i \in 1 .. n PROVE c[i] = SumOf(f[i]) /\ c[i] \in Int
  BY SumIsInt
<1>4. c \in [1 .. n -> Int]
  BY <1>3
<1> HIDE DEF c
<1>5. c \in Seq(Int) /\ Len(c) = n
  BY <1>4
<1>6. PICK g \in [0 .. n -> Int] : Sums(g, c) /\ SumOf(c) = g[n]
  BY <1>5, SumDefined
<1> DEFINE I == {m \in Nat : m <= n => SumOf(F[m]) = g[m]}
<1>7. 0 \in I
  BY <1>2, <1>6, SumNothing DEF Sums, Concatenates
<1>8. ASSUME NEW m \in Nat, m \in I PROVE m + 1 \in I
  <2>1. SUFFICES ASSUME m + 1 <= n PROVE SumOf(F[m + 1]) = g[m + 1]
    OBVIOUS
  <2>2. m + 1 \in 1 .. n /\ (m + 1) - 1 = m /\ m <= n /\ m \in 0 .. n
    BY <2>1
  <2>3. F[m + 1] = F[m] \o f[m + 1] /\ F[m] \in Seq(Int) /\ f[m + 1] \in Seq(Int)
    BY <1>1, <1>2, <2>2 DEF Concatenates
  <2>4. SumOf(F[m + 1]) = SumOf(F[m]) + SumOf(f[m + 1])
    BY <2>3, SumConcat
  <2>5. g[m + 1] = g[m] + c[m + 1]
    BY <1>5, <1>6, <2>2 DEF Sums
  <2>6. QED
    BY <1>3, <1>8, <2>2, <2>4, <2>5
<1> HIDE DEF I
<1>9. n \in I
  BY <1>7, <1>8, SetInduction
<1>10. QED
  BY <1>2, <1>6, <1>9 DEF I, c

(* Pieces in another order, or pieces with the same rows, make a table with *)
(* the same rows.                                                           *)
LEMMA FlatPermuted ==
  ASSUME NEW X, NEW n \in Nat, NEW f \in [1 .. n -> Seq(X)], NEW o, Enumerates(o, n, 1 .. n)
  PROVE  SameCounts(FlattenSeq([i \in 1 .. n |-> f[o[i]]]), FlattenSeq(f))
<1> DEFINE g == [i \in 1 .. n |-> f[o[i]]]
<1>1. o \in [1 .. n -> 1 .. n]
  BY DEF Enumerates
<1>2. g \in [1 .. n -> Seq(X)] /\ \A i \in 1 .. n : g[i] = f[o[i]]
  <2> DEFINE Y == Seq(X)
  <2>1. f \in [1 .. n -> Y]
    OBVIOUS
  <2> HIDE DEF Y
  <2>2. g \in [1 .. n -> Y] /\ \A i \in 1 .. n : g[i] = f[o[i]]
    BY <1>1, <2>1
  <2>3. QED
    BY <2>2 DEF Y
<1> HIDE DEF g
<1>3. SUFFICES ASSUME NEW P PROVE CountIn(FlattenSeq(g), P) = CountIn(FlattenSeq(f), P)
  BY DEF SameCounts, g
<1> DEFINE c == [i \in 1 .. n |-> CountIn(f[i], P)]
           d == [i \in 1 .. n |-> CountIn(g[i], P)]
<1>4. CountIn(FlattenSeq(g), P) = SumOf(d) /\ CountIn(FlattenSeq(f), P) = SumOf(c)
  BY <1>2, CountOfFlat
<1>5. ASSUME NEW i \in 1 .. n PROVE c[i] = CountIn(f[i], P) /\ c[i] \in Int
  <2>1. CountIn(f[i], P) \in 0 .. Len(f[i])
    BY CountType
  <2>2. QED
    BY <2>1
<1>6. c \in [1 .. n -> Int]
  BY <1>5
<1>7. d = [i \in 1 .. n |-> c[o[i]]]
  BY <1>1, <1>2
<1> HIDE DEF c, d
<1>8. c \in Seq(Int) /\ Len(c) = n
  BY <1>6
<1>9. SumOf(d) = SumOf(c)
  BY <1>7, <1>8, SumPermuted
<1>10. QED
  BY <1>4, <1>9

LEMMA FlatAlike ==
  ASSUME NEW X, NEW n \in Nat, NEW f \in [1 .. n -> Seq(X)], NEW g \in [1 .. n -> Seq(X)],
         \A i \in 1 .. n : SameCounts(f[i], g[i])
  PROVE  SameCounts(FlattenSeq(f), FlattenSeq(g))
<1>1. f \in Seq(Seq(X)) /\ Len(f) = n /\ g \in Seq(Seq(X)) /\ Len(g) = n
  BY FlatType
<1>2. ASSUME NEW P PROVE CountIn(FlattenSeq(f), P) = CountIn(FlattenSeq(g), P)
  <2>1. \A i \in 1 .. Len(f) : CountIn(f[i], P) = CountIn(g[i], P)
    BY <1>1 DEF SameCounts
  <2>2. Len(f) = Len(g)
    BY <1>1
  <2>3. QED
    BY ONLY <1>1, <2>1, <2>2, CountFlat
<1>3. QED
  BY <1>2 DEF SameCounts

(* The parts by the node that sends them, and by the node that gets them.   *)
RowByRow(p, k) == FlattenSeq([i \in 1 .. k |-> FlattenSeq(p[i])])
ColumnByColumn(p, k, l) == FlattenSeq([j \in 1 .. l |-> FlattenSeq([i \in 1 .. k |-> p[i][j]])])

LEMMA FlatExchange ==
  ASSUME NEW X, NEW k \in Nat, NEW l \in Nat, NEW p \in [1 .. k -> [1 .. l -> Seq(X)]]
  PROVE  SameCounts(RowByRow(p, k), ColumnByColumn(p, k, l))
<1> DEFINE a == [i \in 1 .. k |-> FlattenSeq(p[i])]
           q(j) == [i \in 1 .. k |-> p[i][j]]
           b == [j \in 1 .. l |-> FlattenSeq(q(j))]
           Y == Seq(X)
<1>1. \A i \in 1 .. k : p[i] \in [1 .. l -> Y]
  OBVIOUS
<1>2. \A j \in 1 .. l : q(j) \in [1 .. k -> Y] /\ \A i \in 1 .. k : q(j)[i] = p[i][j]
  <2> HIDE DEF Y
  <2>1. QED
    BY <1>1
<1> HIDE DEF q
<1>3. \A i \in 1 .. k : FlattenSeq(p[i]) \in Y
  BY <1>1, FlatType
<1>4. \A j \in 1 .. l : FlattenSeq(q(j)) \in Y
  BY <1>2, FlatType
<1>5. a \in [1 .. k -> Y] /\ b \in [1 .. l -> Y]
      /\ (\A i \in 1 .. k : a[i] = FlattenSeq(p[i])) /\ \A j \in 1 .. l : b[j] = FlattenSeq(q(j))
  BY <1>3, <1>4
<1>0. RowByRow(p, k) = FlattenSeq(a) /\ ColumnByColumn(p, k, l) = FlattenSeq(b)
  BY DEF RowByRow, ColumnByColumn, q
<1> HIDE DEF a, b
<1>6. SUFFICES ASSUME NEW P PROVE CountIn(FlattenSeq(a), P) = CountIn(FlattenSeq(b), P)
  BY <1>0 DEF SameCounts
<1> DEFINE c == [i \in 1 .. k |-> [j \in 1 .. l |-> CountIn(p[i][j], P)]]
<1>7. \A i \in 1 .. k, j \in 1 .. l : CountIn(p[i][j], P) \in Int
  <2>1. SUFFICES ASSUME NEW i \in 1 .. k, NEW j \in 1 .. l PROVE CountIn(p[i][j], P) \in Int
    OBVIOUS
  <2>2. CountIn(p[i][j], P) \in 0 .. Len(p[i][j])
    BY CountType
  <2>3. QED
    BY <2>2
<1>8. c \in [1 .. k -> [1 .. l -> Int]]
  BY <1>7
<1>9. SumOf([i \in 1 .. k |-> SumOf(c[i])])
        = SumOf([j \in 1 .. l |-> SumOf([i \in 1 .. k |-> c[i][j]])])
  <2> HIDE DEF c
  <2>1. QED
    BY <1>8, SumExchange
<1>10. CountIn(FlattenSeq(a), P) = SumOf([i \in 1 .. k |-> SumOf(c[i])])
  <2>1. ASSUME NEW i \in 1 .. k PROVE CountIn(a[i], P) = SumOf(c[i])
    <3>1. CountIn(FlattenSeq(p[i]), P) = SumOf([j \in 1 .. l |-> CountIn(p[i][j], P)])
      BY <1>1, CountOfFlat
    <3>2. c[i] = [j \in 1 .. l |-> CountIn(p[i][j], P)]
      OBVIOUS
    <3>3. QED
      BY <1>5, <3>1, <3>2
  <2>2. CountIn(FlattenSeq(a), P) = SumOf([i \in 1 .. k |-> CountIn(a[i], P)])
    BY <1>5, CountOfFlat
  <2> HIDE DEF c
  <2>3. [i \in 1 .. k |-> CountIn(a[i], P)] = [i \in 1 .. k |-> SumOf(c[i])]
    BY <2>1
  <2>4. QED
    BY <2>2, <2>3
<1>11. CountIn(FlattenSeq(b), P) = SumOf([j \in 1 .. l |-> SumOf([i \in 1 .. k |-> c[i][j]])])
  <2>1. ASSUME NEW j \in 1 .. l PROVE CountIn(b[j], P) = SumOf([i \in 1 .. k |-> c[i][j]])
    <3> DEFINE r == q(j)
    <3>0. r \in [1 .. k -> Seq(X)]
      BY <1>2
    <3> HIDE DEF r
    <3>a. CountIn(FlattenSeq(r), P) = SumOf([i \in 1 .. k |-> CountIn(r[i], P)])
      BY <3>0, CountOfFlat
    <3>1. CountIn(FlattenSeq(q(j)), P) = SumOf([i \in 1 .. k |-> CountIn(q(j)[i], P)])
      BY <3>a DEF r
    <3>2. [i \in 1 .. k |-> CountIn(q(j)[i], P)] = [i \in 1 .. k |-> c[i][j]]
      BY <1>2
    <3>3. QED
      BY <1>5, <3>1, <3>2
  <2>2. CountIn(FlattenSeq(b), P) = SumOf([j \in 1 .. l |-> CountIn(b[j], P)])
    BY <1>5, CountOfFlat
  <2> HIDE DEF c
  <2>3. [j \in 1 .. l |-> CountIn(b[j], P)] = [j \in 1 .. l |-> SumOf([i \in 1 .. k |-> c[i][j]])]
    BY <2>1
  <2>4. QED
    BY <2>2, <2>3
<1>12. QED
  BY <1>9, <1>10, <1>11

(* Rows that only one piece has are as many as there.                       *)
OnlyAt(f, n, P, d) == \A i \in 1 .. n : i # d => CountIn(f[i], P) = 0

LEMMA CountOfOnly ==
  ASSUME NEW X, NEW n \in Nat, NEW f \in [1 .. n -> Seq(X)], NEW P, NEW d \in 1 .. n,
         OnlyAt(f, n, P, d)
  PROVE  CountIn(FlattenSeq(f), P) = CountIn(f[d], P)
<1> DEFINE c == [i \in 1 .. n |-> CountIn(f[i], P)]
<1>1. CountIn(FlattenSeq(f), P) = SumOf(c)
  BY CountOfFlat
<1>2. ASSUME NEW i \in 1 .. n PROVE CountIn(f[i], P) \in Int
  <2>1. CountIn(f[i], P) \in 0 .. Len(f[i])
    BY CountType
  <2>2. QED
    BY <2>1
<1>3. c \in [1 .. n -> Int] /\ \A i \in 1 .. n : c[i] = CountIn(f[i], P)
  BY <1>2
<1> HIDE DEF c
<1>4. c \in Seq(Int) /\ Len(c) = n
  BY <1>3
<1>5. SumOf(c) = c[d]
  BY <1>3, <1>4, SumOnly DEF OnlyAt
<1>6. QED
  BY <1>1, <1>3, <1>5

LEMMA CountOfNone ==
  ASSUME NEW X, NEW n \in Nat, NEW f \in [1 .. n -> Seq(X)], NEW P,
         \A i \in 1 .. n : CountIn(f[i], P) = 0
  PROVE  CountIn(FlattenSeq(f), P) = 0
<1> DEFINE c == [i \in 1 .. n |-> CountIn(f[i], P)]
<1>1. CountIn(FlattenSeq(f), P) = SumOf(c)
  BY CountOfFlat
<1>2. c \in [1 .. n -> Int] /\ \A i \in 1 .. n : c[i] = 0
  OBVIOUS
<1> HIDE DEF c
<1>3. c \in Seq(Int) /\ Len(c) = n
  BY <1>2
<1>4. QED
  BY <1>1, <1>2, <1>3, SumZeros

-----------------------------------------------------------------------------
(* More about how often elements occur.                                      *)

LEMMA ConcatOf ==
  ASSUME NEW X, NEW s \in Seq(X), NEW t \in Seq(X)
  PROVE  /\ s \o t \in Seq(X) /\ Len(s \o t) = Len(s) + Len(t) /\ Len(s) \in Nat /\ Len(t) \in Nat
         /\ \A i \in 1 .. Len(s) + Len(t) : (s \o t)[i] = IF i <= Len(s) THEN s[i] ELSE t[i - Len(s)]
BY ConcatProperties, LenProperties

LEMMA CountZero ==
  ASSUME NEW X, NEW s \in Seq(X), NEW P
  PROVE  CountIn(s, P) = 0 <=> \A i \in 1 .. Len(s) : s[i] \notin P
<1> DEFINE A == {i \in DOMAIN s : s[i] \in P}
<1>1. IsFiniteSet(A) /\ DOMAIN s = 1 .. Len(s)
  BY CountType
<1>2. A = {} <=> \A i \in 1 .. Len(s) : s[i] \notin P
  BY <1>1
<1> HIDE DEF A
<1>3. Cardinality(A) = 0 <=> A = {}
  BY <1>1, FS_EmptySet
<1>4. QED
  BY <1>2, <1>3 DEF CountIn, A

LEMMA CountSingle ==
  ASSUME NEW X, NEW s \in Seq(X), NEW P, NEW i \in 1 .. Len(s), s[i] \in P,
         \A j \in 1 .. Len(s) : s[j] \in P => j = i
  PROVE  CountIn(s, P) = 1
<1>1. DOMAIN s = 1 .. Len(s)
  BY CountType
<1>2. {j \in DOMAIN s : s[j] \in P} = {i}
  BY <1>1
<1>3. Cardinality({i}) = 1
  BY FS_Singleton
<1>4. QED
  BY <1>2, <1>3 DEF CountIn

LEMMA AlikeElements ==
  ASSUME NEW X, NEW s \in Seq(X), NEW t \in Seq(X), SameCounts(s, t)
  PROVE  ToSet(s) = ToSet(t) /\ Len(s) = Len(t)
<1>1. CountIn(s, X) = Len(s) /\ CountIn(t, X) = Len(t)
  BY CountAll
<1>2. ToSet(s) = {s[i] : i \in 1 .. Len(s)} /\ ToSet(t) = {t[i] : i \in 1 .. Len(t)}
  BY Elements
<1>3. ASSUME NEW x PROVE x \in ToSet(s) <=> x \in ToSet(t)
  <2>1. CountIn(s, {x}) = 0 <=> \A i \in 1 .. Len(s) : s[i] \notin {x}
    BY CountZero
  <2>2. CountIn(t, {x}) = 0 <=> \A i \in 1 .. Len(t) : t[i] \notin {x}
    BY CountZero
  <2>3. CountIn(s, {x}) = CountIn(t, {x})
    BY DEF SameCounts
  <2>4. QED
    BY <1>2, <2>1, <2>2, <2>3
<1>4. QED
  BY <1>1, <1>3 DEF SameCounts

LEMMA CountedAlike ==
  ASSUME NEW X, NEW s \in Seq(X), NEW t \in Seq(X), \A r \in X : CountIn(s, {r}) = CountIn(t, {r})
  PROVE  SameCounts(s, t)
<1>1. Alike(s, t, X)
  BY DEF Alike
<1>2. AsMuch(s, t, X)
  BY <1>1, AlikeIsAsMuch
<1>3. QED
  BY <1>2 DEF AsMuch

LEMMA CountsAreAlike ==
  ASSUME NEW r, NEW s, NEW t, SameCounts(r, s), SameCounts(s, t)
  PROVE  SameCounts(r, t)
BY DEF SameCounts

LEMMA EmptyIs ==
  ASSUME NEW X, NEW s \in Seq(X)
  PROVE  (s = <<>> <=> Len(s) = 0) /\ Len(s) \in Nat
BY EmptySeq

LEMMA SumAlike ==
  ASSUME NEW s \in Seq(Int), NEW t \in Seq(Int), SameCounts(s, t)
  PROVE  SumOf(s) = SumOf(t)
<1>1. Alike(s, t, Int)
  BY DEF Alike, SameCounts
<1>2. AsMuch(s, t, Int)
  BY <1>1, AlikeIsAsMuch
<1>3. QED
  BY <1>2 DEF AsMuch

-----------------------------------------------------------------------------
(* Sums and quotients between bounds.                                        *)

LEMMA Distributes ==
  ASSUME NEW a \in Int, NEW m \in Int
  PROVE  a * (m + 1) = a * m + a
OBVIOUS

LEMMA SumBounds ==
  ASSUME NEW s \in Seq(Int), NEW a \in Int, NEW b \in Int,
         \A i \in 1 .. Len(s) : a <= s[i] /\ s[i] <= b
  PROVE  a * Len(s) <= SumOf(s) /\ SumOf(s) <= b * Len(s)
<1> DEFINE n == Len(s)
<1>1. n \in Nat /\ \A i \in 1 .. n : s[i] \in Int
  OBVIOUS
<1>2. PICK f \in [0 .. n -> Int] : Sums(f, s) /\ SumOf(s) = f[n]
  BY SumDefined
<1>3. f[0] = 0 /\ \A i \in 1 .. n : f[i] = f[i - 1] + s[i]
  BY <1>2 DEF Sums
<1> HIDE DEF n
<1> DEFINE I == {m \in Nat : m <= n => a * m <= f[m] /\ f[m] <= b * m}
<1>4. 0 \in I
  BY <1>3
<1>5. ASSUME NEW m \in Nat, m \in I PROVE m + 1 \in I
  <2>1. SUFFICES ASSUME m + 1 <= n PROVE a * (m + 1) <= f[m + 1] /\ f[m + 1] <= b * (m + 1)
    OBVIOUS
  <2>2. m + 1 \in 1 .. n /\ (m + 1) - 1 = m /\ m \in 0 .. n /\ m <= n
    BY <1>1, <2>1
  <2> DEFINE x == f[m]
             y == s[m + 1]
             c == a * m
             d == b * m
  <2>3. f[m + 1] = x + y
    BY <1>3, <2>2
  <2>4. x \in Int /\ y \in Int /\ a <= y /\ y <= b
    BY <1>1, <1>2, <2>2 DEF n
  <2>5. c <= x /\ x <= d
    BY <1>5, <2>2
  <2>6. c \in Int /\ d \in Int /\ a * (m + 1) = c + a /\ b * (m + 1) = d + b
    BY Distributes
  <2> HIDE DEF x, y, c, d
  <2>7. QED
    BY <2>3, <2>4, <2>5, <2>6
<1> HIDE DEF I
<1>6. n \in I
  BY <1>1, <1>4, <1>5, SetInduction
<1>7. QED
  BY <1>1, <1>2, <1>6 DEF I, n

LEMMA Products ==
  ASSUME NEW a \in Int, NEW q \in Int, NEW n \in Nat, a < q
  PROVE  a * n + n <= q * n
<1> DEFINE d == q - a - 1
<1>1. d \in Nat
  OBVIOUS
<1>2. d * n \in Nat
  <2> HIDE DEF d
  <2>1. QED
    BY <1>1
<1>3. q = a + 1 + d
  OBVIOUS
<1> HIDE DEF d
<1>4. q * n = a * n + n + d * n
  BY <1>1, <1>3
<1>5. a * n \in Int
  OBVIOUS
<1> DEFINE e == d * n
           f == a * n
<1> HIDE DEF e, f
<1>6. e \in Nat /\ f \in Int /\ q * n = f + n + e
  BY <1>2, <1>4, <1>5 DEF e, f
<1>7. f + n <= q * n
  BY <1>6
<1>8. QED
  BY <1>7 DEF f

LEMMA Quotient ==
  ASSUME NEW x \in Int, NEW n \in Nat, n > 0
  PROVE  /\ x \div n \in Int /\ (x \div n) * n <= x /\ x < (x \div n) * n + n
BY Z3

LEMMA QuotientBounds ==
  ASSUME NEW x \in Int, NEW n \in Nat, n > 0, NEW a \in Int, NEW b \in Int, a * n <= x, x <= b * n
  PROVE  a <= x \div n /\ x \div n <= b
<1> DEFINE q == x \div n
<1>1. q \in Int /\ q * n <= x /\ x < q * n + n
  BY Quotient
<1> HIDE DEF q
<1>2. q < a => q * n + n <= a * n
  BY <1>1, Products
<1>3. b < q => b * n + n <= q * n
  BY <1>1, Products
<1> DEFINE u == q * n
           v == a * n
           w == b * n
<1>4. u \in Int /\ v \in Int /\ w \in Int
  BY <1>1
<1>5. u <= x /\ x < u + n /\ (q < a => u + n <= v) /\ (b < q => w + n <= u) /\ v <= x /\ x <= w
  BY <1>1, <1>2, <1>3
<1> HIDE DEF u, v, w
<1>6. a <= q /\ q <= b
  BY <1>1, <1>4, <1>5
<1>7. QED
  BY <1>6 DEF q

-----------------------------------------------------------------------------
(* Lists of numbers, flattened.                                              *)

NumberLists(n) == [1 .. n -> Seq(Int)]

LEMMA FlatNumbers ==
  ASSUME NEW n \in Nat, NEW f \in NumberLists(n)
  PROVE  /\ FlattenSeq(f) \in Seq(Int)
         /\ \A x : x \in ToSet(FlattenSeq(f)) <=> \E i \in 1 .. n : x \in ToSet(f[i])
         /\ FlattenSeq(f) = <<>> <=> \A i \in 1 .. n : f[i] = <<>>
<1>1. FlattenSeq(f) \in Seq(Int) /\ f \in Seq(Seq(Int)) /\ Len(f) = n
  BY FlatType DEF NumberLists
<1>2. ToSet(FlattenSeq(f)) = UNION {ToSet(f[i]) : i \in 1 .. n}
  BY <1>1, ElementsOfFlat
<1>3. ASSUME NEW s \in Seq(Int) PROVE s = <<>> <=> \A x : x \notin ToSet(s)
  <2>1. ToSet(s) = {s[i] : i \in 1 .. Len(s)}
    BY Elements
  <2>2. Len(s) \in Nat /\ (s = <<>> <=> Len(s) = 0)
    BY EmptyIs
  <2>3. Len(s) # 0 => 1 \in 1 .. Len(s)
    BY <2>2
  <2>4. Len(s) = 0 => 1 .. Len(s) = {}
    BY <2>2
  <2>5. QED
    BY <2>1, <2>2, <2>3, <2>4
<1>4. \A i \in 1 .. n : f[i] \in Seq(Int)
  BY DEF NumberLists
<1> DEFINE F == FlattenSeq(f)
<1>5. \A x : x \in ToSet(F) <=> \E i \in 1 .. n : x \in ToSet(f[i])
  BY <1>2
<1>6. F \in Seq(Int)
  BY <1>1
<1> HIDE DEF F
<1>7. F = <<>> <=> \A x : x \notin ToSet(F)
  BY <1>3, <1>6
<1>8. \A i \in 1 .. n : f[i] = <<>> <=> \A x : x \notin ToSet(f[i])
  BY <1>3, <1>4
<1>9. F = <<>> <=> \A i \in 1 .. n : f[i] = <<>>
  BY <1>5, <1>7, <1>8
<1>10. QED
  BY <1>1, <1>5, <1>9 DEF F

LEMMA FlatSum ==
  ASSUME NEW n \in Nat, NEW p \in NumberLists(n), NEW c \in [1 .. n -> Int],
         \A i \in 1 .. n : SumOf(p[i]) = c[i]
  PROVE  SumOf(FlattenSeq(p)) = SumOf(c)
<1>1. SumOf(FlattenSeq(p)) = SumOf([i \in 1 .. n |-> SumOf(p[i])])
  BY SumOfFlat DEF NumberLists
<1>2. [i \in 1 .. n |-> SumOf(p[i])] = c
  OBVIOUS
<1>3. QED
  BY <1>1, <1>2

LEMMA FlatLength ==
  ASSUME NEW n \in Nat, NEW w \in NumberLists(n), NEW c \in [1 .. n -> Int],
         \A i \in 1 .. n : Len(w[i]) = c[i]
  PROVE  Len(FlattenSeq(w)) = SumOf(c)
<1>1. CountIn(FlattenSeq(w), Int) = SumOf([i \in 1 .. n |-> CountIn(w[i], Int)])
  <2> DEFINE V == Int
  <2>1. w \in [1 .. n -> Seq(V)]
    BY DEF NumberLists
  <2> HIDE DEF V
  <2>2. CountIn(FlattenSeq(w), V) = SumOf([i \in 1 .. n |-> CountIn(w[i], V)])
    BY <2>1, CountOfFlat
  <2>3. QED
    BY <2>2 DEF V
<1>2. ASSUME NEW i \in 1 .. n PROVE CountIn(w[i], Int) = c[i]
  <2>1. w[i] \in Seq(Int)
    BY DEF NumberLists
  <2>2. CountIn(w[i], Int) = Len(w[i])
    BY <2>1, CountAll
  <2>3. QED
    BY <2>2
<1>3. [i \in 1 .. n |-> CountIn(w[i], Int)] = c
  BY <1>2
<1>4. CountIn(FlattenSeq(w), Int) = Len(FlattenSeq(w))
  BY FlatNumbers, CountAll
<1>5. QED
  BY <1>1, <1>3, <1>4
=============================================================================
