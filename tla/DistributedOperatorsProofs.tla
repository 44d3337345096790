---------------------- MODULE DistributedOperatorsProofs ----------------------
(***************************************************************************)
(* What the distributed operators keep, for any number of nodes and any    *)
(* tables: no row is lost on its way from node to node, equal keys meet on *)
(* one node, and what the nodes merge keeps the promises of                *)
(* OneNodeOperator.                                                        *)
(***************************************************************************)
EXTENDS DistributedOperators, ListsProofs

RowSet == [key : Keys, value : Int \cup {Null}]
Aligned(s, o, t) == s = [i \in 1 .. Len(t) |-> t[o[i]]]

LEMMA RowsHaveKeys ==
  ASSUME NEW t \in Seq(RowSet)
  PROVE  /\ DOMAIN t = 1 .. Len(t) /\ Len(t) \in Nat
         /\ \A i \in 1 .. Len(t) : t[i] \in RowSet /\ t[i].key \in Keys /\ t[i].key \in Int
         /\ KeysOf(t) \subseteq Keys
<1>1. DOMAIN t = 1 .. Len(t) /\ Len(t) \in Nat
  OBVIOUS
<1>2. \A i \in 1 .. Len(t) : t[i] \in RowSet
  OBVIOUS
<1>3. \A i \in 1 .. Len(t) : t[i].key \in Keys
  BY <1>2 DEF RowSet
<1>4. Keys \subseteq Int
  BY NullKeyIsLargest
<1>5. QED
  BY <1>1, <1>2, <1>3, <1>4 DEF KeysOf

(* A sort puts the rows in order: the least first by their rank.            *)
Rank(k, direction) == IF direction = "DESC" THEN -k ELSE k
Sorted(s, direction) ==
  \A i, j \in 1 .. Len(s) : i < j => Rank(s[i].key, direction) <= Rank(s[j].key, direction)

Sorts(s, t, direction) ==
  /\ s \in Seq(RowSet) /\ Len(s) = Len(t)
  /\ \E o : Enumerates(o, Len(t), 1 .. Len(t)) /\ Aligned(s, o, t)
  /\ Sorted(s, direction)

LEMMA SortOrders ==
  ASSUME NEW t \in Seq(RowSet), NEW direction
  PROVE  Sorts(Sort(t, direction), t, direction)
<1> DEFINE n == Len(t)
           S == 1 .. n
           v == [i \in S |-> Rank(t[i].key, direction)]
           R == {p \in S \X S : v[p[1]] < v[p[2]] \/ (v[p[1]] = v[p[2]] /\ p[1] < p[2])}
           o == Ordered(S, R)
<1>1. DOMAIN t = S /\ n \in Nat /\ \A i \in S : t[i] \in RowSet /\ t[i].key \in Int
  BY RowsHaveKeys
<1>2. IsFiniteSet(S) /\ Cardinality(S) = n
  <2>1. IsFiniteSet(1 .. n) /\ Cardinality(1 .. n) = IF 1 > n THEN 0 ELSE n - 1 + 1
    BY <1>1, FS_Interval
  <2>2. QED
    BY <1>1, <2>1
<1>3. v \in [S -> Int] /\ \A x \in S : v[x] = Rank(t[x].key, direction)
  BY <1>1 DEF Rank
<1>a. \A x, y \in S : <<x, y>> \in R <=> v[x] < v[y] \/ (v[x] = v[y] /\ x < y)
  BY <1>3
<1>b. Orders(R, S)
  <2>1. \A x \in S : x \in Int /\ v[x] \in Int
    BY <1>1, <1>3
  <2> HIDE DEF R, S, v
  <2>2. QED
    BY <1>a, <2>1 DEF Orders
<1>4. Enumerates(o, n, S) /\ Follows(o, n, R)
  <2> HIDE DEF R, S, n, o
  <2>1. Enumerates(Ordered(S, R), Cardinality(S), S) /\ Follows(Ordered(S, R), Cardinality(S), R)
    BY <1>2, <1>b, OrderedLists
  <2>2. QED
    BY <1>2, <2>1 DEF o
<1>5. OrderBy(t, direction) = o
  <2> DEFINE Before(i, j) == LET a == t[i].key  b == t[j].key IN
                             \/ IF direction = "DESC" THEN a > b ELSE a < b
                             \/ a = b /\ i < j
  <2>1. ASSUME NEW x \in S, NEW y \in S PROVE Before(y, x) <=> <<y, x>> \in R
    <3>1. t[x].key \in Int /\ t[y].key \in Int
      BY <1>1
    <3>2. v[x] = Rank(t[x].key, direction) /\ v[y] = Rank(t[y].key, direction)
      BY <1>3
    <3>3. <<y, x>> \in R <=> v[y] < v[x] \/ (v[y] = v[x] /\ y < x)
      BY <1>a
    <3> HIDE DEF R, v
    <3>4. QED
      BY <3>1, <3>2, <3>3 DEF Rank
  <2>2. \A x \in S : {y \in S : Before(y, x)} = {y \in S : <<y, x>> \in R}
    <3> HIDE DEF Before, R
    <3>1. QED
      BY <2>1
  <2>3. OrderBy(t, direction) = [i \in 1 .. Cardinality(S) |->
             CHOOSE x \in S : Cardinality({y \in S : Before(y, x)}) = i - 1]
    BY <1>1 DEF OrderBy, InOrder
  <2> HIDE DEF Before, R, S
  <2>4. QED
    BY <2>2, <2>3 DEF o, Ordered
<1>6. /\ Aligned(Sort(t, direction), o, t) /\ Sort(t, direction) \in Seq(RowSet)
      /\ Len(Sort(t, direction)) = n
  <2>1. \A i \in S : o[i] \in S /\ o[i] # NoRow
    <3>1. o \in [1 .. n -> S]
      BY <1>4 DEF Enumerates
    <3> HIDE DEF o
    <3>2. QED
      BY <1>1, <3>1 DEF NoRow
  <2>2. DOMAIN o = 1 .. n
    BY <1>4 DEF Enumerates
  <2> DEFINE s == [i \in 1 .. n |-> t[o[i]]]
  <2> HIDE DEF o
  <2>3. Sort(t, direction) = s
    BY <1>5, <2>1, <2>2 DEF Sort, Materialize
  <2>4. s \in [1 .. n -> RowSet]
    BY <1>1, <2>1
  <2>5. s \in Seq(RowSet) /\ Len(s) = n
    <3> HIDE DEF s
    <3>1. QED
      BY <1>1, <2>4
  <2>6. QED
    BY <2>3, <2>5 DEF Aligned
<1>7. Len(Sort(t, direction)) = n
  BY <1>6
<1>8. Sorted(Sort(t, direction), direction)
  <2> DEFINE s == Sort(t, direction)
  <2>1. SUFFICES ASSUME NEW i \in 1 .. n, NEW j \in 1 .. n, i < j
                 PROVE  Rank(s[i].key, direction) <= Rank(s[j].key, direction)
    BY <1>7 DEF Sorted
  <2>2. o[i] \in S /\ o[j] \in S /\ <<o[i], o[j]>> \in R
    <3> HIDE DEF o, R
    <3>1. QED
      BY <1>4, <2>1 DEF Enumerates, Follows
  <2>3. s[i] = t[o[i]] /\ s[j] = t[o[j]]
    <3> HIDE DEF o
    <3>1. QED
      BY <1>6, <2>1 DEF Aligned
  <2> HIDE DEF o, s
  <2>4. v[o[i]] <= v[o[j]]
    <3>1. v[o[i]] \in Int /\ v[o[j]] \in Int
      BY <1>3, <2>2
    <3>2. v[o[i]] < v[o[j]] \/ v[o[i]] = v[o[j]]
      BY <1>a, <2>2
    <3> HIDE DEF v
    <3>3. QED
      BY <3>1, <3>2
  <2>5. QED
    BY <1>3, <2>2, <2>3, <2>4
<1>9. QED
  BY <1>4, <1>6, <1>7, <1>8 DEF Sorts

LEMMA KeysAreFinite ==
  ASSUME NEW t \in Seq(RowSet)
  PROVE  IsFiniteSet(KeysOf(t)) /\ Cardinality(KeysOf(t)) \in Nat /\ Cardinality(KeysOf(t)) <= Len(t)
<1> DEFINE n == Len(t)
           m == [i \in 1 .. n |-> t[i].key]
           K == KeysOf(t)
<1>1. n \in Nat /\ DOMAIN t = 1 .. n
  BY RowsHaveKeys
<1>2. K = {t[i].key : i \in 1 .. n}
  BY <1>1 DEF KeysOf
<1>3. m \in [1 .. n -> K] /\ \A k \in K : \E i \in 1 .. n : m[i] = k
  BY <1>2
<1>4. IsFiniteSet(1 .. n) /\ Cardinality(1 .. n) = n
  <2>1. IsFiniteSet(1 .. n) /\ Cardinality(1 .. n) = IF 1 > n THEN 0 ELSE n - 1 + 1
    BY <1>1, FS_Interval
  <2>2. QED
    BY <1>1, <2>1
<1> HIDE DEF m, K, n
<1>5. m \in Surjection(1 .. n, K)
  BY <1>3 DEF Surjection
<1>6. IsFiniteSet(K) /\ Cardinality(K) <= Cardinality(1 .. n)
  BY <1>4, <1>5, FS_Surjection
<1>7. QED
  BY <1>4, <1>6, FS_CardinalityType DEF K, n

(* A group by makes one row for every key.                                  *)
Groups(g, K) ==
  /\ g \in Seq(RowSet) /\ Len(g) = Cardinality(K)
  /\ \A i \in 1 .. Len(g) : g[i].key \in K /\ g[i].value = Null
  /\ \A k \in K : \E i \in 1 .. Len(g) : g[i].key = k
  /\ \A i, j \in 1 .. Len(g) : i < j => g[i].key < g[j].key

LEMMA GroupsHaveKeys ==
  ASSUME NEW t \in Seq(RowSet)
  PROVE  Groups(groupby_without_aggregations(t), KeysOf(t))
<1> DEFINE K == KeysOf(t)
           n == Cardinality(K)
           R == {p \in K \X K : p[1] < p[2]}
           o == Ordered(K, R)
           g == groupby_without_aggregations(t)
<1>1. K \subseteq Keys /\ (\A k \in K : k \in Int) /\ IsFiniteSet(K) /\ n \in Nat
  BY RowsHaveKeys, KeysAreFinite, NullKeyIsLargest
<1>2. \A x, y \in K : <<x, y>> \in R <=> x < y
  OBVIOUS
<1>3. Orders(R, K)
  <2> HIDE DEF K, R
  <2>1. QED
    BY <1>1, <1>2 DEF Orders
<1>4. Enumerates(o, n, K) /\ Follows(o, n, R)
  <2> HIDE DEF K, R
  <2>1. QED
    BY <1>1, <1>3, OrderedLists
<1>5. InOrder(K, <) = o
  <2>1. \A x \in K : {y \in K : y < x} = {y \in K : <<y, x>> \in R}
    BY <1>2
  <2>2. InOrder(K, <) = [i \in 1 .. Cardinality(K) |->
                           CHOOSE x \in K : Cardinality({y \in K : y < x}) = i - 1]
    BY DEF InOrder
  <2> HIDE DEF K, R
  <2>3. QED
    BY <2>1, <2>2 DEF Ordered
<1>6. o \in [1 .. n -> K] /\ (\A k \in K : \E i \in 1 .. n : o[i] = k)
      /\ \A i, j \in 1 .. n : i < j => <<o[i], o[j]>> \in R
  <2> HIDE DEF o, R, K, n
  <2>1. QED
    BY <1>4 DEF Enumerates, Follows
<1> HIDE DEF o
<1>7. g = [i \in 1 .. n |-> Row(o[i], Null)]
  BY <1>5, <1>6 DEF groupby_without_aggregations
<1> HIDE DEF K, n, R, g
<1>8. g \in [1 .. n -> RowSet] /\ \A i \in 1 .. n : g[i].key = o[i] /\ g[i].value = Null
  BY <1>1, <1>6, <1>7 DEF Row, RowSet
<1>9. g \in Seq(RowSet) /\ Len(g) = n
  BY <1>1, <1>8
<1>10. \A i, j \in 1 .. n : i < j => o[i] < o[j]
  BY <1>2, <1>6
<1>11. Groups(g, K)
  BY <1>6, <1>8, <1>9, <1>10 DEF Groups, n
<1>12. QED
  BY <1>11 DEF g, K

-----------------------------------------------------------------------------
(* The binary search of upper_bound: its bounds come closer with each step, *)
(* and in a sorted table they keep the row it looks for between them.       *)
BoundsOf(t) == {b \in (0 .. Len(t)) \X (0 .. Len(t)) : b[1] <= b[2]}

Between(t, pivot, b) ==
  \A j \in 1 .. Len(t) : /\ j <= b[1] => t[j].key <= pivot
                         /\ j > b[2] => t[j].key > pivot

LEMMA NarrowedBounds ==
  ASSUME NEW t \in Seq(RowSet), NEW pivot \in Int, NEW b \in BoundsOf(t)
  PROVE  /\ Narrowed(t, pivot, b) \in BoundsOf(t)
         /\ b[1] = b[2] => Narrowed(t, pivot, b) = b
         /\ b[1] # b[2] => Narrowed(t, pivot, b)[2] - Narrowed(t, pivot, b)[1] < b[2] - b[1]
         /\ Sorted(t, "ASC") /\ Between(t, pivot, b) => Between(t, pivot, Narrowed(t, pivot, b))
<1> DEFINE mid == (b[1] + b[2]) \div 2
           c == Narrowed(t, pivot, b)
<1>1. Len(t) \in Nat /\ \A i \in 1 .. Len(t) : t[i].key \in Int
  BY RowsHaveKeys
<1>2. b = <<b[1], b[2]>> /\ b[1] \in 0 .. Len(t) /\ b[2] \in 0 .. Len(t) /\ b[1] <= b[2]
  BY DEF BoundsOf
<1>3. CASE b[1] = b[2]
  <2>1. c = b
    BY <1>3 DEF Narrowed
  <2>2. QED
    BY <1>3, <2>1
<1>4. CASE b[1] # b[2]
  <2>1. mid \in Int /\ b[1] <= mid /\ mid < b[2] /\ mid + 1 \in 1 .. Len(t)
    BY <1>1, <1>2, <1>4
  <2> HIDE DEF mid
  <2>2. c = IF pivot < t[mid + 1].key THEN <<b[1], mid>> ELSE <<mid + 1, b[2]>>
    BY <1>4 DEF Narrowed, mid
  <2> HIDE DEF c
  <2>3. ASSUME Sorted(t, "ASC"), NEW i \in 1 .. Len(t), NEW j \in 1 .. Len(t), i <= j
        PROVE  t[i].key <= t[j].key
    <3>1. CASE i = j
      BY <1>1, <3>1
    <3>2. CASE i < j
      BY <2>3, <3>2 DEF Sorted, Rank
    <3>3. QED
      BY <2>3, <3>1, <3>2
  <2>4. CASE pivot < t[mid + 1].key
    <3>1. c = <<b[1], mid>> /\ c[1] = b[1] /\ c[2] = mid
      BY <2>2, <2>4
    <3>2. c \in BoundsOf(t) /\ c[2] - c[1] < b[2] - b[1]
      BY <1>1, <1>2, <2>1, <3>1 DEF BoundsOf
    <3>3. ASSUME Sorted(t, "ASC"), Between(t, pivot, b), NEW j \in 1 .. Len(t)
          PROVE  /\ j <= c[1] => t[j].key <= pivot
                 /\ j > c[2] => t[j].key > pivot
      <4>1. j <= c[1] => t[j].key <= pivot
        BY <3>1, <3>3 DEF Between
      <4>2. ASSUME j > c[2] PROVE t[j].key > pivot
        <5>1. mid + 1 <= j
          BY <2>1, <3>1, <4>2
        <5>2. t[mid + 1].key <= t[j].key /\ t[mid + 1].key \in Int /\ t[j].key \in Int
          BY <1>1, <2>1, <2>3, <3>3, <5>1
        <5>3. QED
          BY <2>4, <5>2
      <4>3. QED
        BY <4>1, <4>2
    <3>4. QED
      BY <1>4, <3>2, <3>3 DEF Between, c
  <2>5. CASE ~(pivot < t[mid + 1].key)
    <3>1. c = <<mid + 1, b[2]>> /\ c[1] = mid + 1 /\ c[2] = b[2]
      BY <2>2, <2>5
    <3>2. c \in BoundsOf(t) /\ c[2] - c[1] < b[2] - b[1]
      BY <1>1, <1>2, <2>1, <3>1 DEF BoundsOf
    <3>3. ASSUME Sorted(t, "ASC"), Between(t, pivot, b), NEW j \in 1 .. Len(t)
          PROVE  /\ j <= c[1] => t[j].key <= pivot
                 /\ j > c[2] => t[j].key > pivot
      <4>1. j > c[2] => t[j].key > pivot
        BY <3>1, <3>3 DEF Between
      <4>2. ASSUME j <= c[1] PROVE t[j].key <= pivot
        <5>1. j <= mid + 1
          BY <2>1, <3>1, <4>2
        <5>2. t[j].key <= t[mid + 1].key /\ t[mid + 1].key \in Int /\ t[j].key \in Int
          BY <1>1, <2>1, <2>3, <3>3, <5>1
        <5>3. QED
          BY <2>5, <5>2
      <4>3. QED
        BY <4>1, <4>2
    <3>4. QED
      BY <1>4, <3>2, <3>3 DEF Between, c
  <2>6. QED
    BY <2>4, <2>5
<1>5. QED
  BY <1>3, <1>4

(* Where a table is cut: in a sorted one, after the rows up to the pivot.   *)
CutsAt(u, t, pivot) ==
  /\ u \in 0 .. Len(t)
  /\ Sorted(t, "ASC") => \A j \in 1 .. Len(t) : t[j].key <= pivot <=> j <= u

LEMMA UpperBoundCuts ==
  ASSUME NEW t \in Seq(RowSet), NEW pivot \in Int
  PROVE  CutsAt(UpperBound(t, pivot), t, pivot)
<1> DEFINE n == Len(t)
           X == BoundsOf(t)
           b == <<0, n>>
           step == [i \in 1 .. n |-> [q \in X |-> Narrowed(t, pivot, q)]]
<1>1. n \in Nat /\ \A i \in 1 .. n : t[i].key \in Int
  BY RowsHaveKeys
<1>2. b \in X
  BY <1>1 DEF BoundsOf
<1>3. step \in [1 .. n -> [X -> X]]
  <2>1. \A q \in X : Narrowed(t, pivot, q) \in X
    BY NarrowedBounds
  <2> HIDE DEF X, n
  <2>2. QED
    BY <2>1
<1>4. PICK f \in [0 .. n -> X] : Recursive(f, n, b, step)
  <2> HIDE DEF X, n, step, b
  <2>1. QED
    BY <1>1, <1>2, <1>3, RecursionExists
<1>5. f[0] = b /\ \A i \in 1 .. n : f[i] = Narrowed(t, pivot, f[i - 1])
  <2>1. ASSUME NEW i \in 1 .. n PROVE f[i] = Narrowed(t, pivot, f[i - 1])
    <3>1. i - 1 \in 0 .. n
      BY <1>1
    <3>2. f[i] = step[i][f[i - 1]] /\ f[i - 1] \in X
      <4> HIDE DEF step, X
      <4>1. QED
        BY <1>4, <3>1 DEF Recursive
    <3> HIDE DEF X
    <3>3. QED
      BY <3>2
  <2>2. QED
    BY <1>4, <2>1 DEF Recursive
<1> HIDE DEF X, step
<1> DEFINE E(k, i) == IF i = 0 THEN <<0, Len(t)>> ELSE Narrowed(t, pivot, k[i - 1])
           Def(k) == k = [i \in 0 .. Len(t) |-> E(k, i)]
           K == CHOOSE k : Def(k)
<1>6. Def(f)
  <2>1. ASSUME NEW i \in 0 .. n PROVE f[i] = E(f, i)
    <3>1. CASE i = 0
      BY <1>5, <3>1
    <3>2. CASE i # 0
      <4>1. i \in 1 .. n
        BY <1>1, <3>2
      <4>2. QED
        BY <1>5, <3>2, <4>1
    <3>3. QED
      BY <3>1, <3>2
  <2> HIDE DEF E
  <2>2. QED
    BY <1>4, <2>1
<1>7. Def(K)
  <2> HIDE DEF Def
  <2>1. QED
    BY <1>6
<1>8. UpperBound(t, pivot) = K[n][1]
  BY DEF UpperBound
<1> HIDE DEF K
<1>9. \A i \in 0 .. n : K[i] = E(K, i)
  <2>1. K = [i \in 0 .. n |-> E(K, i)]
    BY <1>7
  <2> HIDE DEF E
  <2>2. QED
    BY <2>1
<1> DEFINE Good(m) == /\ K[m] \in BoundsOf(t)
                      /\ K[m][2] - K[m][1] <= n - m
                      /\ Sorted(t, "ASC") => Between(t, pivot, K[m])
           I == {m \in Nat : m <= n => Good(m)}
<1>10. 0 \in I
  <2>1. K[0] = <<0, n>>
    BY <1>1, <1>9
  <2>2. Between(t, pivot, <<0, n>>)
    BY <1>1 DEF Between
  <2>3. Good(0)
    BY <1>1, <1>2, <2>1, <2>2 DEF X
  <2>4. QED
    BY <2>3
<1>11. ASSUME NEW m \in Nat, m \in I PROVE m + 1 \in I
  <2>1. SUFFICES ASSUME m + 1 <= n PROVE Good(m + 1)
    OBVIOUS
  <2>2. m + 1 \in 0 .. n /\ m + 1 # 0 /\ (m + 1) - 1 = m /\ m <= n
    BY <1>1, <2>1
  <2>3. K[m + 1] = Narrowed(t, pivot, K[m])
    BY <1>9, <2>2
  <2>4. Good(m)
    BY <1>11, <2>2
  <2> DEFINE c == K[m]
             d == Narrowed(t, pivot, c)
  <2>5. c \in BoundsOf(t) /\ c[2] - c[1] <= n - m /\ c[1] \in Int /\ c[2] \in Int /\ c[1] <= c[2]
    BY <2>4 DEF BoundsOf
  <2> HIDE DEF c
  <2>6. /\ d \in BoundsOf(t) /\ (c[1] = c[2] => d = c) /\ (c[1] # c[2] => d[2] - d[1] < c[2] - c[1])
        /\ Sorted(t, "ASC") /\ Between(t, pivot, c) => Between(t, pivot, d)
    BY <2>5, NarrowedBounds
  <2> HIDE DEF d
  <2>7. d[1] \in Int /\ d[2] \in Int
    BY <2>6 DEF BoundsOf
  <2>8. d[2] - d[1] <= n - (m + 1)
    BY <1>1, <2>1, <2>5, <2>6, <2>7
  <2>9. Sorted(t, "ASC") => Between(t, pivot, d)
    BY <2>4, <2>6 DEF c
  <2>10. K[m + 1] = d
    BY <2>3 DEF d, c
  <2>11. QED
    BY <2>6, <2>8, <2>9, <2>10
<1> HIDE DEF I
<1>12. n \in I
  BY <1>1, <1>10, <1>11, SetInduction
<1>13. Good(n)
  BY <1>1, <1>12 DEF I
<1> DEFINE c == K[n]
<1>14. c[1] \in 0 .. n /\ c[1] = c[2]
  <2>1. c \in BoundsOf(t) /\ c[2] - c[1] <= n - n
    BY <1>13
  <2> HIDE DEF c
  <2>2. QED
    BY <1>1, <2>1 DEF BoundsOf
<1>15. Sorted(t, "ASC") => Between(t, pivot, c)
  BY <1>13
<1> HIDE DEF c, Good
<1>16. ASSUME Sorted(t, "ASC"), NEW j \in 1 .. Len(t) PROVE t[j].key <= pivot <=> j <= c[1]
  <2>1. (j <= c[1] => t[j].key <= pivot) /\ (j > c[2] => t[j].key > pivot)
    BY <1>15, <1>16 DEF Between
  <2>2. QED
    BY <1>1, <1>14, <2>1
<1>17. UpperBound(t, pivot) = c[1]
  BY <1>8 DEF c
<1>18. QED
  BY <1>14, <1>16, <1>17 DEF CutsAt

-----------------------------------------------------------------------------
(* The parts of a table are the whole of it, and a row is where it was cut. *)
PartsOf(P, s) == P \in [Node -> Seq(RowSet)] /\ FlattenSeq(P) = s

CutBy(P, t, indices) ==
  \A d \in Node : \A k \in KeysOf(P[d]) : \E i \in 1 .. Len(t) :
    t[i].key = k /\ (d > 1 => indices[d - 1] < i) /\ (d < N => i <= indices[d])

LEMMA PartsOfNothing == PartsOf([n \in Node |-> <<>>], <<>>)
<1> DEFINE P == [n \in Node |-> <<>>]
           b == [i \in 0 .. N |-> 0]
           t == <<>>
<1>1. N \in Nat /\ N \in 0 .. N /\ 0 \in 0 .. N /\ t \in Seq(RowSet) /\ Len(t) = 0
  BY Distributed
<1>2. b \in [0 .. N -> 0 .. Len(t)] /\ b[0] = 0 /\ b[N] = Len(t) /\ \A i \in 1 .. N : b[i - 1] <= b[i]
  BY <1>1
<1>3. FlattenSeq([i \in 1 .. N |-> SubSeq(t, b[i - 1] + 1, b[i])]) = t
  <2> HIDE DEF t, b
  <2>1. QED
    BY <1>1, <1>2, FlattenPieces
<1>4. ASSUME NEW i \in 1 .. N PROVE SubSeq(t, b[i - 1] + 1, b[i]) = <<>>
  <2>1. b[i - 1] = 0 /\ b[i] = 0
    BY <1>1
  <2> HIDE DEF t, b
  <2>2. QED
    BY <2>1, SubSeqEmpty
<1>5. [i \in 1 .. N |-> SubSeq(t, b[i - 1] + 1, b[i])] = P
  <2> HIDE DEF t, b
  <2>1. QED
    BY <1>4 DEF Node
<1>6. P \in [Node -> Seq(RowSet)]
  OBVIOUS
<1>7. QED
  BY <1>3, <1>5, <1>6 DEF PartsOf

LEMMA SplitParts ==
  ASSUME NEW t \in Seq(RowSet), NEW indices \in [1 .. N - 1 -> 0 .. Len(t)],
         \A i, j \in 1 .. N - 1 : i < j => indices[i] <= indices[j]
  PROVE  PartsOf(Split(t, indices), t) /\ CutBy(Split(t, indices), t, indices)
<1> DEFINE b == [i \in 0 .. N |-> IF i = 0 THEN 0 ELSE IF i = N THEN Len(t) ELSE indices[i]]
           P == Split(t, indices)
<1>1. N \in Nat /\ N > 1 /\ Len(t) \in Nat /\ \A i \in 1 .. Len(t) : t[i] \in RowSet
  BY Distributed, RowsHaveKeys
<1>2. /\ b[0] = 0 /\ b[N] = Len(t) /\ \A i \in 1 .. N - 1 : b[i] = indices[i]
  BY <1>1
<1>3. ASSUME NEW i \in 0 .. N PROVE b[i] \in 0 .. Len(t)
  <2>1. CASE i \in 1 .. N - 1
    BY <1>1, <1>2, <2>1
  <2>2. CASE i = 0 \/ i = N
    BY <1>1, <1>2, <2>2
  <2>3. QED
    BY <1>1, <2>1, <2>2
<1>4. b \in [0 .. N -> 0 .. Len(t)]
  BY <1>3
<1> HIDE DEF b
<1>5. ASSUME NEW i \in 1 .. N PROVE b[i - 1] <= b[i]
  <2>1. b[i - 1] \in 0 .. Len(t) /\ b[i] \in 0 .. Len(t)
    BY <1>1, <1>3
  <2>2. CASE i = 1
    BY <1>2, <2>1, <2>2
  <2>3. CASE i = N
    BY <1>2, <2>1, <2>3
  <2>4. CASE i # 1 /\ i # N
    <3>1. i - 1 \in 1 .. N - 1 /\ i \in 1 .. N - 1 /\ i - 1 < i
      BY <1>1, <2>4
    <3>2. QED
      BY <1>2, <3>1
  <2>5. QED
    BY <2>2, <2>3, <2>4
<1>6. FlattenSeq([i \in 1 .. N |-> SubSeq(t, b[i - 1] + 1, b[i])]) = t
  BY <1>1, <1>2, <1>4, <1>5, FlattenPieces
<1>7. ASSUME NEW n \in Node PROVE P[n] = SubSeq(t, b[n - 1] + 1, b[n])
  <2>1. n \in 1 .. N
    BY DEF Node
  <2>2. (IF n = 1 THEN 0 ELSE indices[n - 1]) = b[n - 1]
    BY <1>1, <1>2, <2>1
  <2>3. (IF n = N THEN Len(t) ELSE indices[n]) = b[n]
    BY <1>1, <1>2, <2>1
  <2>4. P[n] = SubSeq(t, (IF n = 1 THEN 0 ELSE indices[n - 1]) + 1, IF n = N THEN Len(t) ELSE indices[n])
    BY DEF Split
  <2>5. QED
    BY <2>2, <2>3, <2>4
<1>8. P = [i \in 1 .. N |-> SubSeq(t, b[i - 1] + 1, b[i])]
  <2>1. P = [n \in Node |-> P[n]]
    BY DEF Split
  <2> HIDE DEF P
  <2>2. QED
    BY <1>7, <2>1 DEF Node
<1>9. ASSUME NEW n \in Node
      PROVE  /\ P[n] \in Seq(RowSet)
             /\ \A j \in 1 .. Len(P[n]) : \E i \in 1 .. Len(t) :
                  P[n][j] = t[i] /\ b[n - 1] < i /\ i <= b[n]
  <2> DEFINE lo == b[n - 1] + 1
             hi == b[n]
             p == SubSeq(t, lo, hi)
  <2>1. n \in 1 .. N /\ n - 1 \in 0 .. N /\ n \in 0 .. N
    BY <1>1 DEF Node
  <2>2. lo \in 1 .. Len(t) + 1 /\ hi \in 0 .. Len(t) /\ lo <= hi + 1 /\ b[n - 1] = lo - 1
    BY <1>1, <1>3, <1>5, <2>1
  <2> HIDE DEF lo, hi
  <2>3. \A i \in lo .. hi : t[i] \in RowSet
    BY <1>1, <2>2
  <2>4. /\ p \in Seq(RowSet) /\ Len(p) = IF lo <= hi THEN hi - lo + 1 ELSE 0
        /\ \A j \in 1 .. hi - lo + 1 : p[j] = t[lo + j - 1]
    BY <2>2, <2>3, SubSeqProperties
  <2>5. P[n] = p
    BY <1>7 DEF lo, hi
  <2> HIDE DEF p
  <2>6. ASSUME NEW j \in 1 .. Len(p)
        PROVE  \E i \in 1 .. Len(t) : p[j] = t[i] /\ lo - 1 < i /\ i <= hi
    <3>1. Len(p) = hi - lo + 1
      BY <2>2, <2>4
    <3>2. j \in 1 .. hi - lo + 1
      BY <3>1
    <3>3. lo + j - 1 \in 1 .. Len(t) /\ lo - 1 < lo + j - 1 /\ lo + j - 1 <= hi
      BY <1>1, <2>2, <3>2
    <3>4. p[j] = t[lo + j - 1]
      BY <2>4, <3>2
    <3>5. QED
      BY <3>3, <3>4
  <2>7. QED
    BY <2>2, <2>4, <2>5, <2>6 DEF hi
<1>10. PartsOf(P, t)
  <2>1. P \in [Node -> Seq(RowSet)]
    <3>1. P = [n \in Node |-> P[n]]
      BY DEF Split
    <3> HIDE DEF P
    <3>2. QED
      BY <1>9, <3>1
  <2>2. QED
    BY <1>6, <1>8, <2>1 DEF PartsOf
<1>11. ASSUME NEW d \in Node, NEW k \in KeysOf(P[d])
       PROVE  \E i \in 1 .. Len(t) :
                t[i].key = k /\ (d > 1 => indices[d - 1] < i) /\ (d < N => i <= indices[d])
  <2>1. P[d] \in Seq(RowSet)
    BY <1>9
  <2>2. PICK j \in 1 .. Len(P[d]) : P[d][j].key = k
    <3> HIDE DEF P
    <3>1. DOMAIN P[d] = 1 .. Len(P[d])
      BY <2>1
    <3>2. QED
      BY <3>1 DEF KeysOf
  <2>3. PICK i \in 1 .. Len(t) : P[d][j] = t[i] /\ b[d - 1] < i /\ i <= b[d]
    BY <1>9
  <2>4. d \in 1 .. N
    BY DEF Node
  <2>5. d > 1 => indices[d - 1] < i
    <3>1. d > 1 => d - 1 \in 1 .. N - 1
      BY <1>1, <2>4
    <3>2. QED
      BY <1>2, <2>3, <3>1
  <2>6. d < N => i <= indices[d]
    <3>1. d < N => d \in 1 .. N - 1
      BY <1>1, <2>4
    <3>2. QED
      BY <1>2, <2>3, <3>1
  <2>7. QED
    BY <2>2, <2>3, <2>5, <2>6
<1>12. QED
  BY <1>10, <1>11 DEF CutBy

-----------------------------------------------------------------------------
(* partitionData: as many pivots are below a key as nodes come before the   *)
(* one it goes to, whatever table it is in.                                 *)
PlacedByPivots(P, plan) ==
  \A d \in Node : \A k \in KeysOf(P[d]) :
    Cardinality({i \in 1 .. N - 1 : plan[i] < k}) = d - 1

LEMMA PartitionFacts ==
  ASSUME NEW t \in Seq(RowSet), NEW isTableSorted \in BOOLEAN,
         pivots \in [1 .. N - 1 -> Keys],
         NEW s, s = IF isTableSorted THEN t ELSE Sort(t, "ASC")
  PROVE  /\ PartsOf(partitionData(t, isTableSorted), s)
         /\ Sorted(s, "ASC") => PlacedByPivots(partitionData(t, isTableSorted), pivots)
<1>1. s \in Seq(RowSet) /\ Len(s) = Len(t)
  BY SortOrders DEF Sorts
<1> DEFINE M == 1 .. N - 1
           P == partitionData(t, isTableSorted)
<1>2. N \in Nat /\ N > 1 /\ N - 1 \in Nat /\ Len(s) \in Nat
  BY <1>1, Distributed, RowsHaveKeys
<1>3. \A i \in M : pivots[i] \in Keys /\ pivots[i] \in Int
  BY NullKeyIsLargest
<1>4. CASE t = <<>>
  <2>1. s = <<>>
    BY <1>1, <1>4, EmptySeq
  <2>2. P = [n \in Node |-> <<>>]
    BY <1>4 DEF partitionData
  <2>3. PlacedByPivots(P, pivots)
    <3>1. \A d \in Node : P[d] = <<>>
      BY <2>2
    <3>2. KeysOf(<<>>) = {}
      BY DEF KeysOf
    <3> HIDE DEF P
    <3>3. QED
      BY <3>1, <3>2 DEF PlacedByPivots
  <2>4. QED
    BY <2>1, <2>2, <2>3, PartsOfNothing
<1>5. CASE t # <<>>
  <2> DEFINE indexes == [i \in M |-> UpperBound(s, pivots[i])]
             order == Ranked(indexes)
             cuts == [i \in M |-> indexes[order[i]]]
  <2>1. DOMAIN pivots = M
    OBVIOUS
  <2>2. P = Split(s, cuts)
    BY <1>5, <2>1 DEF partitionData
  <2> HIDE DEF P
  <2>3. ASSUME NEW i \in M PROVE CutsAt(indexes[i], s, pivots[i])
    BY <1>1, <1>3, UpperBoundCuts
  <2>4. indexes \in [M -> 0 .. Len(s)]
    <3>1. \A i \in M : indexes[i] \in 0 .. Len(s)
      BY <2>3 DEF CutsAt
    <3>2. QED
      BY <3>1
  <2> HIDE DEF indexes
  <2>5. indexes \in [1 .. N - 1 -> Int]
    BY <1>2, <2>4
  <2>6. Enumerates(order, N - 1, M) /\ \A i, j \in M : i < j => cuts[i] <= cuts[j]
    <3>1. /\ Enumerates(Ranked(indexes), N - 1, 1 .. N - 1)
          /\ \A i, j \in 1 .. N - 1 : i < j => indexes[Ranked(indexes)[i]] <= indexes[Ranked(indexes)[j]]
      <4> DEFINE n == N - 1
      <4>1. n \in Nat /\ indexes \in [1 .. n -> Int]
        BY <1>2, <2>5
      <4> HIDE DEF n
      <4>2. /\ Enumerates(Ranked(indexes), n, 1 .. n)
            /\ \A i, j \in 1 .. n : i < j => indexes[Ranked(indexes)[i]] <= indexes[Ranked(indexes)[j]]
        BY <4>1, RankedLists
      <4>3. QED
        BY <4>2 DEF n
    <3>2. QED
      BY <3>1
  <2>7. /\ order \in [M -> M]
        /\ \A x \in M : \E i \in M : order[i] = x
        /\ \A i, j \in M : order[i] = order[j] => i = j
    BY <2>6 DEF Enumerates
  <2> HIDE DEF order
  <2>8. cuts \in [1 .. N - 1 -> 0 .. Len(s)]
    BY <2>4, <2>7
  <2>9. \A i \in M : cuts[i] = indexes[order[i]] /\ cuts[i] \in 0 .. Len(s)
    BY <2>8
  <2> HIDE DEF cuts
  <2>10. PartsOf(P, s) /\ CutBy(P, s, cuts)
    BY <1>1, <2>2, <2>6, <2>8, SplitParts
  <2>11. ASSUME Sorted(s, "ASC"), NEW d \in Node, NEW k \in KeysOf(P[d])
         PROVE  Cardinality({i \in 1 .. N - 1 : pivots[i] < k}) = d - 1
    <3>1. PICK i \in 1 .. Len(s) :
            s[i].key = k /\ (d > 1 => cuts[d - 1] < i) /\ (d < N => i <= cuts[d])
      BY <2>10 DEF CutBy
    <3>2. d \in 1 .. N /\ k \in Int
      BY <1>1, <3>1, RowsHaveKeys DEF Node
    <3> DEFINE A == 1 .. d - 1
               B == {x \in 1 .. N - 1 : pivots[x] < k}
               m == [x \in A |-> order[x]]
    <3>3. ASSUME NEW x \in M PROVE cuts[x] < i <=> pivots[order[x]] < k
      <4>1. order[x] \in M
        BY <2>7
      <4>2. CutsAt(indexes[order[x]], s, pivots[order[x]])
        BY <2>3, <4>1
      <4>3. k <= pivots[order[x]] <=> i <= cuts[x]
        BY <2>9, <2>11, <3>1, <4>2 DEF CutsAt
      <4>4. pivots[order[x]] \in Int /\ cuts[x] \in Int /\ i \in Int
        BY <1>3, <2>9, <4>1
      <4>5. QED
        BY <3>2, <4>3, <4>4
    <3>4. ASSUME NEW x \in M PROVE cuts[x] < i <=> x <= d - 1
      <4>1. x \in Int /\ cuts[x] \in Int /\ i \in Int
        BY <2>9
      <4>2. ASSUME x <= d - 1 PROVE cuts[x] < i
        <5>1. d > 1 /\ d - 1 \in M
          BY <1>2, <3>2, <4>2
        <5>2. cuts[d - 1] < i /\ cuts[d - 1] \in Int
          BY <2>9, <3>1, <5>1
        <5>3. x = d - 1 \/ x < d - 1
          BY <3>2, <4>1, <4>2
        <5>4. cuts[x] <= cuts[d - 1]
          BY <2>6, <4>1, <5>1, <5>2, <5>3
        <5>5. QED
          BY <4>1, <5>2, <5>4
      <4>3. ASSUME ~(x <= d - 1) PROVE ~(cuts[x] < i)
        <5>1. d < N /\ d \in M
          BY <1>2, <3>2, <4>3
        <5>2. i <= cuts[d] /\ cuts[d] \in Int
          BY <2>9, <3>1, <5>1
        <5>3. x = d \/ d < x
          BY <3>2, <4>1, <4>3
        <5>4. cuts[d] <= cuts[x]
          BY <2>6, <4>1, <5>1, <5>2, <5>3
        <5>5. QED
          BY <4>1, <5>2, <5>4
      <4>4. QED
        BY <4>2, <4>3
    <3>5. \A x \in A : x \in M /\ x <= d - 1
      BY <1>2, <3>2
    <3>6. IsFiniteSet(A) /\ Cardinality(A) = d - 1
      <4>1. 1 \in Int /\ d - 1 \in Int
        BY <3>2
      <4>2. IsFiniteSet(1 .. d - 1) /\ Cardinality(1 .. d - 1) = IF 1 > d - 1 THEN 0 ELSE d - 1 - 1 + 1
        BY <4>1, FS_Interval
      <4>3. QED
        BY <3>2, <4>2
    <3>7. m \in [A -> B]
      <4>1. ASSUME NEW x \in A PROVE order[x] \in B
        BY <2>7, <3>3, <3>4, <3>5
      <4> HIDE DEF A, B
      <4>2. QED
        BY <4>1
    <3>8. ASSUME NEW y \in B PROVE \E x \in A : m[x] = y
      <4>1. y \in M /\ pivots[y] < k
        OBVIOUS
      <4>2. PICK x \in M : order[x] = y
        BY <2>7, <4>1
      <4>3. x <= d - 1
        BY <3>3, <3>4, <4>1, <4>2
      <4>4. x \in A
        BY <3>2, <4>3
      <4> HIDE DEF A, B
      <4>5. QED
        BY <4>2, <4>4
    <3>9. \A x, y \in A : m[x] = m[y] => x = y
      <4> HIDE DEF A
      <4>1. QED
        BY <2>7, <3>5
    <3> HIDE DEF A, B, m
    <3>10. Cardinality(B) = Cardinality(A)
      BY <3>6, <3>7, <3>8, <3>9, CountMoved
    <3>11. QED
      BY <3>6, <3>10 DEF B
  <2>12. QED
    BY <2>10, <2>11 DEF PlacedByPivots, P
<1>6. QED
  BY <1>4, <1>5

-----------------------------------------------------------------------------
(* generateJoinPartitions: the parts are the whole table in another order,  *)
(* and the hash of a key tells the node it goes to.                         *)
PlacedByHash(P, hashed) == \A d \in Node : \A k \in KeysOf(P[d]) : hashed[k] = d

LEMMA HashFacts ==
  ASSUME NEW t \in Seq(RowSet), hash \in [Keys -> Node]
  PROVE  /\ \E s \in Seq(RowSet) : PartsOf(generateJoinPartitions(t), s) /\ SameCounts(s, t)
         /\ PlacedByHash(generateJoinPartitions(t), hash)
<1> DEFINE P == generateJoinPartitions(t)
<1>1. N \in Nat /\ N > 1 /\ N \in 0 .. N /\ Len(t) \in Nat /\ DOMAIN t = 1 .. Len(t)
  BY Distributed, RowsHaveKeys
<1>2. CASE t = <<>>
  <2>1. P = [n \in Node |-> <<>>]
    BY <1>2 DEF generateJoinPartitions
  <2>2. PlacedByHash(P, hash)
    <3>1. \A d \in Node : P[d] = <<>>
      BY <2>1
    <3>2. KeysOf(<<>>) = {}
      BY DEF KeysOf
    <3> HIDE DEF P
    <3>3. QED
      BY <3>1, <3>2 DEF PlacedByHash
  <2>3. SameCounts(t, t)
    BY DEF SameCounts
  <2>4. QED
    BY <1>2, <2>1, <2>2, <2>3, PartsOfNothing
<1>3. CASE t # <<>>
  <2> DEFINE S(n) == {r \in ToSet(t) : hash[r.key] = n}
             U(n) == {r \in RowSet : hash[r.key] <= n}
             f == [n \in Node |-> Kept(t, S(n))]
             b == [n \in 0 .. N |-> CountIn(t, U(n))]
             offset == [n \in 1 .. N - 1 |-> Cardinality({i \in DOMAIN t : hash[t[i].key] <= n})]
             s == FlattenSeq(f)
  <2>1. P = Split(s, offset)
    BY <1>3 DEF generateJoinPartitions
  <2>2. /\ \A i \in 1 .. Len(t) : t[i] \in RowSet /\ t[i].key \in Keys
        /\ \A r \in RowSet : hash[r.key] \in Node /\ hash[r.key] \in 1 .. N
    BY RowsHaveKeys DEF RowSet, Node
  <2>3. ToSet(t) \subseteq RowSet /\ ToSet(t) = {t[i] : i \in 1 .. Len(t)}
    BY Elements
  <2>4. ASSUME NEW n \in Node
        PROVE  /\ Kept(t, S(n)) \in Seq(RowSet \cap S(n))
               /\ Kept(t, S(n)) \in Seq(RowSet)
               /\ \A k \in KeysOf(Kept(t, S(n))) : hash[k] = n
               /\ \A Q : CountIn(Kept(t, S(n)), Q) = CountIn(t, S(n) \cap Q)
               /\ Len(Kept(t, S(n))) = CountIn(t, S(n))
    <3> DEFINE Sn == S(n)
               K == Kept(t, Sn)
    <3>1. Sn \subseteq RowSet /\ \A r \in Sn : hash[r.key] = n
      BY <2>3
    <3> HIDE DEF Sn
    <3>2. K \in Seq(RowSet \cap Sn)
      BY KeptType
    <3>3. \A Q : CountIn(K, Q) = CountIn(t, Sn \cap Q)
      BY CountKept
    <3> HIDE DEF K
    <3>4. K \in Seq(RowSet) /\ Len(K) \in Nat /\ DOMAIN K = 1 .. Len(K)
          /\ \A i \in 1 .. Len(K) : K[i] \in RowSet \cap Sn
      BY <3>2
    <3>5. \A k \in KeysOf(K) : hash[k] = n
      BY <3>1, <3>4 DEF KeysOf
    <3>6. CountIn(K, Sn) = Len(K) /\ Sn \cap Sn = Sn
      BY <3>2, CountAll
    <3>7. QED
      BY <3>2, <3>3, <3>4, <3>5, <3>6 DEF K, Sn
  <2>5. f \in Seq(Seq(RowSet)) /\ Len(f) = N /\ f \in [Node -> Seq(RowSet)]
    <3>1. f \in [Node -> Seq(RowSet)]
      <4> HIDE DEF S
      <4>1. QED
        BY <2>4
    <3> HIDE DEF f
    <3> DEFINE X == Seq(RowSet)
    <3>2. f \in [1 .. N -> X]
      BY <3>1 DEF Node
    <3> HIDE DEF X
    <3>3. f \in Seq(X) /\ Len(f) = N
      BY <1>1, <3>2
    <3>4. QED
      BY <3>1, <3>3 DEF X
  <2>6. ASSUME NEW n \in 1 .. N, NEW Q
        PROVE  CountIn(t, U(n) \cap Q) = CountIn(t, U(n - 1) \cap Q) + CountIn(t, S(n) \cap Q)
    <3> DEFINE A == U(n - 1) \cap Q
               B == S(n) \cap Q
               C == U(n) \cap Q
               T == ToSet(t)
    <3>1. A \cap B = {}
      <4>1. ASSUME NEW r, r \in A, r \in B PROVE FALSE
        <5>1. r \in RowSet /\ hash[r.key] <= n - 1 /\ hash[r.key] = n
          BY <4>1
        <5>2. QED
          BY <5>1
      <4>2. QED
        BY <4>1
    <3>2. \A r \in T : r \in C <=> r \in A \cup B
      <4>1. ASSUME NEW r \in T PROVE r \in C <=> r \in A \cup B
        <5>1. r \in RowSet /\ hash[r.key] \in 1 .. N
          BY <2>2, <2>3
        <5>2. hash[r.key] <= n <=> hash[r.key] <= n - 1 \/ hash[r.key] = n
          BY <5>1
        <5>3. QED
          BY <5>1, <5>2
      <4>2. QED
        BY <4>1
    <3>3. t \in Seq(T)
      <4>1. \A i \in 1 .. Len(t) : t[i] \in T
        BY <2>3
      <4> HIDE DEF T
      <4>2. t = [i \in 1 .. Len(t) |-> t[i]]
        OBVIOUS
      <4>3. QED
        BY <1>1, <4>1, <4>2
    <3> HIDE DEF A, B, C, T
    <3>4. CountIn(t, C) = CountIn(t, A \cup B)
      BY <3>2, <3>3, CountWithin
    <3>5. CountIn(t, A \cup B) = CountIn(t, A) + CountIn(t, B)
      BY <3>1, CountSplit
    <3>6. QED
      BY <3>4, <3>5 DEF A, B, C
  <2>7. ASSUME NEW Q PROVE CountIn(t, U(0) \cap Q) = 0 /\ CountIn(t, U(N) \cap Q) = CountIn(t, Q)
    <3> DEFINE A == U(0) \cap Q
               C == U(N) \cap Q
               E == {}
    <3>1. \A r \in RowSet : (r \in A <=> r \in E) /\ (r \in C <=> r \in Q)
      <4>1. ASSUME NEW r \in RowSet PROVE (r \in A <=> r \in E) /\ (r \in C <=> r \in Q)
        <5>1. hash[r.key] \in 1 .. N
          BY <2>2
        <5>2. ~(hash[r.key] <= 0) /\ hash[r.key] <= N
          BY <1>1, <5>1
        <5>3. QED
          BY <5>2
      <4>2. QED
        BY <4>1
    <3> HIDE DEF A, C
    <3>2. CountIn(t, A) = CountIn(t, E) /\ CountIn(t, C) = CountIn(t, Q)
      <4> HIDE DEF E
      <4>1. QED
        BY <3>1, CountWithin
    <3>3. CountIn(t, E) = 0
      <4>1. {i \in DOMAIN t : t[i] \in E} = {}
        OBVIOUS
      <4>2. QED
        BY <4>1, FS_EmptySet DEF CountIn
    <3>4. QED
      BY <3>2, <3>3 DEF A, C
  <2>8. ASSUME NEW n \in 0 .. N PROVE b[n] = CountIn(t, U(n)) /\ b[n] \in Nat
    <3>1. b[n] = CountIn(t, U(n))
      OBVIOUS
    <3> HIDE DEF b, U
    <3>2. CountIn(t, U(n)) \in 0 .. Len(t)
      BY CountType
    <3>3. QED
      BY <1>1, <3>1, <3>2
  <2>9. b \in [0 .. N -> Nat] /\ b[0] = 0 /\ b[N] = Len(t)
    <3>1. b = [n \in 0 .. N |-> b[n]]
      OBVIOUS
    <3>2. U(0) \cap RowSet = U(0) /\ U(N) \cap RowSet = U(N)
      OBVIOUS
    <3> HIDE DEF b, U
    <3>3. CountIn(t, U(0)) = 0 /\ CountIn(t, U(N)) = CountIn(t, RowSet)
      BY <2>7, <3>2
    <3>4. CountIn(t, RowSet) = Len(t)
      BY CountAll
    <3>5. 0 \in 0 .. N
      BY <1>1
    <3>6. QED
      BY <1>1, <2>8, <3>1, <3>3, <3>4, <3>5
  <2>10. ASSUME NEW n \in 1 .. N PROVE b[n] = b[n - 1] + Len(f[n])
    <3>1. U(n) \cap RowSet = U(n) /\ U(n - 1) \cap RowSet = U(n - 1)
      OBVIOUS
    <3>2. S(n) \cap RowSet = S(n)
      BY <2>3
    <3>3. n \in 0 .. N /\ n - 1 \in 0 .. N /\ n \in Node
      BY <1>1 DEF Node
    <3>4. f[n] = Kept(t, S(n))
      BY <3>3
    <3> HIDE DEF b, U, S, f
    <3>5. CountIn(t, U(n)) = CountIn(t, U(n - 1)) + CountIn(t, S(n))
      BY <2>6, <3>1, <3>2
    <3>6. Len(f[n]) = CountIn(t, S(n))
      BY <2>4, <3>3, <3>4
    <3>7. QED
      BY <2>8, <3>3, <3>5, <3>6
  <2>11. \A n \in 1 .. N - 1 : offset[n] = b[n]
    <3>1. ASSUME NEW n \in 1 .. N - 1 PROVE offset[n] = b[n]
      <4>1. \A i \in DOMAIN t : hash[t[i].key] <= n <=> t[i] \in U(n)
        BY <1>1, <2>2
      <4>2. {i \in DOMAIN t : hash[t[i].key] <= n} = {i \in DOMAIN t : t[i] \in U(n)}
        <5> HIDE DEF U
        <5>1. QED
          BY <4>1
      <4>3. n \in 0 .. N
        BY <1>1
      <4>4. QED
        BY <2>8, <4>2, <4>3 DEF CountIn
    <3> HIDE DEF offset, b
    <3>2. QED
      BY <3>1
  <2> HIDE DEF b, offset, U
  <2>12. ASSUME NEW n \in Node PROVE P[n] = f[n]
    <3>1. n \in 1 .. N
      BY DEF Node
    <3> HIDE DEF f
    <3>2. SubSeq(s, b[n - 1] + 1, b[n]) = f[n] /\ Len(s) = b[N]
      BY <2>5, <2>9, <2>10, <3>1, PiecesOfFlat
    <3> HIDE DEF s
    <3>3. (IF n = 1 THEN 0 ELSE offset[n - 1]) = b[n - 1]
      <4>1. CASE n = 1
        <5>1. n - 1 = 0
          BY <4>1
        <5>2. QED
          BY <2>9, <4>1, <5>1
      <4>2. CASE n # 1
        <5>1. n - 1 \in 1 .. N - 1
          BY <1>1, <3>1, <4>2
        <5>2. QED
          BY <2>11, <4>2, <5>1
      <4>3. QED
        BY <4>1, <4>2
    <3>4. (IF n = N THEN Len(s) ELSE offset[n]) = b[n]
      <4>1. n # N => n \in 1 .. N - 1
        BY <1>1, <3>1
      <4>2. QED
        BY <2>11, <3>2, <4>1
    <3>5. P[n] = SubSeq(s, (IF n = 1 THEN 0 ELSE offset[n - 1]) + 1, IF n = N THEN Len(s) ELSE offset[n])
      BY <2>1 DEF Split
    <3> HIDE DEF P
    <3>6. QED
      BY <3>2, <3>3, <3>4, <3>5
  <2>13. P = f
    <3>1. P = [n \in Node |-> P[n]] /\ f = [n \in Node |-> f[n]]
      BY <2>1 DEF Split
    <3> HIDE DEF P, f
    <3>2. QED
      BY <2>12, <3>1
  <2>14. PartsOf(P, s)
    <3> HIDE DEF P, f
    <3>1. QED
      BY <2>5, <2>13 DEF PartsOf
  <2>15. PlacedByHash(P, hash)
    <3>1. \A n \in Node : f[n] = Kept(t, S(n))
      OBVIOUS
    <3> HIDE DEF P, f, S
    <3>2. QED
      BY <2>4, <2>13, <3>1 DEF PlacedByHash
  <2>16. PICK F \in [0 .. Len(f) -> Seq(RowSet)] : Concatenates(F, f) /\ s = F[Len(f)]
    <3> HIDE DEF f
    <3>1. QED
      BY <2>5, Flattened
  <2>17. s \in Seq(RowSet)
    <3> HIDE DEF f, s
    <3>1. QED
      BY <1>1, <2>5, <2>16
  <2>18. ASSUME NEW Q PROVE CountIn(s, Q) = CountIn(t, Q)
    <3> DEFINE I == {m \in Nat : m <= N => CountIn(F[m], Q) = CountIn(t, U(m) \cap Q)}
    <3>1. 0 \in I
      <4>1. F[0] = <<>>
        BY <2>16 DEF Concatenates
      <4>2. CountIn(F[0], Q) = 0 /\ CountIn(t, U(0) \cap Q) = 0
        BY <2>7, <4>1, CountNothing
      <4>3. QED
        BY <4>2
    <3>2. ASSUME NEW m \in Nat, m \in I PROVE m + 1 \in I
      <4>1. SUFFICES ASSUME m + 1 <= N PROVE CountIn(F[m + 1], Q) = CountIn(t, U(m + 1) \cap Q)
        OBVIOUS
      <4>2. m + 1 \in 1 .. N /\ m + 1 \in Node /\ (m + 1) - 1 = m /\ m \in 0 .. N /\ m <= N
        BY <1>1, <4>1 DEF Node
      <4>3. f[m + 1] = Kept(t, S(m + 1))
        BY <4>2
      <4> HIDE DEF f, S, s
      <4>4. F[m + 1] = F[m] \o f[m + 1]
        BY <2>5, <2>16, <4>2 DEF Concatenates
      <4>5. F[m] \in Seq(RowSet) /\ f[m + 1] \in Seq(RowSet)
        BY <2>5, <4>2
      <4>6. CountIn(F[m + 1], Q) = CountIn(F[m], Q) + CountIn(f[m + 1], Q)
        BY <4>4, <4>5, CountConcat
      <4>7. CountIn(f[m + 1], Q) = CountIn(t, S(m + 1) \cap Q)
        BY <2>4, <4>2, <4>3
      <4>8. CountIn(F[m], Q) = CountIn(t, U(m) \cap Q)
        BY <3>2, <4>2
      <4>9. CountIn(t, U(m + 1) \cap Q) = CountIn(t, U(m) \cap Q) + CountIn(t, S(m + 1) \cap Q)
        BY <2>6, <4>2
      <4>10. QED
        BY <4>6, <4>7, <4>8, <4>9
    <3> HIDE DEF I
    <3>3. N \in I
      BY <1>1, <3>1, <3>2, SetInduction
    <3>4. CountIn(F[N], Q) = CountIn(t, U(N) \cap Q)
      BY <1>1, <3>3 DEF I
    <3> HIDE DEF f, s
    <3>5. QED
      BY <2>5, <2>7, <2>16, <3>4
  <2>19. SameCounts(s, t)
    <3> HIDE DEF s
    <3>1. QED
      BY <2>18 DEF SameCounts
  <2> HIDE DEF P, s
  <2>20. QED
    BY <2>14, <2>15, <2>17, <2>19 DEF P
<1>4. QED
  BY <1>2, <1>3
-----------------------------------------------------------------------------
(* The keys of what a node makes of its rows before it splits them.         *)
LEMMA KeysOfSort ==
  ASSUME NEW t \in Seq(RowSet), NEW direction
  PROVE  KeysOf(Sort(t, direction)) = KeysOf(t) /\ SameCounts(Sort(t, direction), t)
<1> DEFINE s == Sort(t, direction)
           n == Len(t)
<1>1. s \in Seq(RowSet) /\ Len(s) = n
  BY SortOrders DEF Sorts
<1>2. PICK o : Enumerates(o, n, 1 .. n) /\ Aligned(s, o, t)
  BY SortOrders DEF Sorts
<1>3. DOMAIN s = 1 .. n /\ DOMAIN t = 1 .. n
  BY <1>1, RowsHaveKeys
<1> HIDE DEF s
<1>4. o \in [1 .. n -> 1 .. n] /\ (\A x \in 1 .. n : \E i \in 1 .. n : o[i] = x)
      /\ \A i \in 1 .. n : s[i] = t[o[i]]
  BY <1>2 DEF Enumerates, Aligned
<1>5. KeysOf(s) = KeysOf(t)
  <2> HIDE DEF n
  <2>1. KeysOf(s) = {s[i].key : i \in 1 .. n} /\ KeysOf(t) = {t[i].key : i \in 1 .. n}
    BY <1>3 DEF KeysOf
  <2>2. ASSUME NEW k \in KeysOf(s) PROVE k \in KeysOf(t)
    <3>1. PICK i \in 1 .. n : k = s[i].key
      BY <2>1
    <3>2. o[i] \in 1 .. n /\ s[i] = t[o[i]]
      BY <1>4
    <3>3. QED
      BY <2>1, <3>1, <3>2
  <2>3. ASSUME NEW k \in KeysOf(t) PROVE k \in KeysOf(s)
    <3>1. PICK x \in 1 .. n : k = t[x].key
      BY <2>1
    <3>2. PICK i \in 1 .. n : o[i] = x
      BY <1>4
    <3>3. s[i] = t[x]
      BY <1>4, <3>2
    <3>4. QED
      BY <2>1, <3>1, <3>3
  <2>4. QED
    BY <2>2, <2>3
<1>6. SameCounts(s, t)
  <2>1. s = [i \in 1 .. Len(t) |-> t[o[i]]]
    BY <1>2 DEF Aligned
  <2>2. QED
    BY <1>2, <2>1, CountPermuted DEF SameCounts
<1>7. QED
  BY <1>5, <1>6 DEF s

LEMMA KeysOfGroups ==
  ASSUME NEW t \in Seq(RowSet)
  PROVE  /\ groupby_without_aggregations(t) \in Seq(RowSet)
         /\ KeysOf(groupby_without_aggregations(t)) = KeysOf(t)
<1> DEFINE g == groupby_without_aggregations(t)
<1>1. Groups(g, KeysOf(t))
  BY GroupsHaveKeys
<1> HIDE DEF g
<1>2. g \in Seq(RowSet) /\ (\A i \in 1 .. Len(g) : g[i].key \in KeysOf(t))
      /\ \A k \in KeysOf(t) : \E i \in 1 .. Len(g) : g[i].key = k
  BY <1>1 DEF Groups
<1>3. DOMAIN g = 1 .. Len(g)
  BY <1>2, RowsHaveKeys
<1>4. KeysOf(g) = {g[i].key : i \in 1 .. Len(g)}
  BY <1>3 DEF KeysOf
<1>5. QED
  BY <1>2, <1>4 DEF g

(* Integers that are some have a least and a greatest.                      *)
LEMMA Extremes ==
  ASSUME NEW s \in Seq(Int), s # <<>>
  PROVE  /\ \E v \in ToSet(s) : \A w \in ToSet(s) : v <= w
         /\ \E v \in ToSet(s) : \A w \in ToSet(s) : v >= w
<1> DEFINE n == Len(s)
           o == Ranked(s)
<1>1. n \in Nat /\ n > 0 /\ s \in [1 .. n -> Int] /\ ToSet(s) = {s[i] : i \in 1 .. n}
  BY EmptySeq, Elements
<1>2. Enumerates(o, n, 1 .. n) /\ \A i, j \in 1 .. n : i < j => s[o[i]] <= s[o[j]]
  <2> HIDE DEF n
  <2>1. QED
    BY <1>1, RankedLists
<1> HIDE DEF o
<1>3. o \in [1 .. n -> 1 .. n] /\ \A x \in 1 .. n : \E i \in 1 .. n : o[i] = x
  BY <1>2 DEF Enumerates
<1> HIDE DEF n
<1>4. o[1] \in 1 .. n /\ o[n] \in 1 .. n
  <2>1. 1 \in 1 .. n /\ n \in 1 .. n
    BY <1>1
  <2>2. QED
    BY <1>3, <2>1
<1>5. ASSUME NEW x \in 1 .. n PROVE s[o[1]] <= s[x] /\ s[o[n]] >= s[x]
  <2>1. PICK i \in 1 .. n : o[i] = x
    BY <1>3
  <2>2. s[o[1]] \in Int /\ s[o[n]] \in Int /\ s[x] \in Int
    BY <1>1, <1>4
  <2>3. s[o[1]] <= s[x]
    <3>1. i = 1 \/ 1 < i
      OBVIOUS
    <3>2. 1 \in 1 .. n
      BY <1>1
    <3>3. QED
      BY <1>2, <2>1, <2>2, <3>1, <3>2
  <2>4. s[x] <= s[o[n]]
    <3>1. i = n \/ i < n
      BY <1>1
    <3>2. n \in 1 .. n
      BY <1>1
    <3>3. QED
      BY <1>2, <2>1, <2>2, <3>1, <3>2
  <2>5. QED
    BY <2>2, <2>3, <2>4
<1>6. s[o[1]] \in ToSet(s) /\ s[o[n]] \in ToSet(s)
  BY <1>1, <1>4
<1>7. \A w \in ToSet(s) : s[o[1]] <= w /\ s[o[n]] >= w
  BY <1>1, <1>5
<1>8. QED
  BY <1>6, <1>7

(* What an aggregation makes of rows is a number or null.                   *)
LEMMA ReduceType ==
  ASSUME NEW t \in Seq(RowSet), NEW agg \in Aggregation
  PROVE  Reduce(t, agg) \in Int \cup {Null}
<1> DEFINE S == {r \in ToSet(t) : r.value # Null}
           rows == Kept(t, S)
           vs == Values(t)
<1>1. rows \in Seq(RowSet \cap S)
  <2> HIDE DEF S
  <2>1. QED
    BY KeptType
<1>2. rows \in Seq(RowSet) /\ Len(rows) \in Nat /\ DOMAIN rows = 1 .. Len(rows)
      /\ \A i \in 1 .. Len(rows) : rows[i].value \in Int
  <2>1. \A r \in RowSet \cap S : r.value \in Int /\ r \in RowSet
    BY DEF RowSet
  <2> HIDE DEF S, rows
  <2>2. \A i \in 1 .. Len(rows) : rows[i] \in RowSet \cap S
    BY <1>1
  <2>3. QED
    BY <1>1, <2>1, <2>2
<1>3. vs = [i \in 1 .. Len(rows) |-> rows[i].value]
  BY <1>2 DEF Values
<1> HIDE DEF S, rows, vs
<1>4. vs \in [1 .. Len(rows) -> Int]
  BY <1>2, <1>3
<1>5. vs \in Seq(Int) /\ Len(vs) \in Nat
  BY <1>2, <1>4
<1>6. SumOf(vs) \in Int
  BY <1>5, SumIsInt
<1>7. \A x \in ToSet(vs) : x \in Int
  BY <1>5, Elements
<1>8. CASE agg = "COUNT"
  BY <1>5, <1>8 DEF Reduce, vs
<1>9. CASE agg # "COUNT" /\ vs = <<>>
  BY <1>9 DEF Reduce, vs
<1>10. CASE agg # "COUNT" /\ vs # <<>>
  <2>1. CASE agg = "SUM"
    BY <1>6, <1>10, <2>1 DEF Reduce, vs
  <2>2. CASE agg = "MIN"
    <3>1. Reduce(t, agg) = CHOOSE v \in ToSet(vs) : \A w \in ToSet(vs) : v <= w
      BY <1>10, <2>2 DEF Reduce, vs
    <3>2. Reduce(t, agg) \in ToSet(vs)
      BY <1>5, <1>10, <3>1, Extremes
    <3>3. QED
      BY <1>7, <3>2
  <2>3. CASE agg = "MAX"
    <3>1. Reduce(t, agg) = CHOOSE v \in ToSet(vs) : \A w \in ToSet(vs) : v >= w
      BY <1>10, <2>3 DEF Reduce, vs
    <3>2. Reduce(t, agg) \in ToSet(vs)
      BY <1>5, <1>10, <3>1, Extremes
    <3>3. QED
      BY <1>7, <3>2
  <2>4. CASE agg = "AVG"
    <3>1. Reduce(t, agg) = SumOf(vs) \div Len(vs)
      BY <1>10, <2>4 DEF Reduce, vs
    <3> DEFINE x == SumOf(vs)
               y == Len(vs)
    <3>2. y \in Nat /\ y > 0
      BY <1>5, <1>10, EmptySeq
    <3> HIDE DEF x, y
    <3>3. x \div y \in Int
      BY <1>6, <3>2 DEF x
    <3>4. QED
      BY <3>1, <3>3 DEF x, y
  <2>5. QED
    BY <2>1, <2>2, <2>3, <2>4, <1>10 DEF Aggregation
<1>11. QED
  BY <1>8, <1>9, <1>10
(* Aggregated rows: one for every key, or one row in all.                   *)
LEMMA AggregatedRows ==
  ASSUME NEW t \in Seq(RowSet), NEW agg \in Aggregation
  PROVE  /\ compute_aggregations(t, agg, TRUE) \in Seq(RowSet)
         /\ KeysOf(compute_aggregations(t, agg, TRUE)) = KeysOf(t)
         /\ compute_aggregations(t, agg, FALSE) \in Seq(RowSet)
<1> DEFINE g == groupby_without_aggregations(t)
           value(i) == Reduce(Keyed(t, g[i].key), agg)
           a == [i \in 1 .. Len(g) |-> Row(g[i].key, value(i))]
<1>1. g \in Seq(RowSet) /\ KeysOf(g) = KeysOf(t)
  BY KeysOfGroups
<1> HIDE DEF g
<1>2. Len(g) \in Nat /\ DOMAIN g = 1 .. Len(g) /\ \A i \in 1 .. Len(g) : g[i].key \in Keys
  BY <1>1, RowsHaveKeys
<1>3. compute_aggregations(t, agg, TRUE) = a
  BY <1>2 DEF compute_aggregations, aggregations_with_groupby, g
<1>4. ASSUME NEW k PROVE Keyed(t, k) \in Seq(RowSet)
  <2> DEFINE S == {r \in ToSet(t) : r.key = k}
  <2>1. Keyed(t, k) = Kept(t, S)
    BY DEF Keyed
  <2> HIDE DEF S
  <2>2. Kept(t, S) \in Seq(RowSet \cap S)
    BY KeptType
  <2> DEFINE X == RowSet \cap S
             Y == RowSet
             s == Kept(t, S)
  <2>3. s \in Seq(X) /\ \A x \in X : x \in Y
    BY <2>2
  <2> HIDE DEF X, Y, s
  <2>4. s \in Seq(Y)
    BY <2>3
  <2>5. QED
    BY <2>1, <2>4 DEF s, Y
<1>5. ASSUME NEW i \in 1 .. Len(g) PROVE a[i] \in RowSet /\ a[i].key = g[i].key
  <2>1. value(i) \in Int \cup {Null}
    BY <1>4, ReduceType
  <2> HIDE DEF value
  <2>2. a[i] = Row(g[i].key, value(i))
    OBVIOUS
  <2> HIDE DEF a
  <2>3. QED
    BY <1>2, <2>1, <2>2 DEF Row, RowSet
<1>6. a \in Seq(RowSet) /\ Len(a) = Len(g)
  <2>1. a = [i \in 1 .. Len(g) |-> a[i]]
    OBVIOUS
  <2> HIDE DEF a
  <2> DEFINE Y == RowSet
  <2>2. \A i \in 1 .. Len(g) : a[i] \in Y
    BY <1>5
  <2> HIDE DEF Y
  <2>3. a \in Seq(Y) /\ Len(a) = Len(g)
    BY <1>2, <2>1, <2>2
  <2>4. QED
    BY <2>3 DEF Y
<1>7. KeysOf(a) = KeysOf(g)
  <2> HIDE DEF a
  <2>1. DOMAIN a = DOMAIN g
    BY <1>2, <1>6, RowsHaveKeys
  <2>2. \A i \in DOMAIN g : a[i].key = g[i].key
    BY <1>2, <1>5
  <2>3. QED
    BY <2>1, <2>2 DEF KeysOf
<1>8. compute_aggregations(t, agg, FALSE) \in Seq(RowSet)
  <2>1. compute_aggregations(t, agg, FALSE) = <<Row(NullKey, Reduce(t, agg))>>
    BY DEF compute_aggregations, aggregations_without_groupby
  <2>2. Row(NullKey, Reduce(t, agg)) \in RowSet
    <3>1. Reduce(t, agg) \in Int \cup {Null} /\ NullKey \in Keys
      BY ReduceType, NullKeyIsLargest
    <3>2. QED
      BY <3>1 DEF Row, RowSet
  <2> DEFINE r == Row(NullKey, Reduce(t, agg))
             Y == RowSet
  <2>3. r \in Y /\ compute_aggregations(t, agg, FALSE) = <<r>>
    BY <2>1, <2>2
  <2> HIDE DEF r, Y
  <2>4. <<r>> \in Seq(Y)
    BY <2>3
  <2>5. QED
    BY <2>3, <2>4 DEF Y
<1>9. QED
  BY <1>1, <1>3, <1>6, <1>7, <1>8

-----------------------------------------------------------------------------
(* The samples are keys, and so are the pivots gathered from them: the last *)
(* row that is gathered is one of the sample.                               *)
LEMMA SamplesAreKeys ==
  ASSUME table \in Tables
  PROVE  AllSamples \subseteq Seq(Keys)
<1> DEFINE X == SUBSET Seq(Keys)
           b == {<<>>}
           With(Q, i) == {s \o t : s \in Q, t \in Samples(table[i])}
           step == [i \in 1 .. N |-> [Q \in X |-> With(Q, i)]]
           E(k, n) == IF n = 0 THEN b ELSE With(k[n - 1], n)
           Def(k) == k = [n \in 0 .. N |-> E(k, n)]
           K == CHOOSE k : Def(k)
<1>1. N \in Nat /\ 0 \in 0 .. N /\ N \in 0 .. N
  BY Distributed
<1>2. ASSUME NEW i \in 1 .. N, NEW s \in Seq(Keys), NEW t \in Samples(table[i])
      PROVE  s \o t \in Seq(Keys)
  <2> DEFINE u == table[i]
             n == SampleSize(u)
  <2>1. u \in Seq(RowSet)
    BY DEF Tables, Node, RowSet
  <2> HIDE DEF u
  <2>2. t \in [1 .. n -> KeysOf(u)] /\ KeysOf(u) \subseteq Keys /\ Len(u) \in Nat
    BY <2>1, RowsHaveKeys DEF Samples, u
  <2>3. n \in Nat
    <3>1. SampleOneIn \in Nat \ {0}
      BY RatioIsNumber
    <3> DEFINE x == Len(u) + SampleOneIn - 1
    <3>2. x \in Nat
      BY <2>2, <3>1
    <3> HIDE DEF x
    <3>3. x \div SampleOneIn \in Nat
      BY <3>1, <3>2
    <3>4. QED
      BY <3>3 DEF x, SampleSize
  <2> HIDE DEF n
  <2>4. t \in [1 .. n -> Keys]
    BY <2>2
  <2>5. t \in Seq(Keys)
    BY <2>3, <2>4
  <2>6. QED
    BY <2>5
<1>a. ASSUME NEW i \in 1 .. N, NEW Q \in X
      PROVE  With(Q, i) \in X
  <2>1. ASSUME NEW u \in With(Q, i) PROVE u \in Seq(Keys)
    <3>1. PICK s \in Q, t \in Samples(table[i]) : u = s \o t
      OBVIOUS
    <3>2. s \in Seq(Keys)
      OBVIOUS
    <3>3. QED
      BY <1>2, <3>1, <3>2
  <2> HIDE DEF With
  <2>2. QED
    BY <2>1
<1>3. step \in [1 .. N -> [X -> X]]
  <2> HIDE DEF X, With
  <2>1. QED
    BY <1>a
<1>4. b \in X
  OBVIOUS
<1> HIDE DEF With
<1>5. PICK f \in [0 .. N -> X] : Recursive(f, N, b, step)
  <2> HIDE DEF X, b, step
  <2>1. QED
    BY <1>1, <1>3, <1>4, RecursionExists
<1>6. ASSUME NEW n \in 0 .. N PROVE f[n] = E(f, n)
  <2>1. CASE n = 0
    BY <1>5, <2>1 DEF Recursive
  <2>2. CASE n # 0
    <3>1. n \in 1 .. N /\ n - 1 \in 0 .. N
      BY <1>1, <2>2
    <3>2. f[n] = step[n][f[n - 1]] /\ f[n - 1] \in X
      <4> HIDE DEF step, X
      <4>1. QED
        BY <1>5, <3>1 DEF Recursive
    <3> HIDE DEF X
    <3>3. QED
      BY <2>2, <3>1, <3>2
  <2>3. QED
    BY <2>1, <2>2
<1> HIDE DEF X, b, step
<1>7. Def(f)
  <2> HIDE DEF E
  <2>1. QED
    BY <1>5, <1>6
<1>8. Def(K)
  <2> HIDE DEF Def
  <2>1. QED
    BY <1>7
<1>9. AllSamples = K[N]
  BY DEF AllSamples, With, b
<1> HIDE DEF K
<1>10. ASSUME NEW n \in 0 .. N PROVE K[n] = E(K, n)
  <2>1. K = [j \in 0 .. N |-> E(K, j)]
    BY <1>8
  <2> HIDE DEF E
  <2>2. QED
    BY <2>1
<1> DEFINE I == {m \in Nat : m <= N => K[m] \subseteq Seq(Keys)}
<1>11. 0 \in I
  <2>1. K[0] = b
    BY <1>1, <1>10
  <2>2. QED
    BY <1>4, <2>1 DEF X
<1>12. ASSUME NEW m \in Nat, m \in I PROVE m + 1 \in I
  <2>1. SUFFICES ASSUME m + 1 <= N PROVE K[m + 1] \subseteq Seq(Keys)
    OBVIOUS
  <2>2. m + 1 \in 0 .. N /\ m + 1 \in 1 .. N /\ m + 1 # 0 /\ (m + 1) - 1 = m /\ m <= N
    BY <1>1, <2>1
  <2>3. K[m + 1] = With(K[m], m + 1)
    BY <1>10, <2>2
  <2>4. K[m] \in X
    BY <1>12, <2>2 DEF X
  <2>5. With(K[m], m + 1) \in X
    BY <1>a, <2>2, <2>4
  <2>6. QED
    BY <2>3, <2>5 DEF X
<1> HIDE DEF I
<1>13. N \in I
  BY <1>1, <1>11, <1>12, SetInduction
<1>14. QED
  BY <1>1, <1>9, <1>13 DEF I

LEMMA GatheredAreKeys ==
  ASSUME NEW sorted \in Seq(Keys)
  PROVE  Gathered(sorted) \subseteq [1 .. N - 1 -> Keys]
<1>1. CASE sorted = <<>>
  BY <1>1 DEF Gathered
<1>2. CASE sorted # <<>>
  <2> DEFINE L == Len(sorted)
             q == L \div N
  <2>1. L \in Nat /\ L > 0 /\ N \in Nat /\ N > 1
    BY <1>2, EmptySeq, Distributed
  <2> HIDE DEF L
  <2>2. q \in Nat /\ N * q <= L
    BY <2>1
  <2> HIDE DEF q
  <2>3. ASSUME NEW i \in 1 .. N - 1 PROVE i * q + 1 \in 1 .. L
    <3> DEFINE x == i * q
               y == (N - 1) * q
    <3>1. x \in Nat /\ y \in Nat /\ N * q = y + q
      BY <2>1, <2>2
    <3>2. x <= y
      <4>1. i \in Nat /\ N - 1 \in Nat /\ i <= N - 1
        BY <2>1
      <4> DEFINE k == N - 1 - i
      <4>2. k \in Nat /\ N - 1 = i + k
        BY <4>1
      <4> HIDE DEF k
      <4>3. (i + k) * q = i * q + k * q /\ k * q \in Nat
        BY <2>2, <4>1, <4>2
      <4>4. y = x + k * q
        BY <4>2, <4>3
      <4> HIDE DEF x, y
      <4>5. QED
        BY <3>1, <4>3, <4>4
    <3>3. q = 0 => x = 0
      BY <2>1
    <3> HIDE DEF x, y
    <3>4. x + 1 \in 1 .. L
      BY <2>1, <2>2, <3>1, <3>2, <3>3
    <3>5. QED
      BY <3>4 DEF x
  <2>4. Gathered(sorted) = {[i \in 1 .. N - 1 |-> sorted[i * q + 1]]}
    BY <1>2 DEF Gathered, q, L
  <2>5. \A i \in 1 .. N - 1 : sorted[i * q + 1] \in Keys
    BY <2>3 DEF L
  <2>6. QED
    BY <2>4, <2>5
<1>3. QED
  BY <1>1, <1>2

LEMMA PlansAreKeys ==
  ASSUME NEW samples \in Seq(Keys)
  PROVE  PartitionPlans(samples) \subseteq [1 .. N - 1 -> Keys]
<1> DEFINE rows == [i \in DOMAIN samples |-> Row(samples[i], Null)]
           KeyList(t) == [i \in DOMAIN t |-> t[i].key]
<1>1. rows \in Seq(RowSet)
  <2>1. DOMAIN samples = 1 .. Len(samples) /\ Len(samples) \in Nat
        /\ \A i \in 1 .. Len(samples) : samples[i] \in Keys
    OBVIOUS
  <2>2. \A i \in DOMAIN samples : Row(samples[i], Null) \in RowSet
    BY <2>1 DEF Row, RowSet
  <2> DEFINE Y == RowSet
  <2> HIDE DEF Y
  <2>3. rows \in [1 .. Len(samples) -> Y]
    BY <2>1, <2>2 DEF Y
  <2>4. rows \in Seq(Y)
    <3> HIDE DEF rows
    <3>1. QED
      BY <2>1, <2>3
  <2>5. QED
    BY <2>4 DEF Y
<1> HIDE DEF rows
<1>2. ASSUME NEW t \in Seq(RowSet) PROVE KeyList(t) \in Seq(Keys)
  <2>1. DOMAIN t = 1 .. Len(t) /\ Len(t) \in Nat /\ \A i \in 1 .. Len(t) : t[i].key \in Keys
    BY RowsHaveKeys
  <2> DEFINE s == KeyList(t)
  <2>2. s \in [1 .. Len(t) -> Keys]
    BY <2>1
  <2> HIDE DEF s
  <2>3. s \in Seq(Keys)
    BY <2>1, <2>2
  <2>4. QED
    BY <2>3 DEF s
<1>3. ASSUME NEW direction PROVE Sort(rows, direction) \in Seq(RowSet)
  BY <1>1, SortOrders DEF Sorts
<1>4. groupby_without_aggregations(rows) \in Seq(RowSet)
  BY <1>1, KeysOfGroups
<1>5. generatePartitionPlans(samples, op.how) = Gathered(KeyList(Sort(rows, op.how)))
  BY DEF generatePartitionPlans, rows
<1>6. generatePartitionPlansGroupBy(samples) = Gathered(KeyList(groupby_without_aggregations(rows)))
  BY DEF generatePartitionPlansGroupBy, rows
<1> HIDE DEF KeyList
<1>7. QED
  BY <1>2, <1>3, <1>4, <1>5, <1>6, GatheredAreKeys DEF PartitionPlans
-----------------------------------------------------------------------------
(* What every node's parts are once they are split: the rows the node had,  *)
(* or their keys, each where its key belongs.                               *)
KeepsRows(P, t) == \E s \in Seq(RowSet) : PartsOf(P, s) /\ SameCounts(s, t)
KeepsKeys(P, t) == \E s \in Seq(RowSet) : PartsOf(P, s) /\ KeysOf(s) = KeysOf(t)

Placed(P) ==
  op.how # "DESC" =>
    /\ Sampled => PlacedByPivots(P, pivots)
    /\ op.kind = "join" => PlacedByHash(P, hash)
    /\ op.kind = "total" => \A d \in Node \ {Master} : P[d] = <<>>

IsSplit(P, t) ==
  /\ P \in Tables /\ Placed(P)
  /\ op.kind \in {"sort", "join"} => KeepsRows(P, t)
  /\ op.kind \in {"group", "aggregate"} => KeepsKeys(P, t)

LEMMA OperatorKinds ==
  ASSUME op \in Operator
  PROVE  \/ op.kind = "sort" /\ op.how \in {"ASC", "DESC"}
         \/ op.kind = "group" /\ op.how = "none"
         \/ op.kind \in {"aggregate", "total"} /\ op.how \in Aggregation
         \/ op.kind = "join" /\ op.how \in {"inner", "left", "full"}
BY DEF Operator

LEMMA SortedParts ==
  ASSUME NEW t \in Seq(RowSet), pivots \in [1 .. N - 1 -> Keys]
  PROVE  /\ PlacedByPivots(partitionData(t, FALSE), pivots)
         /\ KeepsKeys(partitionData(t, FALSE), t)
         /\ partitionData(t, FALSE) \in Tables
<1> DEFINE s == Sort(t, "ASC")
<1>1. s \in Seq(RowSet) /\ Sorted(s, "ASC") /\ KeysOf(s) = KeysOf(t)
  BY SortOrders, KeysOfSort DEF Sorts
<1>2. FALSE \in BOOLEAN /\ s = IF FALSE THEN t ELSE Sort(t, "ASC")
  OBVIOUS
<1> HIDE DEF s
<1>3. PartsOf(partitionData(t, FALSE), s) /\ PlacedByPivots(partitionData(t, FALSE), pivots)
  BY <1>1, <1>2, PartitionFacts
<1>4. QED
  BY <1>1, <1>3 DEF KeepsKeys, PartsOf, Tables, RowSet

LEMMA PartitionsSplit ==
  ASSUME op \in Operator, hash \in [Keys -> Node],
         Sampled => pivots \in [1 .. N - 1 -> Keys],
         NEW t \in Seq(RowSet)
  PROVE  IsSplit(Partitions(t), t)
<1> DEFINE P == Partitions(t)
<1>1. CASE op.kind = "sort"
  <2> DEFINE s == Sort(t, op.how)
  <2>1. s \in Seq(RowSet) /\ Sorted(s, op.how) /\ SameCounts(s, t)
    BY SortOrders, KeysOfSort DEF Sorts
  <2>2. P = partitionData(s, TRUE)
    BY <1>1 DEF Partitions
  <2>3. TRUE \in BOOLEAN /\ s = IF TRUE THEN s ELSE Sort(s, "ASC")
    OBVIOUS
  <2>4. pivots \in [1 .. N - 1 -> Keys]
    BY <1>1 DEF Sampled
  <2> HIDE DEF s, P
  <2>5. PartsOf(P, s) /\ (Sorted(s, "ASC") => PlacedByPivots(P, pivots))
    BY <2>1, <2>2, <2>3, <2>4, PartitionFacts
  <2>6. op.how # "DESC" => op.how = "ASC"
    BY <1>1, OperatorKinds
  <2>7. KeepsRows(P, t) /\ P \in Tables
    BY <2>1, <2>5 DEF KeepsRows, PartsOf, Tables, RowSet
  <2>8. Placed(P)
    BY <1>1, <2>1, <2>5, <2>6 DEF Placed
  <2>9. QED
    BY <1>1, <2>7, <2>8 DEF IsSplit, P
<1>2. CASE op.kind = "group"
  <2> DEFINE g == groupby_without_aggregations(t)
  <2>1. P = partitionData(g, FALSE)
    BY <1>2 DEF Partitions
  <2>2. g \in Seq(RowSet) /\ KeysOf(g) = KeysOf(t)
    BY KeysOfGroups
  <2>3. pivots \in [1 .. N - 1 -> Keys]
    BY <1>2 DEF Sampled
  <2> HIDE DEF g, P
  <2>4. PlacedByPivots(P, pivots) /\ KeepsKeys(P, g) /\ P \in Tables
    BY <2>1, <2>2, <2>3, SortedParts
  <2>5. KeepsKeys(P, t) /\ Placed(P)
    BY <1>2, <2>2, <2>4 DEF KeepsKeys, Placed
  <2>6. QED
    BY <1>2, <2>4, <2>5 DEF IsSplit, P
<1>3. CASE op.kind = "aggregate"
  <2> DEFINE g == compute_aggregations(t, op.how, TRUE)
  <2>1. P = partitionData(g, FALSE)
    BY <1>3 DEF Partitions
  <2>2. op.how \in Aggregation
    BY <1>3, OperatorKinds
  <2>3. g \in Seq(RowSet) /\ KeysOf(g) = KeysOf(t)
    BY <2>2, AggregatedRows
  <2>4. pivots \in [1 .. N - 1 -> Keys]
    BY <1>3 DEF Sampled
  <2> HIDE DEF g, P
  <2>5. PlacedByPivots(P, pivots) /\ KeepsKeys(P, g) /\ P \in Tables
    BY <2>1, <2>3, <2>4, SortedParts
  <2>6. KeepsKeys(P, t) /\ Placed(P)
    BY <1>3, <2>3, <2>5 DEF KeepsKeys, Placed
  <2>7. QED
    BY <1>3, <2>5, <2>6 DEF IsSplit, P
<1>4. CASE op.kind = "total"
  <2> DEFINE g == compute_aggregations(t, op.how, FALSE)
  <2>1. P = [n \in Node |-> IF n = Master THEN g ELSE <<>>]
    BY <1>4 DEF Partitions, ToMaster
  <2>2. op.how \in Aggregation
    BY <1>4, OperatorKinds
  <2>3. g \in Seq(RowSet)
    BY <2>2, AggregatedRows
  <2>a. <<>> \in Seq(RowSet)
    OBVIOUS
  <2> HIDE DEF g
  <2>4. P \in [Node -> Seq(RowSet)] /\ \A d \in Node \ {Master} : P[d] = <<>>
    BY <2>1, <2>3, <2>a
  <2> HIDE DEF P
  <2>5. Placed(P) /\ P \in Tables
    BY <1>4, <2>4 DEF Placed, Sampled, Tables, RowSet
  <2>6. QED
    BY <1>4, <2>5 DEF IsSplit, P
<1>5. CASE op.kind = "join"
  <2>1. P = generateJoinPartitions(t)
    BY <1>5 DEF Partitions
  <2> HIDE DEF P
  <2>2. PlacedByHash(P, hash) /\ KeepsRows(P, t)
    BY <2>1, HashFacts DEF KeepsRows
  <2>3. P \in Tables
    BY <2>2 DEF KeepsRows, PartsOf, Tables, RowSet
  <2>4. Placed(P)
    BY <1>5, <2>2 DEF Placed, Sampled
  <2>5. QED
    BY <1>5, <2>2, <2>3, <2>4 DEF IsSplit, P
<1>6. QED
  BY <1>1, <1>2, <1>3, <1>4, <1>5, OperatorKinds

(* The inductive invariant.                                                 *)
IInv ==
  /\ TypeOK
  /\ op \in Operator
  /\ stage = "plan" => Sampled
  /\ op.kind # "join" => others = NoParts
  /\ stage \in {"merge", "done"} =>
       \A n \in Node : /\ IsSplit(parts[n], table[n])
                       /\ op.kind = "join" => IsSplit(others[n], other[n])

LEMMA NoPartsType == NoParts \in [Node -> Tables]
<1>1. <<>> \in Seq([key : Keys, value : Int \cup {Null}])
  OBVIOUS
<1>2. QED
  BY <1>1 DEF NoParts, Tables

LEMMA InitIInv == Init => IInv
<1>1. SUFFICES ASSUME Init PROVE IInv
  OBVIOUS
<1>2. op \in Operator /\ table \in Tables /\ other \in Tables
  BY <1>1, OperatorsMeetTables DEF Init
<1>3. hash \in [Keys -> Node]
  BY <1>1 DEF Init, Hashes
<1>4. stage \in {"plan", "split"} /\ (stage = "plan" <=> Sampled)
  BY <1>1 DEF Init
<1>5. parts = NoParts /\ others = NoParts /\ output = [n \in Node |-> Pending]
  BY <1>1 DEF Init
<1>6. TypeOK
  BY <1>2, <1>3, <1>4, <1>5, NoPartsType DEF TypeOK
<1>7. QED
  BY <1>2, <1>4, <1>5, <1>6 DEF IInv

LEMMA NextIInv == IInv /\ [Next]_vars => IInv'
<1> SUFFICES ASSUME IInv, [Next]_vars PROVE IInv'
  OBVIOUS
<1>1. /\ TypeOK /\ op \in Operator /\ (stage = "plan" => Sampled)
      /\ (op.kind # "join" => others = NoParts)
  BY DEF IInv
<1>2. ASSUME Plan PROVE IInv'
  <2>1. /\ stage = "plan" /\ stage' = "split" /\ UNCHANGED <<inputs, parts, others, output>>
        /\ \E s \in AllSamples : pivots' \in PartitionPlans(s)
    BY <1>2 DEF Plan
  <2>2. pivots' \in [1 .. N - 1 -> Keys]
    BY <1>1, <2>1, SamplesAreKeys, PlansAreKeys DEF TypeOK
  <2>3. TypeOK'
    BY <1>1, <2>1, <2>2 DEF TypeOK, inputs, Sampled, Done
  <2>4. (op \in Operator /\ (op.kind # "join" => others = NoParts))'
    BY <1>1, <2>1 DEF inputs, NoParts
  <2>5. QED
    BY <2>1, <2>3, <2>4 DEF IInv
<1>3. ASSUME Distribute PROVE IInv'
  <2>1. /\ stage = "split" /\ stage' = "merge" /\ UNCHANGED <<inputs, pivots, output>>
        /\ parts' = [n \in Node |-> Partitions(table[n])]
        /\ others' = IF op.kind = "join" THEN [n \in Node |-> Partitions(other[n])] ELSE others
    BY <1>3 DEF Distribute
  <2>2. op' = op /\ table' = table /\ other' = other /\ hash' = hash /\ pivots' = pivots
    BY <2>1 DEF inputs
  <2>3. /\ hash \in [Keys -> Node] /\ (Sampled => pivots \in [1 .. N - 1 -> Keys])
        /\ \A n \in Node : table[n] \in Seq(RowSet) /\ other[n] \in Seq(RowSet)
    BY <1>1, <2>1 DEF TypeOK, Tables, RowSet
  <2>4. ASSUME NEW n \in Node
        PROVE  IsSplit(Partitions(table[n]), table[n]) /\ IsSplit(Partitions(other[n]), other[n])
    BY <1>1, <2>3, PartitionsSplit
  <2>5. \A P, t : IsSplit(P, t) => IsSplit(P, t)'
    BY <2>2 DEF IsSplit, Placed, Sampled
  <2>6. ASSUME NEW n \in Node
        PROVE  /\ IsSplit(parts'[n], table'[n]) /\ parts'[n] \in Tables
               /\ op.kind = "join" => IsSplit(others'[n], other'[n]) /\ others'[n] \in Tables
    BY <2>1, <2>2, <2>4 DEF IsSplit
  <2>7. parts' \in [Node -> Tables] /\ others' \in [Node -> Tables]
    <3>1. \A n \in Node : Partitions(table[n]) \in Tables /\ Partitions(other[n]) \in Tables
      BY <2>4 DEF IsSplit
    <3>2. others \in [Node -> Tables]
      BY <1>1 DEF TypeOK
    <3>3. QED
      BY <2>1, <3>1, <3>2
  <2>8. TypeOK'
    BY <1>1, <2>1, <2>2, <2>7 DEF TypeOK, Sampled, Done
  <2>9. QED
    BY <1>1, <2>1, <2>2, <2>5, <2>6, <2>8 DEF IInv, NoParts
<1>4. ASSUME stage = "merge" \/ UNCHANGED stage,
             UNCHANGED <<inputs, pivots, parts, others>>,
             stage' \in {stage, "done"}, ~Done' => UNCHANGED output
      PROVE  IInv'
  <2>1. op' = op /\ table' = table /\ other' = other /\ hash' = hash /\ pivots' = pivots
        /\ parts' = parts /\ others' = others
    BY <1>4 DEF inputs
  <2>2. TypeOK'
    BY <1>1, <1>4, <2>1 DEF TypeOK, Sampled, Done
  <2>3. \A P, t : IsSplit(P, t) => IsSplit(P, t)'
    BY <2>1 DEF IsSplit, Placed, Sampled
  <2>4. stage' \in {"merge", "done"} => stage \in {"merge", "done"}
    BY <1>4
  <2>5. stage' = "plan" => stage = "plan"
    BY <1>4
  <2>6. QED
    BY <1>1, <2>1, <2>2, <2>3, <2>4, <2>5 DEF IInv, NoParts, Sampled
<1>5. ASSUME Merge PROVE IInv'
  <2>1. stage = "merge" /\ stage' = "done" /\ UNCHANGED <<inputs, pivots, parts, others>>
    BY <1>5 DEF Merge
  <2>2. QED
    BY <1>4, <2>1 DEF Done
<1>6. ASSUME UNCHANGED vars PROVE IInv'
  <2>1. UNCHANGED <<inputs, pivots, parts, others>> /\ UNCHANGED stage /\ UNCHANGED output
    BY <1>6 DEF vars
  <2>2. QED
    BY <1>4, <2>1
<1>7. QED
  BY <1>2, <1>3, <1>5, <1>6 DEF Next
-----------------------------------------------------------------------------
(* Rows that are counted alike are the same rows.                           *)
LEMMA CountedRows ==
  ASSUME NEW s, NEW t, SameCounts(s, t)
  PROVE  SameRows(s, t)
<1>1. ASSUME NEW u, NEW r PROVE Count(u, r) = CountIn(u, {r})
  <2>1. {i \in DOMAIN u : u[i] = r} = {i \in DOMAIN u : u[i] \in {r}}
    OBVIOUS
  <2>2. QED
    BY <2>1 DEF Count, CountIn
<1>2. QED
  BY <1>1 DEF SameRows, SameCounts

LEMMA WholeOfParts ==
  ASSUME NEW P \in Tables
  PROVE  Whole(P) = FlattenSeq(P) /\ Whole(P) \in Seq(RowSet)
<1>1. P = [n \in Node |-> P[n]]
  BY DEF Tables
<1>2. Whole(P) = FlattenSeq(P)
  BY <1>1 DEF Whole
<1> DEFINE X == Seq(RowSet)
<1>3. P \in [1 .. N -> X] /\ N \in Nat
  BY Distributed DEF Tables, Node, RowSet
<1> HIDE DEF X
<1>4. P \in Seq(X) /\ Len(P) = N
  BY <1>3
<1>5. PICK F \in [0 .. Len(P) -> Seq(RowSet)] : Concatenates(F, P) /\ FlattenSeq(P) = F[Len(P)]
  BY <1>4, Flattened DEF X
<1>6. QED
  BY <1>2, <1>3, <1>4, <1>5

LEMMA RowsKept ==
  ASSUME NEW T \in Tables, NEW P \in [Node -> Tables], \A n \in Node : KeepsRows(P[n], T[n])
  PROVE  SameRows(FlattenSeq([n \in Node |-> Whole(P[n])]), Whole(T))
<1> DEFINE f == [n \in Node |-> Whole(P[n])]
           X == Seq(RowSet)
<1>1. ASSUME NEW n \in Node
      PROVE  Whole(P[n]) \in X /\ T[n] \in X /\ SameCounts(Whole(P[n]), T[n])
  <2>1. PICK s \in Seq(RowSet) : PartsOf(P[n], s) /\ SameCounts(s, T[n])
    BY DEF KeepsRows
  <2>2. Whole(P[n]) = s
    BY <2>1, WholeOfParts DEF PartsOf
  <2>3. T[n] \in X
    BY DEF Tables, RowSet
  <2>4. QED
    BY <2>1, <2>2, <2>3
<1>2. N \in Nat /\ Node = 1 .. N /\ T = [n \in Node |-> T[n]] /\ Whole(T) = FlattenSeq(T)
  BY Distributed, WholeOfParts DEF Node, Tables
<1>3. \A i \in 1 .. N : f[i] \in X /\ T[i] \in X /\ SameCounts(f[i], T[i])
  BY <1>1, <1>2
<1>4. f = [i \in 1 .. N |-> f[i]] /\ T = [i \in 1 .. N |-> T[i]]
  <2>1. f = [n \in Node |-> f[n]]
    OBVIOUS
  <2> HIDE DEF f
  <2>2. QED
    BY <1>2, <2>1
<1> HIDE DEF f, X
<1>5. f \in Seq(X) /\ T \in Seq(X) /\ Len(f) = N /\ Len(T) = N
  <2>1. N \in Nat /\ (\A i \in 1 .. N : f[i] \in X) /\ \A i \in 1 .. N : T[i] \in X
    BY <1>2, <1>3
  <2>2. f \in [1 .. N -> X] /\ T \in [1 .. N -> X]
    BY <1>4, <2>1
  <2>3. QED
    BY <2>1, <2>2
<1>6. ASSUME NEW Q PROVE CountIn(FlattenSeq(f), Q) = CountIn(FlattenSeq(T), Q)
  <2>1. \A i \in 1 .. Len(f) : CountIn(f[i], Q) = CountIn(T[i], Q)
    BY <1>3, <1>5 DEF SameCounts
  <2>2. f \in Seq(Seq(RowSet)) /\ T \in Seq(Seq(RowSet)) /\ Len(f) = Len(T)
    BY <1>5 DEF X
  <2>3. QED
    BY <2>1, <2>2, CountFlat
<1>7. SameCounts(FlattenSeq(f), Whole(T))
  BY <1>2, <1>6 DEF SameCounts
<1>8. QED
  BY <1>7, CountedRows DEF f

(* Two parts for different nodes have no key in common.                     *)
LEMMA KeysApart ==
  ASSUME op \in Operator, op.how # "DESC", NEW P, NEW Q, Placed(P), Placed(Q),
         NEW c \in Node, NEW d \in Node, c # d
  PROVE  KeysOf(P[c]) \cap KeysOf(Q[d]) = {}
<1>1. CASE Sampled
  <2>1. PlacedByPivots(P, pivots) /\ PlacedByPivots(Q, pivots)
    BY <1>1 DEF Placed
  <2>2. c \in Int /\ d \in Int
    BY Distributed DEF Node
  <2>3. ASSUME NEW k, k \in KeysOf(P[c]), k \in KeysOf(Q[d]) PROVE FALSE
    <3>1. c - 1 = d - 1
      BY <2>1, <2>3 DEF PlacedByPivots
    <3>2. QED
      BY <2>2, <3>1
  <2>4. QED
    BY <2>3
<1>2. CASE op.kind = "join"
  BY <1>2 DEF Placed, PlacedByHash
<1>3. CASE op.kind = "total"
  <2>1. P[c] = <<>> \/ Q[d] = <<>>
    BY <1>3 DEF Placed
  <2>2. KeysOf(<<>>) = {}
    BY DEF KeysOf
  <2>3. QED
    BY <2>1, <2>2
<1>4. QED
  BY <1>1, <1>2, <1>3, OperatorKinds DEF Sampled

-----------------------------------------------------------------------------
(* The state is always of the right types: what the nodes send each other   *)
(* are rows of the tables, and every pivot is a key that occurs             *)
(* (generateSample, generatePartitionPlans).                                *)
THEOREM OperatorTypes == Spec => []TypeOK
<1>1. IInv => TypeOK
  BY DEF IInv
<1>2. QED
  BY InitIInv, NextIInv, <1>1, PTL DEF Spec

(* No row is lost or sent twice on its way to another node, and no key of a *)
(* group is (partitionData, generateJoinPartitions).                        *)
THEOREM RowsAreKept == Spec => []NothingLost
<1>1. IInv => NothingLost
  <2>1. SUFFICES ASSUME IInv, stage \in {"merge", "done"} PROVE NothingLost
    BY DEF NothingLost
  <2>2. /\ table \in Tables /\ other \in Tables
        /\ parts \in [Node -> Tables] /\ others \in [Node -> Tables]
    BY <2>1 DEF IInv, TypeOK
  <2>3. \A n \in Node : /\ IsSplit(parts[n], table[n])
                        /\ op.kind = "join" => IsSplit(others[n], other[n])
    BY <2>1 DEF IInv
  <2>4. ASSUME op.kind \in {"sort", "join"}
        PROVE  SameRows(FlattenSeq([n \in Node |-> Whole(parts[n])]), Whole(table))
    BY <2>2, <2>3, <2>4, RowsKept DEF IsSplit
  <2>5. ASSUME op.kind = "join"
        PROVE  SameRows(FlattenSeq([n \in Node |-> Whole(others[n])]), Whole(other))
    BY <2>2, <2>3, <2>5, RowsKept DEF IsSplit
  <2>6. ASSUME op.kind \in {"group", "aggregate"}, NEW n \in Node
        PROVE  KeysOf(Whole(parts[n])) = KeysOf(table[n])
    <3>1. PICK s \in Seq(RowSet) : PartsOf(parts[n], s) /\ KeysOf(s) = KeysOf(table[n])
      BY <2>3, <2>6 DEF IsSplit, KeepsKeys
    <3>2. Whole(parts[n]) = s
      BY <2>2, <3>1, WholeOfParts DEF PartsOf
    <3>3. QED
      BY <3>1, <3>2
  <2>7. QED
    BY <2>4, <2>5, <2>6 DEF NothingLost
<1>2. QED
  BY InitIInv, NextIInv, <1>1, PTL DEF Spec

(* Rows with the same key meet on one node, from whichever nodes they come  *)
(* and from whichever table, unless they are sorted in descending order     *)
(* (partitionData, generateJoinPartitions).                                 *)
THEOREM EqualKeysMeet == Spec => []KeysMeet
<1>1. IInv => KeysMeet
  <2>1. SUFFICES ASSUME IInv, stage \in {"merge", "done"}, op.how # "DESC",
                        NEW m \in Node, NEW n \in Node, NEW c \in Node, NEW d \in Node, c # d
                 PROVE  /\ KeysOf(parts[m][c]) \cap KeysOf(parts[n][d]) = {}
                        /\ KeysOf(parts[m][c]) \cap KeysOf(others[n][d]) = {}
    BY DEF KeysMeet
  <2>2. op \in Operator /\ Placed(parts[m]) /\ Placed(parts[n])
    BY <2>1 DEF IInv, IsSplit
  <2>3. KeysOf(parts[m][c]) \cap KeysOf(parts[n][d]) = {}
    BY <2>1, <2>2, KeysApart
  <2>4. CASE op.kind = "join"
    <3>1. Placed(others[n])
      BY <2>1, <2>4 DEF IInv, IsSplit
    <3>2. QED
      BY <2>1, <2>2, <2>3, <3>1, KeysApart
  <2>5. CASE op.kind # "join"
    <3>1. others[n][d] = <<>>
      BY <2>1, <2>5 DEF IInv, NoParts
    <3>2. KeysOf(<<>>) = {}
      BY DEF KeysOf
    <3>3. QED
      BY <2>3, <3>1, <3>2
  <2>6. QED
    BY <2>4, <2>5
<1>2. QED
  BY InitIInv, NextIInv, <1>1, PTL DEF Spec

-----------------------------------------------------------------------------
(* Sorted tables, one after the other, and that the order of the keys of a   *)
(* sorted table is given by its rows.                                        *)

LEMMA KeysOfConcat ==
  ASSUME NEW s \in Seq(RowSet), NEW t \in Seq(RowSet)
  PROVE  KeysOf(s \o t) = KeysOf(s) \cup KeysOf(t)
<1> DEFINE u == s \o t
           X == RowSet
<1>1. s \in Seq(X) /\ t \in Seq(X)
  OBVIOUS
<1> HIDE DEF X
<1>2. /\ u \in Seq(X) /\ Len(u) = Len(s) + Len(t) /\ Len(s) \in Nat /\ Len(t) \in Nat
      /\ \A i \in 1 .. Len(s) + Len(t) : u[i] = IF i <= Len(s) THEN s[i] ELSE t[i - Len(s)]
  BY <1>1, ConcatOf
<1>3. DOMAIN u = 1 .. Len(s) + Len(t) /\ DOMAIN s = 1 .. Len(s) /\ DOMAIN t = 1 .. Len(t)
  BY <1>1, <1>2
<1> HIDE DEF u
<1>4. ASSUME NEW k \in KeysOf(u) PROVE k \in KeysOf(s) \cup KeysOf(t)
  <2>1. PICK i \in 1 .. Len(s) + Len(t) : k = u[i].key
    BY <1>3 DEF KeysOf
  <2>2. CASE i <= Len(s)
    <3>1. i \in 1 .. Len(s) /\ u[i] = s[i]
      BY <1>2, <2>2
    <3>2. QED
      BY <1>3, <2>1, <3>1 DEF KeysOf
  <2>3. CASE ~(i <= Len(s))
    <3>1. i - Len(s) \in 1 .. Len(t) /\ u[i] = t[i - Len(s)]
      BY <1>2, <2>3
    <3>2. QED
      BY <1>3, <2>1, <3>1 DEF KeysOf
  <2>4. QED
    BY <2>2, <2>3
<1>5. ASSUME NEW k \in KeysOf(s) PROVE k \in KeysOf(u)
  <2>1. PICK i \in 1 .. Len(s) : k = s[i].key
    BY <1>3 DEF KeysOf
  <2>2. i \in 1 .. Len(s) + Len(t) /\ u[i] = s[i]
    BY <1>2
  <2>3. QED
    BY <1>3, <2>1, <2>2 DEF KeysOf
<1>6. ASSUME NEW k \in KeysOf(t) PROVE k \in KeysOf(u)
  <2>1. PICK i \in 1 .. Len(t) : k = t[i].key
    BY <1>3 DEF KeysOf
  <2>2. i + Len(s) \in 1 .. Len(s) + Len(t) /\ ~(i + Len(s) <= Len(s)) /\ (i + Len(s)) - Len(s) = i
    BY <1>2
  <2>3. u[i + Len(s)] = t[i]
    BY <1>2, <2>2
  <2>4. QED
    BY <1>3, <2>1, <2>2, <2>3 DEF KeysOf
<1>7. QED
  BY <1>4, <1>5, <1>6 DEF u

LEMMA KeysOfFlat ==
  ASSUME NEW n \in Nat, NEW f \in [1 .. n -> Seq(RowSet)]
  PROVE  KeysOf(FlattenSeq(f)) = UNION {KeysOf(f[i]) : i \in 1 .. n}
<1>1. f \in Seq(Seq(RowSet)) /\ Len(f) = n
  BY FlatType
<1>2. PICK F \in [0 .. n -> Seq(RowSet)] : Concatenates(F, f) /\ FlattenSeq(f) = F[n]
  BY <1>1, Flattened
<1> DEFINE Keyed2(m) == UNION {KeysOf(f[i]) : i \in 1 .. m}
           I == {m \in Nat : m <= n => KeysOf(F[m]) = Keyed2(m)}
<1>3. 0 \in I
  <2>1. KeysOf(<<>>) = {} /\ Keyed2(0) = {}
    BY DEF KeysOf
  <2>2. QED
    BY <1>2, <2>1 DEF Concatenates
<1>4. ASSUME NEW m \in Nat, m \in I PROVE m + 1 \in I
  <2>1. SUFFICES ASSUME m + 1 <= n PROVE KeysOf(F[m + 1]) = Keyed2(m + 1)
    OBVIOUS
  <2>2. m + 1 \in 1 .. n /\ (m + 1) - 1 = m /\ m <= n /\ m \in 0 .. n
    BY <2>1
  <2>3. F[m + 1] = F[m] \o f[m + 1] /\ F[m] \in Seq(RowSet) /\ f[m + 1] \in Seq(RowSet)
    BY <1>1, <1>2, <2>2 DEF Concatenates
  <2>4. KeysOf(F[m + 1]) = KeysOf(F[m]) \cup KeysOf(f[m + 1])
    BY <2>3, KeysOfConcat
  <2>5. Keyed2(m + 1) = Keyed2(m) \cup KeysOf(f[m + 1])
    <3>1. \A i : i \in 1 .. m + 1 <=> i \in 1 .. m \/ i = m + 1
      OBVIOUS
    <3>2. QED
      BY <3>1
  <2>6. QED
    BY <1>4, <2>2, <2>4, <2>5
<1> HIDE DEF I
<1>5. n \in I
  BY <1>3, <1>4, SetInduction
<1>6. QED
  BY <1>2, <1>5 DEF I

(* Sorted pieces, one after the other in the order of their keys, are       *)
(* sorted.                                                                  *)
NotAfter(s, t) == \A k \in KeysOf(s), l \in KeysOf(t) : k <= l

LEMMA ConcatSorted ==
  ASSUME NEW s \in Seq(RowSet), NEW t \in Seq(RowSet),
         Sorted(s, "ASC"), Sorted(t, "ASC"), NotAfter(s, t)
  PROVE  Sorted(s \o t, "ASC")
<1> DEFINE u == s \o t
           X == RowSet
<1>1. s \in Seq(X) /\ t \in Seq(X)
  OBVIOUS
<1> HIDE DEF X
<1>2. /\ Len(u) = Len(s) + Len(t) /\ Len(s) \in Nat /\ Len(t) \in Nat
      /\ \A i \in 1 .. Len(s) + Len(t) : u[i] = IF i <= Len(s) THEN s[i] ELSE t[i - Len(s)]
  BY <1>1, ConcatOf
<1>a. (\A i \in 1 .. Len(s) : s[i].key \in KeysOf(s)) /\ \A i \in 1 .. Len(t) : t[i].key \in KeysOf(t)
  BY RowsHaveKeys DEF KeysOf
<1> HIDE DEF u
<1>3. SUFFICES ASSUME NEW i \in 1 .. Len(u), NEW j \in 1 .. Len(u), i < j
               PROVE  u[i].key <= u[j].key
  BY DEF Sorted, Rank, u
<1>4. CASE j <= Len(s)
  <2>1. i \in 1 .. Len(s) /\ j \in 1 .. Len(s) /\ u[i] = s[i] /\ u[j] = s[j]
    BY <1>2, <1>3, <1>4
  <2>2. QED
    BY <1>3, <2>1 DEF Sorted, Rank
<1>5. CASE i <= Len(s) /\ ~(j <= Len(s))
  <2>1. i \in 1 .. Len(s) /\ j - Len(s) \in 1 .. Len(t)
    BY <1>2, <1>3, <1>5
  <2>2. u[i] = s[i] /\ u[j] = t[j - Len(s)]
    BY <1>2, <1>3, <1>5
  <2>3. QED
    BY <1>a, <2>1, <2>2 DEF NotAfter
<1>6. CASE ~(i <= Len(s))
  <2>1. i - Len(s) \in 1 .. Len(t) /\ j - Len(s) \in 1 .. Len(t) /\ i - Len(s) < j - Len(s)
        /\ ~(j <= Len(s))
    BY <1>2, <1>3, <1>6
  <2>2. u[i] = t[i - Len(s)] /\ u[j] = t[j - Len(s)]
    BY <1>2, <1>3, <1>6, <2>1
  <2>3. QED
    BY <2>1, <2>2 DEF Sorted, Rank
<1>7. QED
  BY <1>2, <1>3, <1>4, <1>5, <1>6

LEMMA FlatSorted ==
  ASSUME NEW n \in Nat, NEW f \in [1 .. n -> Seq(RowSet)],
         \A i \in 1 .. n : Sorted(f[i], "ASC"),
         \A i, j \in 1 .. n : i < j => NotAfter(f[i], f[j])
  PROVE  Sorted(FlattenSeq(f), "ASC")
<1>1. f \in Seq(Seq(RowSet)) /\ Len(f) = n
  BY FlatType
<1>2. PICK F \in [0 .. n -> Seq(RowSet)] : Concatenates(F, f) /\ FlattenSeq(f) = F[n]
  BY <1>1, Flattened
<1> DEFINE Good(m) == /\ Sorted(F[m], "ASC")
                      /\ \A j \in 1 .. n : m < j => NotAfter(F[m], f[j])
           I == {m \in Nat : m <= n => Good(m)}
<1>3. 0 \in I
  <2>1. F[0] = <<>> /\ KeysOf(<<>>) = {} /\ Len(<<>>) = 0
    BY <1>2 DEF Concatenates, KeysOf
  <2>2. Sorted(F[0], "ASC")
    BY <2>1 DEF Sorted
  <2>3. \A j \in 1 .. n : NotAfter(F[0], f[j])
    BY <2>1 DEF NotAfter
  <2>4. QED
    BY <2>2, <2>3
<1>4. ASSUME NEW m \in Nat, m \in I PROVE m + 1 \in I
  <2>1. SUFFICES ASSUME m + 1 <= n PROVE Good(m + 1)
    OBVIOUS
  <2>2. m + 1 \in 1 .. n /\ (m + 1) - 1 = m /\ m <= n /\ m \in 0 .. n /\ m < m + 1
    BY <2>1
  <2>3. F[m + 1] = F[m] \o f[m + 1] /\ F[m] \in Seq(RowSet) /\ f[m + 1] \in Seq(RowSet)
    BY <1>1, <1>2, <2>2 DEF Concatenates
  <2>4. Good(m)
    BY <1>4, <2>2
  <2>5. Sorted(F[m + 1], "ASC")
    BY <2>2, <2>3, <2>4, ConcatSorted
  <2>6. ASSUME NEW j \in 1 .. n, m + 1 < j PROVE NotAfter(F[m + 1], f[j])
    <3>1. NotAfter(F[m], f[j]) /\ NotAfter(f[m + 1], f[j])
      BY <2>2, <2>4, <2>6
    <3>2. KeysOf(F[m + 1]) = KeysOf(F[m]) \cup KeysOf(f[m + 1])
      BY <2>3, KeysOfConcat
    <3>3. QED
      BY <3>1, <3>2 DEF NotAfter
  <2>7. QED
    BY <2>5, <2>6
<1> HIDE DEF I
<1>5. n \in I
  BY <1>3, <1>4, SetInduction
<1>6. QED
  BY <1>2, <1>5 DEF I

(* How many keys are up to a bound tells the keys of a sorted table.        *)
UpTo(v) == {r \in RowSet : r.key <= v}

LEMMA CountBelow ==
  ASSUME NEW s \in Seq(RowSet), Sorted(s, "ASC"), NEW i \in 1 .. Len(s), NEW v \in Int
  PROVE  s[i].key <= v <=> CountIn(s, UpTo(v)) >= i
<1> DEFINE A == {j \in DOMAIN s : s[j] \in UpTo(v)}
           B == 1 .. i
           C == 1 .. i - 1
<1>1. Len(s) \in Nat /\ DOMAIN s = 1 .. Len(s)
      /\ \A j \in 1 .. Len(s) : s[j] \in RowSet /\ s[j].key \in Int
  BY RowsHaveKeys
<1>2. IsFiniteSet(A) /\ CountIn(s, UpTo(v)) = Cardinality(A) /\ Cardinality(A) \in Int
  <2>1. IsFiniteSet(A) /\ CountIn(s, UpTo(v)) \in 0 .. Len(s)
    BY CountType
  <2>2. QED
    BY <2>1 DEF CountIn
<1>3. \A j : j \in A <=> j \in 1 .. Len(s) /\ s[j].key <= v
  BY <1>1 DEF UpTo
<1>4. /\ IsFiniteSet(B) /\ Cardinality(B) = i
      /\ IsFiniteSet(C) /\ Cardinality(C) = i - 1
  <2>1. i \in Int /\ i - 1 \in Int /\ 1 \in Int /\ i >= 1
    BY <1>1
  <2>2. /\ IsFiniteSet(B) /\ Cardinality(B) = (IF 1 > i THEN 0 ELSE i - 1 + 1)
    BY <2>1, FS_Interval
  <2>3. IsFiniteSet(C) /\ Cardinality(C) = (IF 1 > i - 1 THEN 0 ELSE (i - 1) - 1 + 1)
    BY <2>1, FS_Interval
  <2>4. QED
    BY <2>1, <2>2, <2>3
<1>5. \A j, k \in 1 .. Len(s) : j < k => s[j].key <= s[k].key
  BY DEF Sorted, Rank
<1> HIDE DEF A
<1>6. ASSUME s[i].key <= v PROVE Cardinality(A) >= i
  <2>1. ASSUME NEW j \in B PROVE j \in A
    <3>1. j \in 1 .. Len(s) /\ (j = i \/ j < i)
      BY <1>1
    <3>2. s[j].key <= s[i].key
      BY <1>1, <1>5, <3>1
    <3>3. s[j].key <= v
      BY <1>1, <1>6, <3>1, <3>2
    <3>4. QED
      BY <1>3, <3>1, <3>3
  <2> HIDE DEF B
  <2>2. B \in SUBSET A
    BY <2>1
  <2>3. Cardinality(B) <= Cardinality(A)
    BY <1>2, <2>2, FS_Subset
  <2>4. QED
    BY <1>2, <1>4, <2>3
<1>7. ASSUME ~(s[i].key <= v) PROVE ~(Cardinality(A) >= i)
  <2>1. ASSUME NEW j \in A PROVE j \in C
    <3>1. j \in 1 .. Len(s) /\ s[j].key <= v
      BY <1>3
    <3>2. ~(i <= j)
      <4>1. SUFFICES ASSUME i <= j PROVE FALSE
        OBVIOUS
      <4>2. i = j \/ i < j
        <5>1. i \in Int /\ j \in Int
          BY <1>1, <3>1
        <5>2. QED
          BY <4>1, <5>1
      <4>3. s[i].key <= s[j].key
        BY <1>1, <1>5, <3>1, <4>2
      <4>4. s[i].key \in Int /\ s[j].key \in Int
        BY <1>1, <3>1
      <4>5. QED
        BY <1>7, <3>1, <4>3, <4>4
    <3>3. QED
      BY <1>1, <3>1, <3>2
  <2> HIDE DEF C
  <2>2. A \in SUBSET C
    BY <2>1
  <2>3. Cardinality(A) <= Cardinality(C)
    BY <1>4, <2>2, FS_Subset
  <2>4. QED
    BY <1>2, <1>4, <2>3
<1>8. QED
  BY <1>2, <1>6, <1>7

LEMMA SortedAlike ==
  ASSUME NEW s \in Seq(RowSet), NEW t \in Seq(RowSet), Sorted(s, "ASC"), Sorted(t, "ASC"),
         SameCounts(s, t)
  PROVE  [i \in DOMAIN s |-> s[i].key] = [i \in DOMAIN t |-> t[i].key]
<1>1. Len(s) = Len(t)
  <2>1. CountIn(s, RowSet) = Len(s) /\ CountIn(t, RowSet) = Len(t)
    BY CountAll
  <2>2. QED
    BY <2>1 DEF SameCounts
<1>2. DOMAIN s = 1 .. Len(s) /\ DOMAIN t = 1 .. Len(s)
      /\ (\A j \in 1 .. Len(s) : s[j].key \in Int) /\ \A j \in 1 .. Len(s) : t[j].key \in Int
  BY <1>1, RowsHaveKeys
<1>3. ASSUME NEW i \in 1 .. Len(s) PROVE s[i].key = t[i].key
  <2>1. \A v \in Int : s[i].key <= v <=> t[i].key <= v
    <3>1. SUFFICES ASSUME NEW v \in Int PROVE s[i].key <= v <=> t[i].key <= v
      OBVIOUS
    <3>2. CountIn(s, UpTo(v)) = CountIn(t, UpTo(v))
      BY DEF SameCounts
    <3>3. s[i].key <= v <=> CountIn(s, UpTo(v)) >= i
      BY CountBelow
    <3>4. t[i].key <= v <=> CountIn(t, UpTo(v)) >= i
      BY <1>1, CountBelow
    <3>5. QED
      BY <3>2, <3>3, <3>4
  <2>2. s[i].key \in Int /\ t[i].key \in Int
    BY <1>2
  <2>3. s[i].key <= t[i].key /\ t[i].key <= s[i].key
    <3>1. s[i].key <= s[i].key /\ t[i].key <= t[i].key
      BY <2>2
    <3>2. QED
      BY <2>1, <2>2, <3>1
  <2>4. QED
    BY <2>2, <2>3
<1>4. QED
  BY <1>2, <1>3

-----------------------------------------------------------------------------
(* What a node receives: the parts for it, in whichever order they came.     *)

LEMMA ArrivalOrder ==
  ASSUME NEW n \in Node, NEW a \in Arrivals(n)
  PROVE  Enumerates([i \in 1 .. N |-> IF i = N THEN n ELSE a[i]], N, 1 .. N)
<1> DEFINE o == [i \in 1 .. N |-> IF i = N THEN n ELSE a[i]]
           S == 1 .. N
<1>1. N \in Nat /\ N > 1
  BY Distributed
<1>2. n \in S /\ a \in [1 .. N - 1 -> S \ {n}] /\ \A i, j \in 1 .. N - 1 : i # j => a[i] # a[j]
  BY DEF Arrivals, Node
<1>3. ASSUME NEW i \in S PROVE i = N \/ i \in 1 .. N - 1
  BY <1>1
<1>4. ASSUME NEW i \in S PROVE o[i] \in S
  BY <1>2, <1>3
<1>5. o \in [S -> S]
  BY <1>4
<1>6. ASSUME NEW i \in S, NEW j \in S, o[i] = o[j] PROVE i = j
  BY <1>2, <1>3, <1>6
<1> HIDE DEF o
<1>7. IsFiniteSet(S)
  BY <1>1, FS_Interval
<1> HIDE DEF S
<1>8. o \in Injection(S, S)
  BY <1>5, <1>6 DEF Injection, IsInjective
<1>9. o \in Surjection(S, S)
  BY <1>7, <1>8, FS_Injection
<1>10. \A x \in S : \E i \in S : o[i] = x
  BY <1>9 DEF Surjection
<1>11. QED
  BY <1>5, <1>6, <1>10 DEF Enumerates, S, o

LEMMA ReceivedParts ==
  ASSUME NEW P \in [Node -> Tables], NEW n \in Node, NEW a \in Arrivals(n)
  PROVE  /\ Received(P, n, a) \in [1 .. N -> Seq(RowSet)]
         /\ SameCounts(FlattenSeq(Received(P, n, a)), FlattenSeq([m \in Node |-> P[m][n]]))
         /\ \A i \in 1 .. N : \E m \in Node : Received(P, n, a)[i] = P[m][n]
<1> DEFINE o == [i \in 1 .. N |-> IF i = N THEN n ELSE a[i]]
           f == [m \in Node |-> P[m][n]]
           X == RowSet
<1>1. N \in Nat
  BY Distributed
<1>2. Enumerates(o, N, 1 .. N)
  BY ArrivalOrder
<1>3. \A i \in 1 .. N : o[i] \in 1 .. N /\ o[i] = IF i = N THEN n ELSE a[i]
  BY <1>2 DEF Enumerates
<1> HIDE DEF o
<1>4. Received(P, n, a) = [i \in 1 .. N |-> f[o[i]]]
  BY <1>3 DEF Received, Node
<1>5. ASSUME NEW m \in 1 .. N PROVE f[m] \in Seq(X) /\ f[m] = P[m][n]
  BY DEF Tables, Node, RowSet
<1>6. f \in [1 .. N -> Seq(X)]
  BY <1>5 DEF Node
<1> HIDE DEF f, X
<1>7. SameCounts(FlattenSeq([i \in 1 .. N |-> f[o[i]]]), FlattenSeq(f))
  BY <1>1, <1>2, <1>6, FlatPermuted
<1>8. [i \in 1 .. N |-> f[o[i]]] \in [1 .. N -> Seq(X)]
  BY <1>3, <1>6
<1>9. ASSUME NEW i \in 1 .. N PROVE \E m \in Node : Received(P, n, a)[i] = P[m][n]
  BY <1>3, <1>4, <1>5 DEF Node
<1>10. QED
  BY <1>4, <1>7, <1>8, <1>9 DEF f, X

LEMMA OwnPartFirst ==
  ASSUME NEW X, NEW columns \in [1 .. N -> Seq(X)]
  PROVE  /\ concat_columns(columns) \in Seq(X)
         /\ SameCounts(concat_columns(columns), FlattenSeq(columns))
<1> DEFINE first == SubSeq(columns, 1, N - 1)
<1>1. N \in Nat /\ N - 1 \in Nat /\ N \in 1 .. N
  BY Distributed
<1>2. columns \in Seq(Seq(X)) /\ Len(columns) = N
  BY <1>1, FlatType
<1>3. first = [i \in 1 .. N - 1 |-> columns[i]]
  BY <1>1, <1>2
<1>4. first \in [1 .. N - 1 -> Seq(X)]
  <2>1. \A i \in 1 .. N - 1 : i \in 1 .. N
    BY <1>1
  <2>2. QED
    BY <1>3, <2>1
<1> HIDE DEF first
<1>5. FlattenSeq(first) \in Seq(X) /\ columns[N] \in Seq(X)
  BY <1>1, <1>4, FlatType
<1>6. ASSUME NEW P
      PROVE CountIn(concat_columns(columns), P) = CountIn(FlattenSeq(columns), P)
  <2> DEFINE c == [i \in 1 .. N |-> CountIn(columns[i], P)]
             d == [i \in 1 .. N - 1 |-> CountIn(first[i], P)]
  <2>1. CountIn(concat_columns(columns), P) = CountIn(columns[N], P) + CountIn(FlattenSeq(first), P)
    BY <1>5, CountConcat DEF concat_columns, first
  <2>2. CountIn(FlattenSeq(first), P) = SumOf(d)
    BY <1>1, <1>4, CountOfFlat
  <2>3. CountIn(FlattenSeq(columns), P) = SumOf(c)
    BY <1>1, CountOfFlat
  <2>4. ASSUME NEW i \in 1 .. N PROVE CountIn(columns[i], P) \in Int
    <3>1. CountIn(columns[i], P) \in 0 .. Len(columns[i])
      BY CountType
    <3>2. QED
      BY <3>1
  <2>5. \A i \in 1 .. N - 1 : first[i] = columns[i] /\ i \in 1 .. N
    BY <1>1, <1>3
  <2>6. d \in [1 .. N - 1 -> Int]
    BY <2>4, <2>5
  <2>7. d \in Seq(Int) /\ Len(d) = N - 1
    BY <1>1, <2>6
  <2>8. c = Append(d, CountIn(columns[N], P))
    <3>1. Append(d, CountIn(columns[N], P)) = [i \in 1 .. N |-> IF i = N THEN CountIn(columns[N], P) ELSE d[i]]
      BY <1>1, <2>7
    <3>2. \A i \in 1 .. N : i # N => i \in 1 .. N - 1
      BY <1>1
    <3>3. QED
      BY <2>5, <3>1, <3>2
  <2> HIDE DEF c, d
  <2>9. SumOf(c) = SumOf(d) + CountIn(columns[N], P)
    BY <1>1, <2>4, <2>7, <2>8, SumAppend
  <2>10. SumOf(d) \in Int /\ CountIn(columns[N], P) \in Int
    BY <1>1, <2>4, <2>7, SumIsInt
  <2>11. QED
    BY <2>1, <2>2, <2>3, <2>9, <2>10
<1>7. concat_columns(columns) \in Seq(X)
  BY <1>5 DEF concat_columns, first
<1>8. QED
  BY <1>6, <1>7 DEF SameCounts

-----------------------------------------------------------------------------
(* Merged by a sort: nothing is lost, and the nodes are in order.            *)

LEMMA WholeType ==
  ASSUME NEW X, NEW O \in [Node -> Seq(X)]
  PROVE  Whole(O) = FlattenSeq(O) /\ Whole(O) \in Seq(X) /\ O \in [1 .. N -> Seq(X)] /\ N \in Nat
<1>1. N \in Nat
  BY Distributed
<1>2. O = [n \in Node |-> O[n]] /\ O \in [1 .. N -> Seq(X)]
  BY DEF Node
<1>3. FlattenSeq(O) \in Seq(X)
  BY <1>1, <1>2, FlatType
<1>4. QED
  BY <1>1, <1>2, <1>3 DEF Whole

Column(P, n) == FlattenSeq([m \in Node |-> P[m][n]])

LEMMA ColumnType ==
  ASSUME NEW P \in [Node -> Tables], NEW n \in Node
  PROVE  Column(P, n) \in Seq(RowSet) /\ [m \in Node |-> P[m][n]] \in [1 .. N -> Seq(RowSet)]
<1>1. [m \in Node |-> P[m][n]] \in [1 .. N -> Seq(RowSet)] /\ N \in Nat
  BY Distributed DEF Tables, RowSet, Node
<1>2. QED
  BY <1>1, FlatType DEF Column

LEMMA ColumnsHaveAll ==
  ASSUME NEW T \in Tables, NEW P \in [Node -> Tables], \A n \in Node : KeepsRows(P[n], T[n])
  PROVE  SameCounts(FlattenSeq([n \in Node |-> Column(P, n)]), Whole(T))
<1> DEFINE X == RowSet
           g == [n \in Node |-> Column(P, n)]
           h == [m \in Node |-> FlattenSeq(P[m])]
<1>1. N \in Nat /\ Node = 1 .. N
  BY Distributed DEF Node
<1>2. P \in [1 .. N -> [1 .. N -> Seq(X)]] /\ T \in [1 .. N -> Seq(X)]
  BY DEF Tables, RowSet, Node
<1>3. ASSUME NEW m \in 1 .. N PROVE h[m] \in Seq(X) /\ SameCounts(h[m], T[m])
  BY <1>1 DEF KeepsRows, PartsOf
<1>4. h \in [1 .. N -> Seq(X)]
  BY <1>1, <1>3
<1>5. SameCounts(FlattenSeq([m \in 1 .. N |-> FlattenSeq(P[m])]),
                 FlattenSeq([n \in 1 .. N |-> FlattenSeq([m \in 1 .. N |-> P[m][n]])]))
  <2> HIDE DEF X, g, h
  <2>1. P \in [1 .. N -> [1 .. N -> Seq(X)]] /\ N \in Nat
    BY <1>1, <1>2
  <2>2. SameCounts(RowByRow(P, N), ColumnByColumn(P, N, N))
    BY <2>1, FlatExchange
  <2>3. QED
    BY <2>2 DEF RowByRow, ColumnByColumn
<1>6. SameCounts(FlattenSeq(h), FlattenSeq(g))
  BY <1>1, <1>5 DEF Column
<1> HIDE DEF h, g, X
<1>7. SameCounts(FlattenSeq(h), FlattenSeq(T))
  BY <1>1, <1>2, <1>3, <1>4, FlatAlike
<1>8. FlattenSeq(T) = Whole(T)
  BY <1>1, <1>2, WholeType DEF X
<1>9. QED
  BY <1>6, <1>7, <1>8 DEF SameCounts, g

LEMMA MergedHaveAll ==
  ASSUME NEW T \in Tables, NEW P \in [Node -> Tables], \A n \in Node : KeepsRows(P[n], T[n]),
         NEW O \in [Node -> Seq(RowSet)], \A n \in Node : SameCounts(O[n], Column(P, n))
  PROVE  SameCounts(Whole(O), Whole(T))
<1> DEFINE X == RowSet
           g == [n \in Node |-> Column(P, n)]
<1>1. N \in Nat /\ Node = 1 .. N
  BY Distributed DEF Node
<1>2. ASSUME NEW n \in 1 .. N PROVE g[n] \in Seq(X) /\ SameCounts(O[n], g[n])
  BY <1>1, ColumnType
<1>3. g \in [1 .. N -> Seq(X)] /\ O \in [1 .. N -> Seq(X)]
  BY <1>1, <1>2
<1>4. SameCounts(FlattenSeq(g), Whole(T))
  BY ColumnsHaveAll
<1>5. FlattenSeq(O) = Whole(O)
  BY WholeType
<1> HIDE DEF g, X
<1>6. SameCounts(FlattenSeq(O), FlattenSeq(g))
  BY <1>1, <1>2, <1>3, FlatAlike
<1>7. QED
  BY <1>4, <1>5, <1>6 DEF SameCounts

LEMMA PlacesInOrder ==
  ASSUME NEW plan \in [1 .. N - 1 -> Keys], NEW k \in Keys, NEW l \in Keys, NEW i \in Node, NEW j \in Node,
         Cardinality({m \in 1 .. N - 1 : plan[m] < k}) = i - 1,
         Cardinality({m \in 1 .. N - 1 : plan[m] < l}) = j - 1,
         i < j
  PROVE  k <= l
<1> DEFINE A == {m \in 1 .. N - 1 : plan[m] < k}
           B == {m \in 1 .. N - 1 : plan[m] < l}
<1>1. SUFFICES ASSUME l < k PROVE FALSE
  BY NullKeyIsLargest
<1>2. ASSUME NEW m \in 1 .. N - 1, plan[m] < l PROVE plan[m] < k
  <2>1. plan[m] \in Int /\ k \in Int /\ l \in Int
    BY NullKeyIsLargest
  <2>2. QED
    BY <1>1, <1>2, <2>1
<1>3. B \in SUBSET A
  BY <1>2
<1>4. A \in SUBSET (1 .. N - 1) /\ N - 1 \in Int /\ i \in Int /\ j \in Int
  BY Distributed DEF Node
<1>5. IsFiniteSet(1 .. N - 1)
  BY <1>4, FS_Interval
<1> HIDE DEF A, B
<1>6. IsFiniteSet(A)
  BY <1>4, <1>5, FS_Subset
<1>7. Cardinality(B) <= Cardinality(A)
  BY <1>3, <1>6, FS_Subset
<1>8. QED
  BY <1>4, <1>7 DEF A, B

LEMMA KeysOfReceived ==
  ASSUME NEW P \in [Node -> Tables], NEW n \in Node, NEW a \in Arrivals(n),
         NEW k \in KeysOf(FlattenSeq(Received(P, n, a)))
  PROVE  \E m \in Node : k \in KeysOf(P[m][n])
<1>1. Received(P, n, a) \in [1 .. N -> Seq(RowSet)] /\ N \in Nat
  BY ReceivedParts, Distributed
<1>2. KeysOf(FlattenSeq(Received(P, n, a))) = UNION {KeysOf(Received(P, n, a)[i]) : i \in 1 .. N}
  BY <1>1, KeysOfFlat
<1>3. PICK i \in 1 .. N : k \in KeysOf(Received(P, n, a)[i])
  BY <1>2
<1>4. PICK m \in Node : Received(P, n, a)[i] = P[m][n]
  BY ReceivedParts
<1>5. QED
  BY <1>3, <1>4

LEMMA SortMerged ==
  ASSUME NEW P \in [Node -> Tables], NEW n \in Node, NEW a \in Arrivals(n), NEW how
  PROVE  LET s == sortedMerger(Received(P, n, a), how) IN
         /\ s \in Seq(RowSet) /\ SameCounts(s, Column(P, n)) /\ Sorted(s, how)
         /\ \A k \in KeysOf(s) : \E m \in Node : k \in KeysOf(P[m][n])
<1> DEFINE f == FlattenSeq(Received(P, n, a))
           s == Sort(f, how)
<1>1. f \in Seq(RowSet)
  BY ReceivedParts, Distributed, FlatType
<1>2. SameCounts(f, Column(P, n))
  BY ReceivedParts DEF Column
<1>3. \A k \in KeysOf(f) : \E m \in Node : k \in KeysOf(P[m][n])
  BY KeysOfReceived
<1>4. s = sortedMerger(Received(P, n, a), how)
  BY DEF sortedMerger
<1> HIDE DEF f
<1>5. s \in Seq(RowSet) /\ Sorted(s, how)
  BY <1>1, SortOrders DEF Sorts
<1>6. KeysOf(s) = KeysOf(f) /\ SameCounts(s, f)
  BY <1>1, KeysOfSort
<1> HIDE DEF s
<1>7. QED
  BY <1>2, <1>3, <1>4, <1>5, <1>6 DEF SameCounts

LEMMA MergedInOrder ==
  ASSUME NEW plan \in [1 .. N - 1 -> Keys], NEW P \in [Node -> Tables],
         \A m \in Node : PlacedByPivots(P[m], plan),
         NEW O \in [Node -> Seq(RowSet)], \A n \in Node : Sorted(O[n], "ASC"),
         \A n \in Node : \A k \in KeysOf(O[n]) : \E m \in Node : k \in KeysOf(P[m][n])
  PROVE  Sorted(Whole(O), "ASC")
<1>1. N \in Nat /\ Node = 1 .. N /\ O \in [1 .. N -> Seq(RowSet)]
  BY Distributed DEF Node
<1>2. ASSUME NEW i \in 1 .. N, NEW j \in 1 .. N, i < j PROVE NotAfter(O[i], O[j])
  <2>1. SUFFICES ASSUME NEW k \in KeysOf(O[i]), NEW l \in KeysOf(O[j]) PROVE k <= l
    BY DEF NotAfter
  <2>2. PICK m \in Node : k \in KeysOf(P[m][i])
    BY <1>1
  <2>3. PICK q \in Node : l \in KeysOf(P[q][j])
    BY <1>1
  <2>4. Cardinality({x \in 1 .. N - 1 : plan[x] < k}) = i - 1
    BY <1>1, <2>2 DEF PlacedByPivots
  <2>5. Cardinality({x \in 1 .. N - 1 : plan[x] < l}) = j - 1
    BY <1>1, <2>3 DEF PlacedByPivots
  <2>6. k \in Keys /\ l \in Keys
    BY <1>1, RowsHaveKeys
  <2>7. QED
    BY <1>1, <1>2, <2>4, <2>5, <2>6, PlacesInOrder
<1>3. Sorted(FlattenSeq(O), "ASC")
  BY <1>1, <1>2, FlatSorted
<1>4. QED
  BY <1>3, WholeType

-----------------------------------------------------------------------------
(* Tables with one row for every key (ByKey).                                *)

LEMMA KeysOfElements ==
  ASSUME NEW s \in Seq(RowSet)
  PROVE  KeysOf(s) = {r.key : r \in ToSet(s)}
<1>1. DOMAIN s = 1 .. Len(s)
  BY RowsHaveKeys
<1>2. ToSet(s) = {s[i] : i \in 1 .. Len(s)}
  BY Elements
<1>3. QED
  BY <1>1, <1>2 DEF KeysOf

LEMMA KeysAlike ==
  ASSUME NEW s \in Seq(RowSet), NEW t \in Seq(RowSet), SameCounts(s, t)
  PROVE  KeysOf(s) = KeysOf(t)
BY AlikeElements, KeysOfElements

Value == Int \cup {Null}

(* One row for every key of K, with the value v gives it.                   *)
ByKey(g, K, v) ==
  /\ g \in Seq(RowSet)
  /\ \A i \in 1 .. Len(g) : g[i].key \in K /\ g[i].value = v[g[i].key]
  /\ \A k \in K : \E i \in 1 .. Len(g) : g[i].key = k
  /\ \A i, j \in 1 .. Len(g) : g[i].key = g[j].key => i = j

LEMMA CountByKey ==
  ASSUME NEW g, NEW K, NEW v, ByKey(g, K, v), NEW r \in RowSet
  PROVE  CountIn(g, {r}) = IF r.key \in K /\ r.value = v[r.key] THEN 1 ELSE 0
<1> DEFINE X == RowSet
<1>1. g \in Seq(X)
  BY DEF ByKey
<1>2. /\ \A i \in 1 .. Len(g) : g[i] \in X /\ g[i].key \in K /\ g[i].value = v[g[i].key]
      /\ \A k \in K : \E i \in 1 .. Len(g) : g[i].key = k
      /\ \A i, j \in 1 .. Len(g) : g[i].key = g[j].key => i = j
  BY DEF ByKey
<1>3. ASSUME r.key \in K, r.value = v[r.key] PROVE CountIn(g, {r}) = 1
  <2>1. PICK i \in 1 .. Len(g) : g[i].key = r.key
    BY <1>2, <1>3
  <2>2. g[i] \in RowSet /\ g[i].value = r.value
    BY <1>2, <1>3, <2>1
  <2>3. g[i] = r
    BY <2>1, <2>2 DEF RowSet
  <2>4. \A j \in 1 .. Len(g) : g[j] \in {r} => j = i
    BY <1>2, <2>1
  <2> HIDE DEF X
  <2>5. QED
    BY <1>1, <2>3, <2>4, CountSingle
<1>4. ASSUME ~(r.key \in K /\ r.value = v[r.key]) PROVE CountIn(g, {r}) = 0
  <2>1. \A i \in 1 .. Len(g) : g[i] \notin {r}
    BY <1>2, <1>4
  <2> HIDE DEF X
  <2>2. QED
    BY <1>1, <2>1, CountZero
<1>5. QED
  BY <1>3, <1>4

LEMMA ByKeySpread ==
  ASSUME NEW O \in [Node -> Seq(RowSet)], NEW Z \in [Node -> SUBSET Keys], NEW v,
         \A d \in Node : ByKey(O[d], Z[d], v),
         \A c, d \in Node : c # d => Z[c] \cap Z[d] = {},
         NEW g, NEW K, ByKey(g, K, v), K = UNION {Z[d] : d \in Node}
  PROVE  SameCounts(Whole(O), g)
<1> DEFINE X == RowSet
<1>1. N \in Nat /\ Node = 1 .. N /\ O \in [1 .. N -> Seq(X)] /\ g \in Seq(X)
      /\ Whole(O) \in Seq(X) /\ Whole(O) = FlattenSeq(O)
  BY WholeType DEF Node, ByKey
<1>2. ASSUME NEW r \in X PROVE CountIn(FlattenSeq(O), {r}) = CountIn(g, {r})
  <2>0. r \in RowSet
    OBVIOUS
  <2>1. CountIn(g, {r}) = IF r.key \in K /\ r.value = v[r.key] THEN 1 ELSE 0
    <3>1. ByKey(g, K, v)
      OBVIOUS
    <3> HIDE DEF X
    <3>2. QED
      BY ONLY <2>0, <3>1, CountByKey
  <2>2. ASSUME NEW d \in Node
        PROVE CountIn(O[d], {r}) = IF r.key \in Z[d] /\ r.value = v[r.key] THEN 1 ELSE 0
    BY CountByKey
  <2>3. CASE r.key \in K /\ r.value = v[r.key]
    <3>1. PICK d \in Node : r.key \in Z[d]
      BY <2>3
    <3>2. \A i \in Node : i # d => CountIn(O[i], {r}) = 0
      BY <2>2, <3>1
    <3>3. CountIn(O[d], {r}) = 1
      BY <2>2, <2>3, <3>1
    <3> DEFINE R == {r}
    <3>a. d \in 1 .. N /\ OnlyAt(O, N, R, d)
      BY <1>1, <3>2 DEF OnlyAt
    <3> HIDE DEF X, R
    <3>b. CountIn(FlattenSeq(O), R) = CountIn(O[d], R)
      <4>1. O \in [1 .. N -> Seq(X)] /\ N \in Nat
        BY <1>1
      <4>2. QED
        BY ONLY <3>a, <4>1, CountOfOnly
    <3>4. CountIn(FlattenSeq(O), {r}) = CountIn(O[d], {r})
      BY <3>b DEF R
    <3>5. QED
      BY <2>1, <2>3, <3>3, <3>4
  <2>4. CASE ~(r.key \in K /\ r.value = v[r.key])
    <3>1. \A i \in Node : CountIn(O[i], {r}) = 0
      BY <2>2, <2>4
    <3> HIDE DEF X
    <3>2. CountIn(FlattenSeq(O), {r}) = 0
      BY <1>1, <3>1, CountOfNone
    <3>3. QED
      BY <2>1, <2>4, <3>2
  <2>5. QED
    BY <2>3, <2>4
<1> DEFINE w == FlattenSeq(O)
<1>a. w \in Seq(X) /\ \A r \in X : CountIn(w, {r}) = CountIn(g, {r})
  BY <1>1, <1>2
<1> HIDE DEF X, w
<1>b. SameCounts(w, g)
  BY <1>1, <1>a, CountedAlike
<1>3. SameCounts(FlattenSeq(O), g)
  BY <1>b DEF w
<1>4. QED
  BY <1>1, <1>3

-----------------------------------------------------------------------------
(* Aggregations of numbers (AggOf) and of the rows of a key.                 *)

Of(k) == {r \in RowSet : r.key = k}
Holding(V) == {r \in RowSet : r.value # Null /\ r.value \in V}

LEMMA KeyedCount ==
  ASSUME NEW t \in Seq(RowSet), NEW k
  PROVE  Keyed(t, k) \in Seq(RowSet) /\ \A P : CountIn(Keyed(t, k), P) = CountIn(t, Of(k) \cap P)
<1> DEFINE S == {r \in ToSet(t) : r.key = k}
           X == RowSet
<1>1. Keyed(t, k) = Kept(t, S)
  BY DEF Keyed
<1>2. ToSet(t) = {t[i] : i \in 1 .. Len(t)} /\ ToSet(t) \subseteq X
  BY Elements
<1>3. DOMAIN t = 1 .. Len(t)
  BY RowsHaveKeys
<1>4. ASSUME NEW P PROVE CountIn(t, S \cap P) = CountIn(t, Of(k) \cap P)
  <2>1. \A i \in DOMAIN t : t[i] \in S \cap P <=> t[i] \in Of(k) \cap P
    BY <1>2, <1>3 DEF Of
  <2> HIDE DEF S
  <2>2. QED
    BY <2>1 DEF CountIn
<1>5. \A x \in X \cap S : x \in X
  OBVIOUS
<1> HIDE DEF S, X
<1>6. t \in Seq(X)
  BY DEF X
<1>7. Kept(t, S) \in Seq(X \cap S)
  BY <1>6, KeptType
<1>8. Kept(t, S) \in Seq(X)
  <2> DEFINE Y == X \cap S
             s == Kept(t, S)
  <2>1. s \in Seq(Y) /\ \A x \in Y : x \in X
    BY <1>5, <1>7
  <2> HIDE DEF Y, s
  <2>2. s \in Seq(X)
    BY <2>1
  <2>3. QED
    BY <2>2 DEF s
<1>9. ASSUME NEW P PROVE CountIn(Kept(t, S), P) = CountIn(t, S \cap P)
  BY <1>6, CountKept
<1>10. QED
  BY <1>1, <1>4, <1>8, <1>9 DEF X

LEMMA ValuesCount ==
  ASSUME NEW t \in Seq(RowSet)
  PROVE  Values(t) \in Seq(Int) /\ \A V : CountIn(Values(t), V) = CountIn(t, Holding(V))
<1> DEFINE S == {r \in ToSet(t) : r.value # Null}
           X == RowSet
           rows == Kept(t, S)
           vs == Values(t)
<1>1. rows \in Seq(X \cap S)
  <2> HIDE DEF S
  <2>1. QED
    BY KeptType
<1>2. /\ rows \in Seq(X) /\ Len(rows) \in Nat /\ DOMAIN rows = 1 .. Len(rows)
      /\ \A i \in 1 .. Len(rows) : rows[i] \in X /\ rows[i].value \in Int /\ rows[i].value # Null
  <2>1. \A r \in X \cap S : r.value \in Int /\ r \in X /\ r.value # Null
    BY DEF RowSet
  <2> HIDE DEF S, rows, X
  <2>2. \A i \in 1 .. Len(rows) : rows[i] \in X \cap S
    BY <1>1
  <2>3. QED
    BY <1>1, <2>1, <2>2
<1>3. vs = [i \in 1 .. Len(rows) |-> rows[i].value]
  BY <1>2 DEF Values
<1>4. ToSet(t) = {t[i] : i \in 1 .. Len(t)} /\ DOMAIN t = 1 .. Len(t)
  BY Elements, RowsHaveKeys
<1>5. ASSUME NEW V PROVE CountIn(t, S \cap Holding(V)) = CountIn(t, Holding(V))
  <2>1. \A i \in DOMAIN t : t[i] \in S \cap Holding(V) <=> t[i] \in Holding(V)
    BY <1>4 DEF Holding
  <2> HIDE DEF S
  <2>2. QED
    BY <2>1 DEF CountIn
<1> HIDE DEF S, rows, vs
<1>6. ASSUME NEW V PROVE CountIn(vs, V) = CountIn(rows, Holding(V))
  <2>1. DOMAIN vs = DOMAIN rows
    BY <1>2, <1>3
  <2>2. \A i \in DOMAIN rows : vs[i] \in V <=> rows[i] \in Holding(V)
    BY <1>2, <1>3 DEF Holding
  <2>3. QED
    BY <2>1, <2>2 DEF CountIn
<1>7. ASSUME NEW V PROVE CountIn(rows, Holding(V)) = CountIn(t, S \cap Holding(V))
  BY CountKept DEF rows
<1>8. vs \in [1 .. Len(rows) -> Int]
  BY <1>2, <1>3
<1>9. vs \in Seq(Int)
  BY <1>2, <1>8
<1>10. QED
  BY <1>5, <1>6, <1>7, <1>9 DEF vs

LEMMA KeyedValues ==
  ASSUME NEW t \in Seq(RowSet), NEW k
  PROVE  /\ Values(Keyed(t, k)) \in Seq(Int)
         /\ \A V : CountIn(Values(Keyed(t, k)), V) = CountIn(t, Of(k) \cap Holding(V))
<1> DEFINE s == Keyed(t, k)
<1>1. s \in Seq(RowSet) /\ \A P : CountIn(s, P) = CountIn(t, Of(k) \cap P)
  BY KeyedCount
<1> HIDE DEF s
<1>2. Values(s) \in Seq(Int) /\ \A V : CountIn(Values(s), V) = CountIn(s, Holding(V))
  BY <1>1, ValuesCount
<1>3. QED
  BY <1>1, <1>2 DEF s

AggOf(vs, agg) ==
  IF agg = "COUNT" THEN Len(vs)
  ELSE IF vs = <<>> THEN Null
  ELSE CASE agg = "SUM" -> SumOf(vs)
         [] agg = "MIN" -> CHOOSE v \in ToSet(vs) : \A w \in ToSet(vs) : v <= w
         [] agg = "MAX" -> CHOOSE v \in ToSet(vs) : \A w \in ToSet(vs) : v >= w
         [] agg = "AVG" -> SumOf(vs) \div Len(vs)

LEMMA ReduceIs ==
  ASSUME NEW t, NEW agg
  PROVE  Reduce(t, agg) = AggOf(Values(t), agg)
<1> DEFINE vs == Values(t)
<1>1. Reduce(t, agg) =
        IF agg = "COUNT" THEN Len(vs)
        ELSE IF vs = <<>> THEN Null
        ELSE CASE agg = "SUM" -> SumOf(vs)
               [] agg = "MIN" -> CHOOSE v \in ToSet(vs) : \A w \in ToSet(vs) : v <= w
               [] agg = "MAX" -> CHOOSE v \in ToSet(vs) : \A w \in ToSet(vs) : v >= w
               [] agg = "AVG" -> SumOf(vs) \div Len(vs)
  BY DEF Reduce
<1> HIDE DEF vs
<1>2. QED
  BY <1>1 DEF AggOf, vs

LEMMA AggAlike ==
  ASSUME NEW s \in Seq(Int), NEW t \in Seq(Int), SameCounts(s, t), NEW agg
  PROVE  AggOf(s, agg) = AggOf(t, agg)
<1>1. SumOf(s) = SumOf(t) /\ ToSet(s) = ToSet(t) /\ Len(s) = Len(t)
  BY SumAlike, AlikeElements
<1>2. s = <<>> <=> t = <<>>
  BY <1>1, EmptyIs
<1> DEFINE G(n, empty, x, S) ==
             IF agg = "COUNT" THEN n
             ELSE IF empty THEN Null
             ELSE CASE agg = "SUM" -> x
                    [] agg = "MIN" -> CHOOSE v \in S : \A w \in S : v <= w
                    [] agg = "MAX" -> CHOOSE v \in S : \A w \in S : v >= w
                    [] agg = "AVG" -> x \div n
<1>3. AggOf(s, agg) = G(Len(s), s = <<>>, SumOf(s), ToSet(s))
  BY DEF AggOf
<1>4. AggOf(t, agg) = G(Len(t), t = <<>>, SumOf(t), ToSet(t))
  BY DEF AggOf
<1>5. (s = <<>>) = (t = <<>>)
  BY <1>2
<1> HIDE DEF G
<1>6. QED
  BY <1>1, <1>3, <1>4, <1>5

Least(v, S) == v \in S /\ \A w \in S : v <= w
Most(v, S) == v \in S /\ \A w \in S : v >= w

(* What an aggregation makes of numbers, by its kind.                       *)
LEMMA AggKinds ==
  ASSUME NEW s \in Seq(Int), s # <<>>
  PROVE  /\ AggOf(s, "COUNT") = Len(s) /\ AggOf(s, "SUM") = SumOf(s)
         /\ Least(AggOf(s, "MIN"), ToSet(s)) /\ Most(AggOf(s, "MAX"), ToSet(s))
         /\ AggOf(s, "AVG") = SumOf(s) \div Len(s)
         /\ ToSet(s) \subseteq Int /\ SumOf(s) \in Int /\ Len(s) \in Nat /\ Len(s) > 0
<1>1. AggOf(s, "MIN") = CHOOSE v \in ToSet(s) : \A w \in ToSet(s) : v <= w
  BY DEF AggOf
<1>2. AggOf(s, "MAX") = CHOOSE v \in ToSet(s) : \A w \in ToSet(s) : v >= w
  BY DEF AggOf
<1>3. Least(AggOf(s, "MIN"), ToSet(s))
  BY <1>1, Extremes DEF Least
<1>4. Most(AggOf(s, "MAX"), ToSet(s))
  BY <1>2, Extremes DEF Most
<1>5. AggOf(s, "COUNT") = Len(s) /\ AggOf(s, "SUM") = SumOf(s) /\ AggOf(s, "AVG") = SumOf(s) \div Len(s)
  BY DEF AggOf
<1>6. ToSet(s) \subseteq Int /\ SumOf(s) \in Int /\ Len(s) \in Nat /\ Len(s) > 0
  BY Elements, SumIsInt, EmptyIs
<1>7. QED
  BY <1>3, <1>4, <1>5, <1>6

LEMMA AggType ==
  ASSUME NEW s \in Seq(Int), NEW agg \in Aggregation
  PROVE  /\ AggOf(s, agg) \in Int \cup {Null}
         /\ AggOf(s, agg) = Null <=> agg # "COUNT" /\ s = <<>>
<1>1. CASE s = <<>>
  <2>1. Len(s) \in Int
    BY EmptyIs
  <2>2. QED
    BY <1>1, <2>1, NullIsNoNumber DEF AggOf
<1>2. CASE s # <<>>
  <2> DEFINE x == SumOf(s)
             y == Len(s)
  <2>1. /\ AggOf(s, "COUNT") = y /\ AggOf(s, "SUM") = x
        /\ AggOf(s, "MIN") \in Int /\ AggOf(s, "MAX") \in Int
        /\ AggOf(s, "AVG") = x \div y /\ x \in Int /\ y \in Nat /\ y > 0
    BY <1>2, AggKinds DEF Least, Most
  <2> HIDE DEF x, y
  <2>2. x \div y \in Int
    BY <2>1
  <2>3. AggOf(s, agg) \in Int
    BY <2>1, <2>2 DEF Aggregation
  <2>4. QED
    BY <1>2, <2>3, NullIsNoNumber
<1>3. QED
  BY <1>1, <1>2

-----------------------------------------------------------------------------
(* What each node makes of its numbers.                                      *)

(* A node sends what it makes of its numbers, if that is not null.          *)
Partial(p, w, agg) ==
  \/ p = <<AggOf(w, agg)>> /\ AggOf(w, agg) # Null
  \/ p = <<>> /\ w = <<>>

LEMMA OneNumber ==
  ASSUME NEW x \in Int
  PROVE  <<x>> \in Seq(Int) /\ ToSet(<<x>>) = {x} /\ SumOf(<<x>>) = x /\ <<x>> # <<>>
<1> DEFINE s == <<x>>
<1>1. s \in Seq(Int) /\ Len(s) = 1 /\ s[1] = x /\ s # <<>>
  OBVIOUS
<1>2. SumOf(s) = x
  BY SumOne
<1> HIDE DEF s
<1>3. ToSet(s) = {s[i] : i \in 1 .. Len(s)}
  BY <1>1, Elements
<1>4. 1 .. Len(s) = {1}
  BY <1>1
<1>5. ToSet(s) = {x}
  BY <1>1, <1>3, <1>4
<1>6. QED
  BY <1>1, <1>2, <1>5 DEF s

LEMMA PartialFacts ==
  ASSUME NEW p, NEW w \in Seq(Int), NEW agg \in Aggregation, Partial(p, w, agg)
  PROVE  /\ p \in Seq(Int)
         /\ p = <<>> => w = <<>>
         /\ agg # "COUNT" => (w = <<>> => p = <<>>)
         /\ p # <<>> => ToSet(p) = {AggOf(w, agg)} /\ SumOf(p) = AggOf(w, agg) /\ AggOf(w, agg) \in Int
         /\ p = <<>> => ToSet(p) = {} /\ SumOf(p) = 0
<1>1. AggOf(w, agg) \in Int \cup {Null} /\ (AggOf(w, agg) = Null <=> agg # "COUNT" /\ w = <<>>)
  BY AggType
<1>2. <<>> \in Seq(Int) /\ SumOf(<<>>) = 0
  BY SumNothing
<1>3. ToSet(<<>>) = {}
  BY DEF ToSet
<1> DEFINE x == AggOf(w, agg)
<1>4. CASE p = <<x>> /\ x # Null
  <2>1. x \in Int
    BY <1>1, <1>4
  <2> HIDE DEF x
  <2>2. <<x>> \in Seq(Int) /\ ToSet(<<x>>) = {x} /\ SumOf(<<x>>) = x /\ <<x>> # <<>>
    BY <2>1, OneNumber
  <2>3. p \in Seq(Int) /\ ToSet(p) = {x} /\ SumOf(p) = x /\ p # <<>>
    BY <1>4, <2>2
  <2>4. agg # "COUNT" => w # <<>>
    BY <1>1, <1>4 DEF x
  <2>5. QED
    BY <2>1, <2>3, <2>4 DEF x
<1>5. CASE p = <<>> /\ w = <<>>
  BY <1>2, <1>3, <1>5
<1>6. QED
  BY <1>4, <1>5 DEF Partial

LEMMA OneLeast ==
  ASSUME NEW S \in SUBSET Int, NEW x, NEW y
  PROVE  (Least(x, S) /\ Least(y, S) => x = y) /\ (Most(x, S) /\ Most(y, S) => x = y)
<1>1. ASSUME Least(x, S), Least(y, S) PROVE x = y
  BY <1>1 DEF Least
<1>2. ASSUME Most(x, S), Most(y, S) PROVE x = y
  BY <1>2 DEF Most
<1>3. QED
  BY <1>1, <1>2

LEMMA MergedCounts ==
  ASSUME NEW n \in Nat, NEW w \in NumberLists(n), NEW p \in NumberLists(n),
         \A i \in 1 .. n : Partial(p[i], w[i], "COUNT"), \E i \in 1 .. n : p[i] # <<>>
  PROVE  AggOf(FlattenSeq(p), "SUM") = AggOf(FlattenSeq(w), "COUNT")
<1> DEFINE c == [i \in 1 .. n |-> Len(w[i])]
           P == FlattenSeq(p)
           W == FlattenSeq(w)
<1>1. P \in Seq(Int) /\ P # <<>> /\ W \in Seq(Int)
  BY FlatNumbers
<1>2. ASSUME NEW i \in 1 .. n PROVE Len(w[i]) \in Nat /\ SumOf(p[i]) = Len(w[i])
  <2>1. w[i] \in Seq(Int)
    BY DEF NumberLists
  <2>2. AggOf(w[i], "COUNT") = Len(w[i]) /\ Len(w[i]) \in Nat /\ (w[i] = <<>> => Len(w[i]) = 0)
    BY <2>1, EmptyIs DEF AggOf
  <2>3. "COUNT" \in Aggregation
    BY DEF Aggregation
  <2>4. CASE p[i] # <<>>
    BY <2>1, <2>2, <2>3, <2>4, PartialFacts
  <2>5. CASE p[i] = <<>>
    BY <2>1, <2>2, <2>3, <2>5, PartialFacts
  <2>6. QED
    BY <2>2, <2>4, <2>5
<1>3. c \in [1 .. n -> Int] /\ \A i \in 1 .. n : c[i] = Len(w[i])
  BY <1>2
<1> HIDE DEF c
<1>4. SumOf(P) = SumOf(c)
  <2>1. \A i \in 1 .. n : SumOf(p[i]) = c[i]
    BY <1>2, <1>3
  <2>2. QED
    BY <1>3, <2>1, FlatSum
<1>5. Len(W) = SumOf(c)
  BY <1>3, FlatLength
<1> HIDE DEF P, W
<1>6. AggOf(P, "SUM") = SumOf(P) /\ AggOf(W, "COUNT") = Len(W)
  BY <1>1 DEF AggOf
<1>7. QED
  BY <1>4, <1>5, <1>6 DEF P, W

-----------------------------------------------------------------------------
(* Sums, counts, the least and the greatest, merged from those of the nodes. *)

PartialsAre(n, p, w, agg) ==
  /\ FlattenSeq(p) = <<>> <=> FlattenSeq(w) = <<>>
  /\ \A i \in 1 .. n : w[i] \in Seq(Int) /\ (p[i] = <<>> <=> w[i] = <<>>)
  /\ \A i \in 1 .. n : p[i] # <<>> =>
       ToSet(p[i]) = {AggOf(w[i], agg)} /\ SumOf(p[i]) = AggOf(w[i], agg)

(* The parts are empty when the numbers are, unless they are counted.       *)
LEMMA PartialsOf ==
  ASSUME NEW n \in Nat, NEW w \in NumberLists(n), NEW p \in NumberLists(n), NEW agg \in Aggregation,
         agg # "COUNT", \A i \in 1 .. n : Partial(p[i], w[i], agg)
  PROVE  PartialsAre(n, p, w, agg)
<1>1. ASSUME NEW i \in 1 .. n
      PROVE  /\ w[i] \in Seq(Int) /\ (p[i] = <<>> <=> w[i] = <<>>)
             /\ p[i] # <<>> => ToSet(p[i]) = {AggOf(w[i], agg)} /\ SumOf(p[i]) = AggOf(w[i], agg)
  <2> DEFINE r == p[i]
             s == w[i]
  <2>1. s \in Seq(Int) /\ Partial(r, s, agg)
    BY DEF NumberLists
  <2> HIDE DEF r, s
  <2>2. /\ r = <<>> <=> s = <<>>
        /\ r # <<>> => ToSet(r) = {AggOf(s, agg)} /\ SumOf(r) = AggOf(s, agg)
    BY <2>1, PartialFacts
  <2>3. QED
    BY <2>1, <2>2 DEF r, s
<1>2. FlattenSeq(p) = <<>> <=> \A i \in 1 .. n : p[i] = <<>>
  BY FlatNumbers
<1>3. FlattenSeq(w) = <<>> <=> \A i \in 1 .. n : w[i] = <<>>
  BY FlatNumbers
<1>4. QED
  BY <1>1, <1>2, <1>3 DEF PartialsAre

LEMMA MergedSums ==
  ASSUME NEW n \in Nat, NEW w \in NumberLists(n), NEW p \in NumberLists(n),
         \A i \in 1 .. n : Partial(p[i], w[i], "SUM")
  PROVE  AggOf(FlattenSeq(p), "SUM") = AggOf(FlattenSeq(w), "SUM")
<1> DEFINE c == [i \in 1 .. n |-> SumOf(w[i])]
           P == FlattenSeq(p)
           W == FlattenSeq(w)
<1>1. "SUM" \in Aggregation
  BY DEF Aggregation
<1>2. /\ P = <<>> <=> W = <<>>
      /\ \A i \in 1 .. n : w[i] \in Seq(Int) /\ (p[i] = <<>> <=> w[i] = <<>>)
      /\ \A i \in 1 .. n : p[i] # <<>> => SumOf(p[i]) = AggOf(w[i], "SUM")
  <2>1. PartialsAre(n, p, w, "SUM")
    BY <1>1, PartialsOf
  <2>2. QED
    BY <2>1 DEF PartialsAre
<1>3. ASSUME NEW i \in 1 .. n PROVE SumOf(w[i]) \in Int /\ SumOf(p[i]) = SumOf(w[i])
  <2>1. SumOf(w[i]) \in Int
    BY <1>2, SumIsInt
  <2>2. p[i] # <<>> => AggOf(w[i], "SUM") = SumOf(w[i])
    BY <1>2, AggKinds
  <2>3. QED
    BY <1>2, <2>1, <2>2
<1>4. c \in [1 .. n -> Int] /\ (\A i \in 1 .. n : SumOf(p[i]) = c[i]) /\ (\A i \in 1 .. n : SumOf(w[i]) = c[i])
  BY <1>3
<1> HIDE DEF c
<1>5. SumOf(P) = SumOf(c)
  BY <1>4, FlatSum
<1>6. SumOf(W) = SumOf(c)
  BY <1>4, FlatSum
<1> HIDE DEF P, W
<1>7. AggOf(P, "SUM") = AggOf(W, "SUM")
  BY <1>2, <1>5, <1>6 DEF AggOf
<1>8. QED
  BY <1>7 DEF P, W

LEMMA MergedLeast ==
  ASSUME NEW n \in Nat, NEW w \in NumberLists(n), NEW p \in NumberLists(n),
         \A i \in 1 .. n : Partial(p[i], w[i], "MIN")
  PROVE  AggOf(FlattenSeq(p), "MIN") = AggOf(FlattenSeq(w), "MIN")
<1> DEFINE P == FlattenSeq(p)
           W == FlattenSeq(w)
           x == AggOf(P, "MIN")
           y == AggOf(W, "MIN")
           S == ToSet(P)
           T == ToSet(W)
<1>1. "MIN" \in Aggregation
  BY DEF Aggregation
<1>2. /\ P = <<>> <=> W = <<>>
      /\ \A i \in 1 .. n : w[i] \in Seq(Int) /\ (p[i] = <<>> <=> w[i] = <<>>)
      /\ \A i \in 1 .. n : p[i] # <<>> => ToSet(p[i]) = {AggOf(w[i], "MIN")}
  <2>1. PartialsAre(n, p, w, "MIN")
    BY <1>1, PartialsOf
  <2>2. QED
    BY <2>1 DEF PartialsAre
<1>3. P \in Seq(Int) /\ (\A v : v \in S <=> \E i \in 1 .. n : v \in ToSet(p[i]))
  BY FlatNumbers
<1>4. W \in Seq(Int) /\ (\A v : v \in T <=> \E i \in 1 .. n : v \in ToSet(w[i]))
  BY FlatNumbers
<1> HIDE DEF P, W, S, T
<1>5. CASE P = <<>>
  BY <1>2, <1>5 DEF P, W
<1>6. CASE P # <<>>
  <2>1. Least(x, S)
    BY <1>3, <1>6, AggKinds DEF S
  <2>2. Least(y, T) /\ T \subseteq Int
    BY <1>2, <1>4, <1>6, AggKinds DEF T
  <2>3. ASSUME NEW i \in 1 .. n, w[i] # <<>>
        PROVE Least(AggOf(w[i], "MIN"), ToSet(w[i])) /\ AggOf(w[i], "MIN") \in S
    <3>1. w[i] \in Seq(Int) /\ ToSet(p[i]) = {AggOf(w[i], "MIN")}
      BY <1>2, <2>3
    <3>2. Least(AggOf(w[i], "MIN"), ToSet(w[i]))
      BY <2>3, <3>1, AggKinds
    <3>3. QED
      BY <1>3, <3>1, <3>2
  <2>4. \A i \in 1 .. n : \A v : v \in ToSet(w[i]) => w[i] # <<>>
    BY DEF ToSet
  <2>5. \A i \in 1 .. n : \A v : v \in ToSet(p[i]) => p[i] # <<>>
    BY DEF ToSet
  <2> HIDE DEF x, y
  <2>6. x \in T
    <3>1. PICK i \in 1 .. n : x \in ToSet(p[i])
      BY <1>3, <2>1 DEF Least
    <3>2. w[i] # <<>> /\ x = AggOf(w[i], "MIN")
      BY <1>2, <2>5, <3>1
    <3>3. x \in ToSet(w[i])
      BY <2>3, <3>2 DEF Least
    <3>4. QED
      BY <1>4, <3>3
  <2>7. ASSUME NEW v \in T PROVE x <= v
    <3>1. PICK i \in 1 .. n : v \in ToSet(w[i])
      BY <1>4
    <3>2. w[i] # <<>>
      BY <2>4, <3>1
    <3> DEFINE z == AggOf(w[i], "MIN")
    <3>3. Least(z, ToSet(w[i])) /\ z \in S
      BY <2>3, <3>2
    <3> HIDE DEF z
    <3>4. x <= z /\ z <= v
      BY <2>1, <3>1, <3>3 DEF Least
    <3>5. z \in T
      BY <1>4, <3>3 DEF Least
    <3>6. QED
      BY <2>2, <2>6, <3>4, <3>5
  <2>8. Least(x, T)
    BY <2>6, <2>7 DEF Least
  <2>9. x = y
    BY <2>2, <2>8, OneLeast
  <2>10. QED
    BY <2>9 DEF x, y, P, W
<1>7. QED
  BY <1>5, <1>6
LEMMA MergedMost ==
  ASSUME NEW n \in Nat, NEW w \in NumberLists(n), NEW p \in NumberLists(n),
         \A i \in 1 .. n : Partial(p[i], w[i], "MAX")
  PROVE  AggOf(FlattenSeq(p), "MAX") = AggOf(FlattenSeq(w), "MAX")
<1> DEFINE P == FlattenSeq(p)
           W == FlattenSeq(w)
           x == AggOf(P, "MAX")
           y == AggOf(W, "MAX")
           S == ToSet(P)
           T == ToSet(W)
<1>1. "MAX" \in Aggregation
  BY DEF Aggregation
<1>2. /\ P = <<>> <=> W = <<>>
      /\ \A i \in 1 .. n : w[i] \in Seq(Int) /\ (p[i] = <<>> <=> w[i] = <<>>)
      /\ \A i \in 1 .. n : p[i] # <<>> => ToSet(p[i]) = {AggOf(w[i], "MAX")}
  <2>1. PartialsAre(n, p, w, "MAX")
    BY <1>1, PartialsOf
  <2>2. QED
    BY <2>1 DEF PartialsAre
<1>3. P \in Seq(Int) /\ (\A v : v \in S <=> \E i \in 1 .. n : v \in ToSet(p[i]))
  BY FlatNumbers
<1>4. W \in Seq(Int) /\ (\A v : v \in T <=> \E i \in 1 .. n : v \in ToSet(w[i]))
  BY FlatNumbers
<1> HIDE DEF P, W, S, T
<1>5. CASE P = <<>>
  BY <1>2, <1>5 DEF P, W
<1>6. CASE P # <<>>
  <2>1. Most(x, S)
    BY <1>3, <1>6, AggKinds DEF S
  <2>2. Most(y, T) /\ T \subseteq Int
    BY <1>2, <1>4, <1>6, AggKinds DEF T
  <2>3. ASSUME NEW i \in 1 .. n, w[i] # <<>>
        PROVE Most(AggOf(w[i], "MAX"), ToSet(w[i])) /\ AggOf(w[i], "MAX") \in S
    <3>1. w[i] \in Seq(Int) /\ ToSet(p[i]) = {AggOf(w[i], "MAX")}
      BY <1>2, <2>3
    <3>2. Most(AggOf(w[i], "MAX"), ToSet(w[i]))
      BY <2>3, <3>1, AggKinds
    <3>3. QED
      BY <1>3, <3>1, <3>2
  <2>4. \A i \in 1 .. n : \A v : v \in ToSet(w[i]) => w[i] # <<>>
    BY DEF ToSet
  <2>5. \A i \in 1 .. n : \A v : v \in ToSet(p[i]) => p[i] # <<>>
    BY DEF ToSet
  <2> HIDE DEF x, y
  <2>6. x \in T
    <3>1. PICK i \in 1 .. n : x \in ToSet(p[i])
      BY <1>3, <2>1 DEF Most
    <3>2. w[i] # <<>> /\ x = AggOf(w[i], "MAX")
      BY <1>2, <2>5, <3>1
    <3>3. x \in ToSet(w[i])
      BY <2>3, <3>2 DEF Most
    <3>4. QED
      BY <1>4, <3>3
  <2>7. ASSUME NEW v \in T PROVE x >= v
    <3>1. PICK i \in 1 .. n : v \in ToSet(w[i])
      BY <1>4
    <3>2. w[i] # <<>>
      BY <2>4, <3>1
    <3> DEFINE z == AggOf(w[i], "MAX")
    <3>3. Most(z, ToSet(w[i])) /\ z \in S
      BY <2>3, <3>2
    <3> HIDE DEF z
    <3>4. x >= z /\ z >= v
      BY <2>1, <3>1, <3>3 DEF Most
    <3>5. z \in T
      BY <1>4, <3>3 DEF Most
    <3>6. QED
      BY <2>2, <2>6, <3>4, <3>5
  <2>8. Most(x, T)
    BY <2>6, <2>7 DEF Most
  <2>9. x = y
    BY <2>2, <2>8, OneLeast
  <2>10. QED
    BY <2>9 DEF x, y, P, W
<1>7. QED
  BY <1>5, <1>6

-----------------------------------------------------------------------------
(* Averages of averages, and the other aggregations merged.                  *)

(* An average of what is between two numbers is between them.               *)
LEMMA AverageBounds ==
  ASSUME NEW s \in Seq(Int), s # <<>>, NEW a \in Int, NEW b \in Int,
         \A v \in ToSet(s) : a <= v /\ v <= b
  PROVE  AggOf(s, "AVG") \in Int /\ a <= AggOf(s, "AVG") /\ AggOf(s, "AVG") <= b
<1> DEFINE x == SumOf(s)
           n == Len(s)
<1>1. AggOf(s, "AVG") = x \div n /\ x \in Int /\ n \in Nat /\ n > 0
  BY AggKinds
<1>2. \A i \in 1 .. Len(s) : a <= s[i] /\ s[i] <= b
  BY Elements
<1>3. a * n <= x /\ x <= b * n
  BY <1>2, SumBounds
<1> HIDE DEF x, n
<1>4. a <= x \div n /\ x \div n <= b
  BY <1>1, <1>3, QuotientBounds
<1>5. x \div n \in Int
  BY <1>1, Quotient
<1>6. QED
  BY <1>1, <1>4, <1>5

LEMMA MergedAverage ==
  ASSUME NEW n \in Nat, NEW w \in NumberLists(n), NEW p \in NumberLists(n),
         \A i \in 1 .. n : Partial(p[i], w[i], "AVG")
  PROVE  /\ FlattenSeq(p) = <<>> <=> FlattenSeq(w) = <<>>
         /\ FlattenSeq(p) # <<>> =>
              /\ AggOf(FlattenSeq(p), "AVG") \in Int
              /\ AggOf(FlattenSeq(w), "MIN") <= AggOf(FlattenSeq(p), "AVG")
              /\ AggOf(FlattenSeq(p), "AVG") <= AggOf(FlattenSeq(w), "MAX")
<1> DEFINE P == FlattenSeq(p)
           W == FlattenSeq(w)
           a == AggOf(W, "MIN")
           b == AggOf(W, "MAX")
           T == ToSet(W)
<1>1. "AVG" \in Aggregation
  BY DEF Aggregation
<1>2. PartialsAre(n, p, w, "AVG")
  BY <1>1, PartialsOf
<1>3. /\ P = <<>> <=> W = <<>>
      /\ \A i \in 1 .. n : w[i] \in Seq(Int) /\ (p[i] = <<>> <=> w[i] = <<>>)
      /\ \A i \in 1 .. n : p[i] # <<>> => ToSet(p[i]) = {AggOf(w[i], "AVG")}
  BY <1>2 DEF PartialsAre
<1>4. P \in Seq(Int) /\ (\A v : v \in ToSet(P) <=> \E i \in 1 .. n : v \in ToSet(p[i]))
  BY FlatNumbers
<1>5. W \in Seq(Int) /\ (\A v : v \in T <=> \E i \in 1 .. n : v \in ToSet(w[i]))
  BY FlatNumbers
<1>6. \A i \in 1 .. n : \A v : v \in ToSet(p[i]) => p[i] # <<>>
  BY DEF ToSet
<1> HIDE DEF P, W, T
<1>7. ASSUME P # <<>> PROVE AggOf(P, "AVG") \in Int /\ a <= AggOf(P, "AVG") /\ AggOf(P, "AVG") <= b
  <2>1. Least(a, T) /\ Most(b, T) /\ T \subseteq Int
    BY <1>3, <1>5, <1>7, AggKinds DEF T
  <2>2. a \in Int /\ b \in Int /\ \A v \in T : v \in Int /\ a <= v /\ v <= b
    BY <2>1 DEF Least, Most
  <2> HIDE DEF a, b
  <2>3. ASSUME NEW v \in ToSet(P) PROVE a <= v /\ v <= b
    <3>1. PICK i \in 1 .. n : v \in ToSet(p[i])
      BY <1>4
    <3> DEFINE s == w[i]
    <3>2. s # <<>> /\ v = AggOf(s, "AVG") /\ s \in Seq(Int)
      BY <1>3, <1>6, <3>1
    <3>3. \A u \in ToSet(s) : a <= u /\ u <= b
      BY <1>5, <2>2
    <3> HIDE DEF s
    <3>4. QED
      BY <2>2, <3>2, <3>3, AverageBounds
  <2>4. QED
    BY <1>4, <1>7, <2>2, <2>3, AverageBounds
<1>8. QED
  BY <1>3, <1>7 DEF P, W

(* What is merged of the parts is what one node makes of all numbers.       *)
LEMMA MergedAggregation ==
  ASSUME NEW n \in Nat, NEW w \in NumberLists(n), NEW p \in NumberLists(n),
         NEW agg \in Aggregation, agg # "AVG",
         \A i \in 1 .. n : Partial(p[i], w[i], agg),
         agg = "COUNT" => \E i \in 1 .. n : p[i] # <<>>
  PROVE  AggOf(FlattenSeq(p), MergedWith(agg)) = AggOf(FlattenSeq(w), agg)
<1>1. CASE agg = "COUNT"
  <2>1. AggOf(FlattenSeq(p), "SUM") = AggOf(FlattenSeq(w), "COUNT")
    BY <1>1, MergedCounts
  <2>2. QED
    BY <1>1, <2>1 DEF MergedWith
<1>2. CASE agg = "SUM"
  <2>1. AggOf(FlattenSeq(p), "SUM") = AggOf(FlattenSeq(w), "SUM")
    BY <1>2, MergedSums
  <2>2. QED
    BY <1>2, <2>1 DEF MergedWith
<1>3. CASE agg = "MIN"
  <2>1. AggOf(FlattenSeq(p), "MIN") = AggOf(FlattenSeq(w), "MIN")
    BY <1>3, MergedLeast
  <2>2. QED
    BY <1>3, <2>1 DEF MergedWith
<1>4. CASE agg = "MAX"
  <2>1. AggOf(FlattenSeq(p), "MAX") = AggOf(FlattenSeq(w), "MAX")
    BY <1>4, MergedMost
  <2>2. QED
    BY <1>4, <2>1 DEF MergedWith
<1>5. QED
  BY <1>1, <1>2, <1>3, <1>4 DEF Aggregation

-----------------------------------------------------------------------------
(* What an aggregation with a group by has for each key.                     *)

CountedByKey(g, K, v) ==
  \A k, V : CountIn(g, Of(k) \cap Holding(V)) = IF k \in K /\ v[k] # Null /\ v[k] \in V THEN 1 ELSE 0

LEMMA CountByKeyIn ==
  ASSUME NEW g, NEW K, NEW v, ByKey(g, K, v)
  PROVE  CountedByKey(g, K, v)
<1>0. SUFFICES ASSUME NEW k, NEW V
      PROVE CountIn(g, Of(k) \cap Holding(V)) = IF k \in K /\ v[k] # Null /\ v[k] \in V THEN 1 ELSE 0
  BY DEF CountedByKey
<1> DEFINE X == RowSet
           R == Of(k) \cap Holding(V)
<1>1. g \in Seq(X)
  BY DEF ByKey
<1>2. /\ \A i \in 1 .. Len(g) : g[i] \in X /\ g[i].key \in K /\ g[i].value = v[g[i].key]
      /\ \A l \in K : \E i \in 1 .. Len(g) : g[i].key = l
      /\ \A i, j \in 1 .. Len(g) : g[i].key = g[j].key => i = j
  BY DEF ByKey
<1>3. \A i \in 1 .. Len(g) : g[i] \in R <=> g[i].key = k /\ g[i].value # Null /\ g[i].value \in V
  BY <1>2 DEF Of, Holding
<1> HIDE DEF R, X
<1>4. CASE k \in K /\ v[k] # Null /\ v[k] \in V
  <2>1. PICK i \in 1 .. Len(g) : g[i].key = k
    BY <1>2, <1>4
  <2>2. g[i] \in R
    BY <1>2, <1>3, <1>4, <2>1
  <2>3. \A j \in 1 .. Len(g) : g[j] \in R => j = i
    BY <1>2, <1>3, <2>1
  <2>4. CountIn(g, R) = 1
    BY <1>1, <2>2, <2>3, CountSingle
  <2>5. QED
    BY <1>4, <2>4 DEF R
<1>5. CASE ~(k \in K /\ v[k] # Null /\ v[k] \in V)
  <2>1. \A i \in 1 .. Len(g) : g[i] \notin R
    BY <1>2, <1>3, <1>5
  <2>2. CountIn(g, R) = 0
    BY <1>1, <2>1, CountZero
  <2>3. QED
    BY <1>5, <2>2 DEF R
<1>6. QED
  BY <1>4, <1>5

NoValue == [k \in Keys |-> Null]
ReducedIn(t, agg) == [k \in Keys |-> Reduce(Keyed(t, k), agg)]

LEMMA GroupsByKey ==
  ASSUME NEW t \in Seq(RowSet)
  PROVE  ByKey(groupby_without_aggregations(t), KeysOf(t), NoValue)
<1> DEFINE g == groupby_without_aggregations(t)
           K == KeysOf(t)
<1>1. /\ g \in Seq(RowSet)
      /\ \A i \in 1 .. Len(g) : g[i].key \in K /\ g[i].value = Null
      /\ \A k \in K : \E i \in 1 .. Len(g) : g[i].key = k
      /\ \A i, j \in 1 .. Len(g) : i < j => g[i].key < g[j].key
  BY GroupsHaveKeys DEF Groups
<1>2. K \subseteq Keys
  BY RowsHaveKeys
<1> HIDE DEF g, K
<1>3. \A i \in 1 .. Len(g) : g[i].key \in Int /\ i \in Int
  BY <1>1, RowsHaveKeys
<1>4. ASSUME NEW i \in 1 .. Len(g), NEW j \in 1 .. Len(g), g[i].key = g[j].key PROVE i = j
  <2> DEFINE x == g[i].key
             y == g[j].key
  <2>1. x \in Int /\ y \in Int /\ i \in Int /\ j \in Int /\ x = y /\ (i < j => x < y) /\ (j < i => y < x)
    BY <1>1, <1>3, <1>4
  <2> HIDE DEF x, y
  <2>2. QED
    BY <2>1
<1>5. \A i \in 1 .. Len(g) : g[i].value = NoValue[g[i].key]
  BY <1>1, <1>2 DEF NoValue
<1>6. ByKey(g, K, NoValue)
  BY <1>1, <1>4, <1>5 DEF ByKey
<1>7. QED
  BY <1>6 DEF g, K

LEMMA AggregatesByKey ==
  ASSUME NEW t \in Seq(RowSet), NEW agg \in Aggregation
  PROVE  ByKey(compute_aggregations(t, agg, TRUE), KeysOf(t), ReducedIn(t, agg))
<1> DEFINE g == groupby_without_aggregations(t)
           K == KeysOf(t)
           v == ReducedIn(t, agg)
           a == compute_aggregations(t, agg, TRUE)
<1>1. ByKey(g, K, NoValue) /\ K \subseteq Keys
  BY GroupsByKey, RowsHaveKeys
<1>2. a \in Seq(RowSet)
  BY AggregatedRows
<1> HIDE DEF g
<1>3. g \in Seq(RowSet) /\ DOMAIN g = 1 .. Len(g) /\ Len(g) \in Nat
      /\ \A i \in 1 .. Len(g) : g[i].key \in K
  BY <1>1, RowsHaveKeys DEF ByKey
<1>4. a = [i \in 1 .. Len(g) |-> Row(g[i].key, Reduce(Keyed(t, g[i].key), agg))]
  BY <1>3 DEF compute_aggregations, aggregations_with_groupby, g
<1> HIDE DEF a, K
<1>5. DOMAIN a = 1 .. Len(a) /\ Len(a) = Len(g)
  <2>1. DOMAIN a = 1 .. Len(g)
    BY <1>4
  <2>2. DOMAIN a = 1 .. Len(a) /\ Len(a) \in Nat
    BY <1>2, RowsHaveKeys
  <2> DEFINE x == Len(a)
             y == Len(g)
  <2>3. x \in Nat /\ y \in Nat /\ 1 .. x = 1 .. y
    BY <1>3, <2>1, <2>2
  <2> HIDE DEF x, y
  <2>4. x = y
    <3>1. \A z \in Nat : z \in 1 .. x <=> z \in 1 .. y
      BY <2>3
    <3>2. (x > 0 => x <= y) /\ (y > 0 => y <= x)
      BY <2>3, <3>1
    <3>3. QED
      BY <2>3, <3>2
  <2>5. QED
    BY <2>2, <2>4 DEF x, y
<1>6. ASSUME NEW i \in 1 .. Len(g)
      PROVE a[i].key = g[i].key /\ a[i].key \in K /\ a[i].value = v[a[i].key]
  <2>1. g[i].key \in Keys /\ g[i].key \in K
    BY <1>1, <1>3
  <2>2. a[i] = Row(g[i].key, Reduce(Keyed(t, g[i].key), agg))
    BY <1>4
  <2>3. a[i].key = g[i].key /\ a[i].value = Reduce(Keyed(t, g[i].key), agg)
    BY <2>2 DEF Row
  <2>4. v[g[i].key] = Reduce(Keyed(t, g[i].key), agg)
    BY <2>1 DEF ReducedIn
  <2>5. QED
    BY <2>1, <2>3, <2>4
<1> HIDE DEF v
<1>7. ByKey(a, K, v)
  BY <1>1, <1>2, <1>5, <1>6 DEF ByKey
<1>8. QED
  BY <1>7 DEF a, K, v

PlaceOf(k, plan) == Cardinality({i \in 1 .. N - 1 : plan[i] < k}) + 1

HasAllOf(s, a, k) == \A Q : CountIn(s, Of(k) \cap Q) = CountIn(a, Of(k) \cap Q)

LEMMA OnlyAtHome ==
  ASSUME NEW P \in Tables, NEW plan, PlacedByPivots(P, plan),
         NEW a \in Seq(RowSet), KeepsRows(P, a),
         NEW d \in Node, NEW k \in Keys, PlaceOf(k, plan) = d
  PROVE  HasAllOf(P[d], a, k)
<1>0. SUFFICES ASSUME NEW Q PROVE CountIn(P[d], Of(k) \cap Q) = CountIn(a, Of(k) \cap Q)
  BY DEF HasAllOf
<1> DEFINE R == Of(k) \cap Q
           X == RowSet
<1>1. PICK s \in Seq(RowSet) : PartsOf(P, s) /\ SameCounts(s, a)
  BY DEF KeepsRows
<1>2. FlattenSeq(P) = s /\ P \in [1 .. N -> Seq(X)] /\ N \in Nat
  BY <1>1, Distributed DEF PartsOf, Node
<1>3. ASSUME NEW c \in 1 .. N, c # d PROVE CountIn(P[c], R) = 0
  <2>1. P[c] \in Seq(X) /\ c \in Node
    BY <1>2 DEF Node
  <2>2. ASSUME NEW i \in 1 .. Len(P[c]), P[c][i] \in R PROVE FALSE
    <3>1. P[c][i].key = k /\ P[c][i].key \in KeysOf(P[c])
      <4>1. DOMAIN P[c] = 1 .. Len(P[c])
        BY <2>1, RowsHaveKeys
      <4>2. QED
        BY <2>2, <4>1 DEF Of, KeysOf
    <3>2. Cardinality({j \in 1 .. N - 1 : plan[j] < k}) = c - 1
      BY <2>1, <3>1 DEF PlacedByPivots
    <3> DEFINE z == Cardinality({j \in 1 .. N - 1 : plan[j] < k})
    <3>3. z = c - 1 /\ z + 1 = d /\ c \in Int /\ d \in Int
      BY <3>2 DEF PlaceOf, Node
    <3> HIDE DEF z
    <3>4. QED
      BY <1>3, <3>3
  <2> HIDE DEF X, R
  <2>3. QED
    BY <2>1, <2>2, CountZero
<1>4. OnlyAt(P, N, R, d) /\ d \in 1 .. N
  BY <1>3 DEF OnlyAt, Node
<1> HIDE DEF X, R
<1>5. CountIn(FlattenSeq(P), R) = CountIn(P[d], R)
  BY <1>2, <1>4, CountOfOnly
<1>6. QED
  BY <1>1, <1>2, <1>5 DEF SameCounts, R

-----------------------------------------------------------------------------
(* The numbers of a key: on the nodes, sent, and received.                   *)

(* The numbers of the nodes, and what each node sends of them for a key.    *)
NumbersOf(T, k) == [m \in Node |-> Values(Keyed(T[m], k))]
SentOf(t, agg, k) ==
  IF k \in KeysOf(t) /\ Reduce(Keyed(t, k), agg) # Null THEN <<Reduce(Keyed(t, k), agg)>> ELSE <<>>
SentBy(T, agg, k) == [m \in Node |-> SentOf(T[m], agg, k)]

LEMMA SentIsPartial ==
  ASSUME NEW t \in Seq(RowSet), NEW agg \in Aggregation, NEW k
  PROVE  /\ Partial(SentOf(t, agg, k), Values(Keyed(t, k)), agg)
         /\ agg = "COUNT" /\ k \in KeysOf(t) => SentOf(t, agg, k) # <<>>
         /\ Values(Keyed(t, k)) \in Seq(Int) /\ SentOf(t, agg, k) \in Seq(Int)
<1> DEFINE w == Values(Keyed(t, k))
           x == Reduce(Keyed(t, k), agg)
<1>1. w \in Seq(Int) /\ \A V : CountIn(w, V) = CountIn(t, Of(k) \cap Holding(V))
  BY KeyedValues
<1>2. x = AggOf(w, agg)
  BY ReduceIs
<1> HIDE DEF w, x
<1>3. AggOf(w, agg) \in Int \cup {Null} /\ (AggOf(w, agg) = Null <=> agg # "COUNT" /\ w = <<>>)
  BY <1>1, AggType
<1>4. ASSUME k \notin KeysOf(t) PROVE w = <<>>
  <2> DEFINE R == Of(k) \cap Holding(Int)
             X == RowSet
  <2>1. \A i \in 1 .. Len(t) : t[i] \notin R
    BY <1>4, RowsHaveKeys DEF Of, KeysOf
  <2> HIDE DEF R
  <2>2. CountIn(t, R) = 0
    BY <2>1, CountZero
  <2>3. CountIn(w, Int) = Len(w)
    BY <1>1, CountAll
  <2>4. Len(w) = 0
    BY <1>1, <2>2, <2>3 DEF R
  <2>5. QED
    BY <1>1, <2>4, EmptyIs
<1>5. SentOf(t, agg, k) = IF k \in KeysOf(t) /\ x # Null THEN <<x>> ELSE <<>>
  BY DEF SentOf, x
<1>6. Partial(SentOf(t, agg, k), w, agg)
  <2>1. CASE k \in KeysOf(t) /\ x # Null
    BY <1>2, <1>5, <2>1 DEF Partial
  <2>2. CASE ~(k \in KeysOf(t) /\ x # Null)
    BY <1>2, <1>3, <1>4, <1>5, <2>2 DEF Partial
  <2>3. QED
    BY <2>1, <2>2
<1>7. ASSUME agg = "COUNT", k \in KeysOf(t) PROVE SentOf(t, agg, k) # <<>>
  <2>1. x # Null
    BY <1>2, <1>3, <1>7
  <2>2. SentOf(t, agg, k) = <<x>>
    BY <1>5, <1>7, <2>1
  <2>3. QED
    BY <2>2
<1>8. SentOf(t, agg, k) \in Seq(Int)
  BY <1>1, <1>6, PartialFacts
<1>9. QED
  BY <1>1, <1>6, <1>7, <1>8 DEF w

SendsAllOf(t, agg, k) ==
  \A V : CountIn(SentOf(t, agg, k), V)
           = CountIn(compute_aggregations(t, agg, TRUE), Of(k) \cap Holding(V))

LEMMA SentCount ==
  ASSUME NEW t \in Seq(RowSet), NEW agg \in Aggregation, NEW k \in Keys
  PROVE  SendsAllOf(t, agg, k)
<1>0. SUFFICES ASSUME NEW V
      PROVE CountIn(SentOf(t, agg, k), V)
              = CountIn(compute_aggregations(t, agg, TRUE), Of(k) \cap Holding(V))
  BY DEF SendsAllOf
<1> DEFINE x == Reduce(Keyed(t, k), agg)
           v == ReducedIn(t, agg)
<1>1. ByKey(compute_aggregations(t, agg, TRUE), KeysOf(t), v)
  BY AggregatesByKey
<1>2. v[k] = x
  BY DEF ReducedIn
<1>3. Keyed(t, k) \in Seq(RowSet)
  BY KeyedCount
<1>4. x \in Int \cup {Null}
  BY <1>3, ReduceType
<1> HIDE DEF v
<1>5. CountIn(compute_aggregations(t, agg, TRUE), Of(k) \cap Holding(V))
        = IF k \in KeysOf(t) /\ v[k] # Null /\ v[k] \in V THEN 1 ELSE 0
  <2> DEFINE a == compute_aggregations(t, agg, TRUE)
             K == KeysOf(t)
  <2>1. ByKey(a, K, v)
    BY <1>1
  <2> HIDE DEF a, K
  <2>2. CountedByKey(a, K, v)
    BY <2>1, CountByKeyIn
  <2>3. QED
    BY <2>2 DEF a, K, CountedByKey
<1>6. SentOf(t, agg, k) = IF k \in KeysOf(t) /\ x # Null THEN <<x>> ELSE <<>>
  BY DEF SentOf
<1> HIDE DEF x
<1>7. CASE k \in KeysOf(t) /\ x # Null
  <2>1. x \in Int /\ SentOf(t, agg, k) = <<x>>
    BY <1>4, <1>6, <1>7
  <2>2. CountIn(<<x>>, V) = IF x \in V THEN 1 ELSE 0
    BY <2>1, CountOne
  <2>3. QED
    BY <1>2, <1>5, <1>7, <2>1, <2>2
<1>8. CASE ~(k \in KeysOf(t) /\ x # Null)
  BY <1>2, <1>5, <1>6, <1>8, CountNothing
<1>9. QED
  BY <1>7, <1>8

LEMMA NumbersOfWhole ==
  ASSUME NEW T \in Tables, NEW k
  PROVE  /\ NumbersOf(T, k) \in NumberLists(N) /\ Values(Keyed(Whole(T), k)) \in Seq(Int)
         /\ SameCounts(Values(Keyed(Whole(T), k)), FlattenSeq(NumbersOf(T, k)))
<1> DEFINE w == NumbersOf(T, k)
           W == Whole(T)
           X == RowSet
<1>1. N \in Nat /\ Node = 1 .. N /\ T \in [1 .. N -> Seq(X)] /\ W = FlattenSeq(T) /\ W \in Seq(X)
  BY WholeType DEF Node, Tables, RowSet
<1>2. ASSUME NEW m \in 1 .. N
      PROVE w[m] \in Seq(Int) /\ \A V : CountIn(w[m], V) = CountIn(T[m], Of(k) \cap Holding(V))
  <2> DEFINE t == T[m]
  <2>1. t \in Seq(RowSet) /\ w[m] = Values(Keyed(t, k))
    BY <1>1 DEF NumbersOf
  <2> HIDE DEF t, w
  <2>2. Values(Keyed(t, k)) \in Seq(Int)
        /\ \A V : CountIn(Values(Keyed(t, k)), V) = CountIn(t, Of(k) \cap Holding(V))
    BY <2>1, KeyedValues
  <2>3. QED
    BY <2>1, <2>2 DEF t
<1>3. w \in [1 .. N -> Seq(Int)]
  BY <1>1, <1>2 DEF NumbersOf
<1>4. Values(Keyed(W, k)) \in Seq(Int)
      /\ \A V : CountIn(Values(Keyed(W, k)), V) = CountIn(W, Of(k) \cap Holding(V))
  BY <1>1, KeyedValues
<1> HIDE DEF w, X, W
<1>5. ASSUME NEW V PROVE CountIn(FlattenSeq(w), V) = CountIn(W, Of(k) \cap Holding(V))
  <2> DEFINE R == Of(k) \cap Holding(V)
             c == [m \in 1 .. N |-> CountIn(T[m], R)]
  <2>1. \A m \in 1 .. N : CountIn(w[m], V) = CountIn(T[m], R)
    BY <1>2
  <2> HIDE DEF R
  <2>2. CountIn(FlattenSeq(T), R) = SumOf([m \in 1 .. N |-> CountIn(T[m], R)])
    BY <1>1, CountOfFlat
  <2>3. CountIn(FlattenSeq(w), V) = SumOf([m \in 1 .. N |-> CountIn(w[m], V)])
    BY <1>1, <1>3, CountOfFlat
  <2>4. [m \in 1 .. N |-> CountIn(w[m], V)] = [m \in 1 .. N |-> CountIn(T[m], R)]
    BY <2>1
  <2>5. QED
    BY <1>1, <2>2, <2>3, <2>4 DEF R
<1>6. SameCounts(Values(Keyed(W, k)), FlattenSeq(w))
  BY <1>4, <1>5 DEF SameCounts
<1>7. QED
  BY <1>3, <1>4, <1>6 DEF w, W, NumberLists

LEMMA NumbersReceived ==
  ASSUME NEW T \in Tables, NEW agg \in Aggregation, NEW P \in [Node -> Tables], NEW plan,
         \A m \in Node : PlacedByPivots(P[m], plan)
                         /\ KeepsRows(P[m], compute_aggregations(T[m], agg, TRUE)),
         NEW d \in Node, NEW k \in Keys, PlaceOf(k, plan) = d,
         NEW C \in Seq(RowSet), SameCounts(C, Column(P, d))
  PROVE  /\ SentBy(T, agg, k) \in NumberLists(N) /\ Values(Keyed(C, k)) \in Seq(Int)
         /\ SameCounts(Values(Keyed(C, k)), FlattenSeq(SentBy(T, agg, k)))
<1> DEFINE p == SentBy(T, agg, k)
           col == [m \in Node |-> P[m][d]]
           X == RowSet
<1>1. N \in Nat /\ Node = 1 .. N /\ T \in [1 .. N -> Seq(X)]
  BY WholeType DEF Node, Tables, RowSet
<1>2. col \in [1 .. N -> Seq(X)] /\ Column(P, d) = FlattenSeq(col)
  BY ColumnType DEF Column
<1>3. ASSUME NEW m \in 1 .. N PROVE p[m] \in Seq(Int)
  BY <1>1, SentIsPartial DEF SentBy
<1>4. p \in [1 .. N -> Seq(Int)]
  BY <1>1, <1>3 DEF SentBy
<1>5. ASSUME NEW m \in 1 .. N, NEW V
      PROVE CountIn(p[m], V) = CountIn(col[m], Of(k) \cap Holding(V))
  <2> DEFINE a == compute_aggregations(T[m], agg, TRUE)
  <2>1. m \in Node /\ T[m] \in Seq(RowSet) /\ P[m] \in Tables
    BY <1>1
  <2>2. a \in Seq(RowSet)
    BY <2>1, AggregatedRows
  <2>3. PlacedByPivots(P[m], plan) /\ KeepsRows(P[m], a)
    BY <2>1
  <2> DEFINE t == T[m]
             Q == P[m]
             H == Holding(V)
  <2>4. CountIn(p[m], V) = CountIn(a, Of(k) \cap H)
    <3>1. p[m] = SentOf(t, agg, k) /\ t \in Seq(RowSet)
      BY <2>1 DEF SentBy
    <3> HIDE DEF t
    <3>2. SendsAllOf(t, agg, k)
      BY <3>1, SentCount
    <3>3. CountIn(SentOf(t, agg, k), V)
            = CountIn(compute_aggregations(t, agg, TRUE), Of(k) \cap Holding(V))
      BY <3>2 DEF SendsAllOf
    <3>4. QED
      BY <3>1, <3>3 DEF t
  <2>a. Q \in Tables /\ PlacedByPivots(Q, plan) /\ KeepsRows(Q, a)
    BY <2>1, <2>3
  <2> HIDE DEF a, Q, H
  <2>b. HasAllOf(Q[d], a, k)
    BY <2>2, <2>a, OnlyAtHome
  <2>5. CountIn(P[m][d], Of(k) \cap Holding(V)) = CountIn(a, Of(k) \cap Holding(V))
    BY <2>b DEF Q, H, HasAllOf
  <2>6. QED
    BY <2>1, <2>4, <2>5 DEF H
<1>6. Values(Keyed(C, k)) \in Seq(Int)
      /\ \A V : CountIn(Values(Keyed(C, k)), V) = CountIn(C, Of(k) \cap Holding(V))
  BY KeyedValues
<1> HIDE DEF p, col, X
<1>7. ASSUME NEW V PROVE CountIn(FlattenSeq(p), V) = CountIn(C, Of(k) \cap Holding(V))
  <2> DEFINE R == Of(k) \cap Holding(V)
  <2>1. \A m \in 1 .. N : CountIn(p[m], V) = CountIn(col[m], R)
    BY <1>5
  <2> HIDE DEF R
  <2>2. CountIn(FlattenSeq(col), R) = SumOf([m \in 1 .. N |-> CountIn(col[m], R)])
    BY <1>1, <1>2, CountOfFlat
  <2>3. CountIn(FlattenSeq(p), V) = SumOf([m \in 1 .. N |-> CountIn(p[m], V)])
    BY <1>1, <1>4, CountOfFlat
  <2>4. [m \in 1 .. N |-> CountIn(p[m], V)] = [m \in 1 .. N |-> CountIn(col[m], R)]
    BY <2>1
  <2>5. CountIn(C, R) = CountIn(FlattenSeq(col), R)
    BY <1>2 DEF SameCounts
  <2>6. QED
    BY <2>2, <2>3, <2>4, <2>5 DEF R
<1>8. SameCounts(Values(Keyed(C, k)), FlattenSeq(p))
  BY <1>6, <1>7 DEF SameCounts
<1>9. QED
  BY <1>4, <1>6, <1>8 DEF p, NumberLists

-----------------------------------------------------------------------------
(* The numbers of a key are merged on one node.                              *)

LEMMA FlatIsEmpty ==
  ASSUME NEW X, NEW n \in Nat, NEW f \in [1 .. n -> Seq(X)], FlattenSeq(f) = <<>>, NEW i \in 1 .. n
  PROVE  f[i] = <<>>
<1>1. f \in Seq(Seq(X)) /\ Len(f) = n
  BY FlatType
<1>2. ToSet(FlattenSeq(f)) = UNION {ToSet(f[j]) : j \in 1 .. n}
  BY <1>1, ElementsOfFlat
<1>3. ToSet(FlattenSeq(f)) = {}
  BY DEF ToSet
<1> DEFINE s == f[i]
<1>4. s \in Seq(X) /\ ToSet(s) = {}
  BY <1>2, <1>3
<1> HIDE DEF s
<1>5. ToSet(s) = {s[j] : j \in 1 .. Len(s)} /\ Len(s) \in Nat /\ (s = <<>> <=> Len(s) = 0)
  <2>1. ToSet(s) = {s[j] : j \in 1 .. Len(s)}
    <3>1. s \in Seq(X)
      BY <1>4
    <3>2. QED
      BY ONLY <3>1, Elements
  <2>2. Len(s) \in Nat /\ (s = <<>> <=> Len(s) = 0)
    BY <1>4, EmptyIs
  <2>3. QED
    BY <2>1, <2>2
<1>6. Len(s) # 0 => 1 \in 1 .. Len(s)
  BY <1>5
<1>7. s = <<>>
  BY <1>4, <1>5, <1>6
<1>8. QED
  BY <1>7 DEF s

LEMMA KeysOfWhole ==
  ASSUME NEW T \in [Node -> Seq(RowSet)]
  PROVE  KeysOf(Whole(T)) = UNION {KeysOf(T[m]) : m \in Node}
<1>1. N \in Nat /\ T \in [1 .. N -> Seq(RowSet)] /\ Whole(T) = FlattenSeq(T)
  BY WholeType
<1>2. KeysOf(FlattenSeq(T)) = UNION {KeysOf(T[m]) : m \in 1 .. N}
  BY <1>1, KeysOfFlat
<1>3. QED
  BY <1>1, <1>2 DEF Node

(* The keys of all nodes are the keys that are received, each on one node.  *)
Spread(C, A, plan) ==
  /\ UNION {KeysOf(C[d]) : d \in Node} = KeysOf(Whole(A))
  /\ \A d \in Node : \A k \in KeysOf(C[d]) : PlaceOf(k, plan) = d /\ k \in Keys
  /\ \A c, d \in Node : c # d => KeysOf(C[c]) \cap KeysOf(C[d]) = {}

LEMMA KeysAreSpread ==
  ASSUME NEW A \in Tables, NEW P \in [Node -> Tables], NEW plan,
         \A m \in Node : KeepsRows(P[m], A[m]), \A m \in Node : PlacedByPivots(P[m], plan),
         NEW C \in [Node -> Seq(RowSet)], \A d \in Node : SameCounts(C[d], Column(P, d))
  PROVE  Spread(C, A, plan)
<1>1. A \in [Node -> Seq(RowSet)] /\ N \in Nat /\ Node = 1 .. N
  BY Distributed DEF Tables, RowSet, Node
<1>2. ASSUME NEW d \in Node
      PROVE C[d] \in Seq(RowSet) /\ Column(P, d) \in Seq(RowSet) /\ KeysOf(C[d]) = KeysOf(Column(P, d))
  BY ColumnType, KeysAlike
<1>3. UNION {KeysOf(C[d]) : d \in Node} = KeysOf(Whole(A))
  <2> DEFINE g == [d \in Node |-> Column(P, d)]
  <2>1. g \in [Node -> Seq(RowSet)] /\ \A d \in Node : g[d] = Column(P, d)
    BY <1>2
  <2>2. SameCounts(FlattenSeq(g), Whole(A))
    BY ColumnsHaveAll
  <2> HIDE DEF g
  <2>3. Whole(g) = FlattenSeq(g) /\ Whole(g) \in Seq(RowSet) /\ Whole(A) \in Seq(RowSet)
    BY <1>1, <2>1, WholeType
  <2>4. KeysOf(Whole(g)) = KeysOf(Whole(A))
    BY <2>2, <2>3, KeysAlike
  <2>5. KeysOf(Whole(g)) = UNION {KeysOf(g[d]) : d \in Node}
    BY <2>1, KeysOfWhole
  <2>6. \A d \in Node : KeysOf(C[d]) = KeysOf(g[d])
    BY <1>2, <2>1
  <2>7. QED
    BY <2>4, <2>5, <2>6
<1>4. ASSUME NEW d \in Node, NEW k \in KeysOf(C[d]) PROVE PlaceOf(k, plan) = d /\ k \in Keys
  <2> DEFINE col == [m \in Node |-> P[m][d]]
  <2>1. k \in KeysOf(FlattenSeq(col)) /\ col \in [1 .. N -> Seq(RowSet)]
    BY <1>2, ColumnType DEF Column
  <2>2. \A m \in 1 .. N : col[m] = P[m][d]
    BY <1>1
  <2> HIDE DEF col
  <2>3. KeysOf(FlattenSeq(col)) = UNION {KeysOf(col[m]) : m \in 1 .. N}
    BY <1>1, <2>1, KeysOfFlat
  <2>4. PICK m \in 1 .. N : k \in KeysOf(col[m])
    BY <2>1, <2>3
  <2>5. m \in Node /\ k \in KeysOf(P[m][d])
    BY <1>1, <2>2, <2>4
  <2>6. Cardinality({i \in 1 .. N - 1 : plan[i] < k}) = d - 1
    BY <2>5 DEF PlacedByPivots
  <2> DEFINE z == Cardinality({i \in 1 .. N - 1 : plan[i] < k})
  <2>7. z = d - 1 /\ PlaceOf(k, plan) = z + 1 /\ d \in Int
    BY <1>1, <2>6 DEF PlaceOf
  <2> HIDE DEF z
  <2>8. k \in Keys
    BY <1>2, RowsHaveKeys
  <2>9. QED
    BY <2>7, <2>8
<1>5. QED
  BY <1>3, <1>4 DEF Spread

(* What a node makes of the numbers it received for one of its keys.        *)
KeyMerged(C, T, agg, k) ==
  /\ agg # "AVG" =>
       Reduce(Keyed(C, k), MergedWith(agg)) = Reduce(Keyed(Whole(T), k), agg)
  /\ agg = "AVG" =>
       IF Reduce(Keyed(C, k), agg) = Null THEN Reduce(Keyed(Whole(T), k), "AVG") = Null
       ELSE /\ Reduce(Keyed(Whole(T), k), "MIN") <= Reduce(Keyed(C, k), agg)
            /\ Reduce(Keyed(C, k), agg) <= Reduce(Keyed(Whole(T), k), "MAX")

LEMMA NumbersMerged ==
  ASSUME NEW w \in NumberLists(N), NEW p \in NumberLists(N), NEW agg \in Aggregation,
         \A i \in 1 .. N : Partial(p[i], w[i], agg),
         agg = "COUNT" => \E i \in 1 .. N : p[i] # <<>>,
         NEW s \in Seq(Int), SameCounts(s, FlattenSeq(p)),
         NEW t \in Seq(Int), SameCounts(t, FlattenSeq(w))
  PROVE  /\ agg # "AVG" => AggOf(s, MergedWith(agg)) = AggOf(t, agg)
         /\ agg = "AVG" =>
              IF AggOf(s, agg) = Null THEN AggOf(t, "AVG") = Null
              ELSE AggOf(t, "MIN") <= AggOf(s, agg) /\ AggOf(s, agg) <= AggOf(t, "MAX")
<1> DEFINE P == FlattenSeq(p)
           W == FlattenSeq(w)
<1>1. P \in Seq(Int) /\ W \in Seq(Int) /\ N \in Nat
  BY Distributed, FlatNumbers
<1>2. \A x : AggOf(s, x) = AggOf(P, x)
  BY <1>1, AggAlike
<1>3. \A x : AggOf(t, x) = AggOf(W, x)
  BY <1>1, AggAlike
<1>4. ASSUME agg # "AVG" PROVE AggOf(s, MergedWith(agg)) = AggOf(t, agg)
  <2>1. AggOf(P, MergedWith(agg)) = AggOf(W, agg)
    BY <1>1, <1>4, MergedAggregation
  <2>2. QED
    BY <1>2, <1>3, <2>1
<1>5. ASSUME agg = "AVG"
      PROVE IF AggOf(s, agg) = Null THEN AggOf(t, "AVG") = Null
            ELSE AggOf(t, "MIN") <= AggOf(s, agg) /\ AggOf(s, agg) <= AggOf(t, "MAX")
  <2>1. /\ P = <<>> <=> W = <<>>
        /\ P # <<>> => /\ AggOf(P, "AVG") \in Int
                       /\ AggOf(W, "MIN") <= AggOf(P, "AVG") /\ AggOf(P, "AVG") <= AggOf(W, "MAX")
    BY <1>1, <1>5, MergedAverage
  <2> HIDE DEF P, W
  <2>2. P = <<>> => AggOf(P, "AVG") = Null /\ AggOf(W, "AVG") = Null
    BY <2>1 DEF AggOf
  <2>3. QED
    BY <1>2, <1>3, <1>5, <2>1, <2>2, NullIsNoNumber
<1>6. QED
  BY <1>4, <1>5

LEMMA KeyIsMerged ==
  ASSUME NEW T \in Tables, NEW agg \in Aggregation, NEW P \in [Node -> Tables], NEW plan,
         \A m \in Node : PlacedByPivots(P[m], plan)
                         /\ KeepsRows(P[m], compute_aggregations(T[m], agg, TRUE)),
         NEW d \in Node, NEW k \in Keys, PlaceOf(k, plan) = d, \E m \in Node : k \in KeysOf(T[m]),
         NEW C \in Seq(RowSet), SameCounts(C, Column(P, d))
  PROVE  KeyMerged(C, T, agg, k)
<1> DEFINE w == NumbersOf(T, k)
           p == SentBy(T, agg, k)
           s == Values(Keyed(C, k))
           t == Values(Keyed(Whole(T), k))
<1>1. p \in NumberLists(N) /\ s \in Seq(Int) /\ SameCounts(s, FlattenSeq(p))
  BY NumbersReceived
<1>2. w \in NumberLists(N) /\ t \in Seq(Int) /\ SameCounts(t, FlattenSeq(w))
  BY NumbersOfWhole
<1>3. ASSUME NEW i \in 1 .. N
      PROVE Partial(p[i], w[i], agg) /\ (agg = "COUNT" /\ i \in Node /\ k \in KeysOf(T[i]) => p[i] # <<>>)
  <2> DEFINE u == T[i]
  <2>1. i \in Node /\ u \in Seq(RowSet) /\ p[i] = SentOf(u, agg, k) /\ w[i] = Values(Keyed(u, k))
    BY DEF SentBy, NumbersOf, Node, Tables, RowSet
  <2> HIDE DEF u, p, w
  <2>2. Partial(SentOf(u, agg, k), Values(Keyed(u, k)), agg)
        /\ (agg = "COUNT" /\ k \in KeysOf(u) => SentOf(u, agg, k) # <<>>)
    BY <2>1, SentIsPartial
  <2>3. QED
    BY <2>1, <2>2 DEF u
<1>4. agg = "COUNT" => \E i \in 1 .. N : p[i] # <<>>
  BY <1>3 DEF Node
<1> HIDE DEF w, p, s, t
<1>5. /\ agg # "AVG" => AggOf(s, MergedWith(agg)) = AggOf(t, agg)
      /\ agg = "AVG" =>
           IF AggOf(s, agg) = Null THEN AggOf(t, "AVG") = Null
           ELSE AggOf(t, "MIN") <= AggOf(s, agg) /\ AggOf(s, agg) <= AggOf(t, "MAX")
  BY <1>1, <1>2, <1>3, <1>4, NumbersMerged
<1>6. \A x : Reduce(Keyed(C, k), x) = AggOf(s, x) /\ Reduce(Keyed(Whole(T), k), x) = AggOf(t, x)
  BY ReduceIs DEF s, t
<1>7. QED
  BY <1>5, <1>6 DEF KeyMerged

-----------------------------------------------------------------------------
(* A group by on many nodes.                                                 *)

LEMMA PartitionKeeps ==
  ASSUME NEW a \in Seq(RowSet), pivots \in [1 .. N - 1 -> Keys]
  PROVE  /\ KeepsRows(partitionData(a, FALSE), a)
         /\ PlacedByPivots(partitionData(a, FALSE), pivots)
<1> DEFINE s == Sort(a, "ASC")
           P == partitionData(a, FALSE)
<1>1. s \in Seq(RowSet) /\ Sorted(s, "ASC")
  BY SortOrders DEF Sorts
<1>2. SameCounts(s, a)
  BY KeysOfSort
<1>3. s = IF FALSE THEN a ELSE Sort(a, "ASC")
  OBVIOUS
<1> HIDE DEF s
<1>4. PartsOf(P, s) /\ (Sorted(s, "ASC") => PlacedByPivots(P, pivots))
  BY <1>3, PartitionFacts
<1>5. QED
  BY <1>1, <1>2, <1>4 DEF KeepsRows

(* The parts that come to a node, one after the other.                      *)
LEMMA Flowed ==
  ASSUME NEW P \in [Node -> Tables], NEW d \in Node, NEW a \in Arrivals(d)
  PROVE  /\ FlattenSeq(Received(P, d, a)) \in Seq(RowSet)
         /\ SameCounts(FlattenSeq(Received(P, d, a)), Column(P, d))
<1>1. N \in Nat /\ Received(P, d, a) \in [1 .. N -> Seq(RowSet)]
  BY Distributed, ReceivedParts
<1>2. FlattenSeq(Received(P, d, a)) \in Seq(RowSet)
  BY <1>1, FlatType
<1>3. QED
  BY <1>2, ReceivedParts DEF Column

(* What one node computes of all rows is one row for each key of the parts. *)
LEMMA GroupsSpread ==
  ASSUME NEW A \in Tables, NEW P \in [Node -> Tables], NEW plan,
         \A m \in Node : KeepsRows(P[m], A[m]), \A m \in Node : PlacedByPivots(P[m], plan),
         NEW C \in [Node -> Seq(RowSet)], \A d \in Node : SameCounts(C[d], Column(P, d)),
         NEW v, NEW O \in [Node -> Seq(RowSet)], \A d \in Node : ByKey(O[d], KeysOf(C[d]), v),
         NEW g, ByKey(g, KeysOf(Whole(A)), v)
  PROVE  SameCounts(Whole(O), g)
<1> DEFINE Z == [d \in Node |-> KeysOf(C[d])]
           K == KeysOf(Whole(A))
<1>1. Spread(C, A, plan)
  BY KeysAreSpread
<1>2. /\ Z \in [Node -> SUBSET Keys]
      /\ \A d \in Node : ByKey(O[d], Z[d], v)
      /\ \A c, d \in Node : c # d => Z[c] \cap Z[d] = {}
      /\ K = UNION {Z[d] : d \in Node}
  BY <1>1 DEF Spread
<1> HIDE DEF Z, K
<1>3. ByKey(g, K, v)
  BY DEF K
<1>4. QED
  BY <1>2, <1>3, ByKeySpread

LEMMA KeysOfAggregated ==
  ASSUME NEW T \in Tables, NEW A \in Tables, \A m \in Node : KeysOf(A[m]) = KeysOf(T[m])
  PROVE  KeysOf(Whole(A)) = KeysOf(Whole(T))
<1>1. A \in [Node -> Seq(RowSet)] /\ T \in [Node -> Seq(RowSet)]
  BY DEF Tables, RowSet
<1>2. KeysOf(Whole(A)) = UNION {KeysOf(A[m]) : m \in Node}
  BY <1>1, KeysOfWhole
<1>3. KeysOf(Whole(T)) = UNION {KeysOf(T[m]) : m \in Node}
  BY <1>1, KeysOfWhole
<1>4. QED
  BY <1>2, <1>3

LEMMA MergedGroups ==
  ASSUME NEW T \in Tables, NEW P \in [Node -> Tables], pivots \in [1 .. N - 1 -> Keys],
         \A m \in Node : P[m] = partitionData(groupby_without_aggregations(T[m]), FALSE),
         NEW O, O \in [Node -> Seq(RowSet)],
         \A d \in Node : \E a \in Arrivals(d) :
           O[d] = groupByWithoutAggregationsMerger(Received(P, d, a))
  PROVE  SameCounts(Whole(O), groupby_without_aggregations(Whole(T)))
<1> DEFINE A == [m \in Node |-> groupby_without_aggregations(T[m])]
           come(d) == CHOOSE a \in Arrivals(d) : O[d] = groupByWithoutAggregationsMerger(Received(P, d, a))
           C == [d \in Node |-> FlattenSeq(Received(P, d, come(d)))]
           g == groupby_without_aggregations(Whole(T))
<1>1. ASSUME NEW d \in Node
      PROVE come(d) \in Arrivals(d) /\ O[d] = groupByWithoutAggregationsMerger(Received(P, d, come(d)))
  OBVIOUS
<1> HIDE DEF come
<1>2. ASSUME NEW d \in Node
      PROVE C[d] \in Seq(RowSet) /\ SameCounts(C[d], Column(P, d)) /\ O[d] = groupby_without_aggregations(C[d])
  BY <1>1, Flowed DEF groupByWithoutAggregationsMerger
<1>3. C \in [Node -> Seq(RowSet)]
  BY <1>2
<1>4. ASSUME NEW m \in Node
      PROVE /\ T[m] \in Seq(RowSet) /\ A[m] \in Seq(RowSet) /\ KeysOf(A[m]) = KeysOf(T[m])
            /\ KeepsRows(P[m], A[m]) /\ PlacedByPivots(P[m], pivots)
  <2>1. T[m] \in Seq(RowSet)
    BY DEF Tables, RowSet
  <2>2. A[m] \in Seq(RowSet) /\ KeysOf(A[m]) = KeysOf(T[m])
    BY <2>1, KeysOfGroups
  <2>3. P[m] = partitionData(A[m], FALSE)
    OBVIOUS
  <2> HIDE DEF A
  <2>4. QED
    BY <2>1, <2>2, <2>3, PartitionKeeps
<1>5. A \in Tables
  BY <1>4 DEF Tables, RowSet
<1>6. Whole(T) \in Seq(RowSet)
  BY WholeType DEF Tables, RowSet
<1> HIDE DEF C, A
<1>7. KeysOf(Whole(A)) = KeysOf(Whole(T))
  BY <1>4, <1>5, KeysOfAggregated
<1>8. ByKey(g, KeysOf(Whole(A)), NoValue)
  BY <1>6, <1>7, GroupsByKey
<1>9. \A d \in Node : ByKey(O[d], KeysOf(C[d]), NoValue)
  BY <1>2, GroupsByKey
<1> HIDE DEF g
<1>10. SameCounts(Whole(O), g)
  BY <1>2, <1>3, <1>4, <1>5, <1>8, <1>9, GroupsSpread
<1>11. QED
  BY <1>10 DEF g

-----------------------------------------------------------------------------
(* What the nodes aggregate, and what they merge.                            *)

LEMMA ByKeyWith ==
  ASSUME NEW g, NEW K, NEW u, ByKey(g, K, u), NEW v, \A k \in K : u[k] = v[k]
  PROVE  ByKey(g, K, v)
BY DEF ByKey

LEMMA EmptyByKey ==
  ASSUME NEW t \in Seq(RowSet), t = <<>>, NEW v
  PROVE  ByKey(t, KeysOf(t), v)
<1>1. Len(t) = 0 /\ DOMAIN t = 1 .. Len(t) /\ 1 .. 0 = {}
  BY RowsHaveKeys, EmptyIs
<1>2. KeysOf(t) = {}
  BY <1>1 DEF KeysOf
<1>3. QED
  BY <1>1, <1>2 DEF ByKey

(* A node aggregates the parts it has received, if there are rows in them.  *)
LEMMA AggregatedParts ==
  ASSUME NEW P \in [Node -> Tables], NEW d \in Node, NEW a \in Arrivals(d), NEW agg \in Aggregation,
         NEW C, C = FlattenSeq(Received(P, d, a))
  PROVE  ByKey(aggregationsMerger(Received(P, d, a), agg, TRUE), KeysOf(C), ReducedIn(C, MergedWith(agg)))
<1> DEFINE r == Received(P, d, a)
           v == ReducedIn(C, MergedWith(agg))
<1>1. C \in Seq(RowSet) /\ r \in [1 .. N -> Seq(RowSet)] /\ N \in Nat /\ 1 \in 1 .. N
  <2>1. C \in Seq(RowSet)
    BY Flowed
  <2>2. r \in [1 .. N -> Seq(RowSet)]
    BY ReceivedParts
  <2>3. QED
    BY <2>1, <2>2, Distributed
<1>2. aggregationsMerger(r, agg, TRUE)
        = IF C = <<>> THEN r[1] ELSE compute_aggregations(C, MergedWith(agg), TRUE)
  BY DEF aggregationsMerger
<1>3. MergedWith(agg) \in Aggregation
  BY DEF MergedWith, Aggregation
<1>4. CASE C = <<>>
  <2>1. FlattenSeq(r) = <<>>
    BY <1>4
  <2> HIDE DEF r
  <2>2. r[1] = <<>>
    BY <1>1, <2>1, FlatIsEmpty
  <2>3. ByKey(C, KeysOf(C), v)
    BY <1>1, <1>4, EmptyByKey
  <2>4. aggregationsMerger(r, agg, TRUE) = C
    BY <1>2, <1>4, <2>2
  <2>5. QED
    BY <2>3, <2>4 DEF r
<1>5. CASE C # <<>>
  <2>1. ByKey(compute_aggregations(C, MergedWith(agg), TRUE), KeysOf(C), v)
    BY <1>1, <1>3, AggregatesByKey
  <2>2. QED
    BY <1>2, <1>5, <2>1
<1>6. QED
  BY <1>4, <1>5

(* Each node has aggregated its parts: the keys are spread over the nodes,  *)
(* and what a node has for one of its keys was made of all its numbers.     *)
LEMMA AggregatesMerged ==
  ASSUME NEW T \in Tables, NEW P \in [Node -> Tables], pivots \in [1 .. N - 1 -> Keys],
         NEW agg \in Aggregation,
         \A m \in Node : P[m] = partitionData(compute_aggregations(T[m], agg, TRUE), FALSE),
         NEW C \in [Node -> Seq(RowSet)], \A d \in Node : SameCounts(C[d], Column(P, d)),
         NEW v, NEW O \in [Node -> Seq(RowSet)], \A d \in Node : ByKey(O[d], KeysOf(C[d]), v),
         NEW g, ByKey(g, KeysOf(Whole(T)), v)
  PROVE  SameCounts(Whole(O), g)
<1> DEFINE A == [m \in Node |-> compute_aggregations(T[m], agg, TRUE)]
<1>1. ASSUME NEW m \in Node
      PROVE /\ A[m] \in Seq(RowSet) /\ KeysOf(A[m]) = KeysOf(T[m])
            /\ KeepsRows(P[m], A[m]) /\ PlacedByPivots(P[m], pivots)
  <2>1. T[m] \in Seq(RowSet)
    BY DEF Tables, RowSet
  <2>2. A[m] \in Seq(RowSet) /\ KeysOf(A[m]) = KeysOf(T[m])
    BY <2>1, AggregatedRows
  <2>3. P[m] = partitionData(A[m], FALSE)
    OBVIOUS
  <2> HIDE DEF A
  <2>4. QED
    BY <2>2, <2>3, PartitionKeeps
<1>2. A \in Tables
  BY <1>1 DEF Tables, RowSet
<1> HIDE DEF A
<1>3. KeysOf(Whole(A)) = KeysOf(Whole(T))
  BY <1>1, <1>2, KeysOfAggregated
<1>4. ByKey(g, KeysOf(Whole(A)), v)
  BY <1>3
<1>5. QED
  BY <1>1, <1>2, <1>4, GroupsSpread

AllMerged(C, T, agg, d, plan) ==
  \A k \in KeysOf(C) : KeyMerged(C, T, agg, k) /\ PlaceOf(k, plan) = d /\ k \in Keys

LEMMA KeysMerged ==
  ASSUME NEW T \in Tables, NEW P \in [Node -> Tables], pivots \in [1 .. N - 1 -> Keys],
         NEW agg \in Aggregation,
         \A m \in Node : P[m] = partitionData(compute_aggregations(T[m], agg, TRUE), FALSE),
         NEW C \in [Node -> Seq(RowSet)], \A d \in Node : SameCounts(C[d], Column(P, d)),
         NEW d \in Node
  PROVE  AllMerged(C[d], T, agg, d, pivots)
<1>0. SUFFICES ASSUME NEW k \in KeysOf(C[d])
      PROVE KeyMerged(C[d], T, agg, k) /\ PlaceOf(k, pivots) = d /\ k \in Keys
  BY DEF AllMerged
<1> DEFINE A == [m \in Node |-> compute_aggregations(T[m], agg, TRUE)]
<1>1. ASSUME NEW m \in Node
      PROVE /\ A[m] \in Seq(RowSet) /\ KeysOf(A[m]) = KeysOf(T[m])
            /\ KeepsRows(P[m], A[m]) /\ PlacedByPivots(P[m], pivots)
  <2>1. T[m] \in Seq(RowSet)
    BY DEF Tables, RowSet
  <2>2. A[m] \in Seq(RowSet) /\ KeysOf(A[m]) = KeysOf(T[m])
    BY <2>1, AggregatedRows
  <2>3. P[m] = partitionData(A[m], FALSE)
    OBVIOUS
  <2> HIDE DEF A
  <2>4. QED
    BY <2>2, <2>3, PartitionKeeps
<1>2. A \in Tables /\ T \in [Node -> Seq(RowSet)]
  BY <1>1 DEF Tables, RowSet
<1>3. \A m \in Node : A[m] = compute_aggregations(T[m], agg, TRUE)
  OBVIOUS
<1> HIDE DEF A
<1>4. Spread(C, A, pivots)
  BY <1>1, <1>2, KeysAreSpread
<1>5. PlaceOf(k, pivots) = d /\ k \in Keys /\ k \in KeysOf(Whole(A))
  BY <1>4 DEF Spread
<1>6. KeysOf(Whole(A)) = KeysOf(Whole(T))
  BY <1>1, <1>2, KeysOfAggregated
<1>7. KeysOf(Whole(T)) = UNION {KeysOf(T[m]) : m \in Node}
  BY <1>2, KeysOfWhole
<1>8. \E m \in Node : k \in KeysOf(T[m])
  BY <1>5, <1>6, <1>7
<1> DEFINE c == C[d]
<1>9. c \in Seq(RowSet) /\ SameCounts(c, Column(P, d))
  OBVIOUS
<1>10. \A m \in Node : PlacedByPivots(P[m], pivots)
                         /\ KeepsRows(P[m], compute_aggregations(T[m], agg, TRUE))
  BY <1>1, <1>3
<1> HIDE DEF c
<1>11. KeyMerged(c, T, agg, k)
  BY <1>5, <1>8, <1>9, <1>10, KeyIsMerged
<1>12. QED
  BY <1>5, <1>6, <1>11 DEF c

-----------------------------------------------------------------------------
(* An aggregation with a group by, on many nodes.                            *)

LEMMA MergedAggregates ==
  ASSUME NEW T \in Tables, NEW P \in [Node -> Tables], pivots \in [1 .. N - 1 -> Keys],
         NEW agg \in Aggregation, agg # "AVG",
         \A m \in Node : P[m] = partitionData(compute_aggregations(T[m], agg, TRUE), FALSE),
         NEW O \in [Node -> Seq(RowSet)], NEW come,
         \A d \in Node : come[d] \in Arrivals(d)
                         /\ O[d] = aggregationsMerger(Received(P, d, come[d]), agg, TRUE)
  PROVE  SameCounts(Whole(O), compute_aggregations(Whole(T), agg, TRUE))
<1> DEFINE C == [d \in Node |-> FlattenSeq(Received(P, d, come[d]))]
           v == ReducedIn(Whole(T), agg)
           g == compute_aggregations(Whole(T), agg, TRUE)
<1>1. ASSUME NEW d \in Node PROVE C[d] \in Seq(RowSet) /\ SameCounts(C[d], Column(P, d))
  BY Flowed
<1>2. C \in [Node -> Seq(RowSet)]
  BY <1>1
<1>3. Whole(T) \in Seq(RowSet)
  BY WholeType DEF Tables, RowSet
<1>4. ByKey(g, KeysOf(Whole(T)), v)
  BY <1>3, AggregatesByKey
<1>5. ASSUME NEW d \in Node PROVE ByKey(O[d], KeysOf(C[d]), v)
  <2> DEFINE c == C[d]
             a == come[d]
             u == ReducedIn(c, MergedWith(agg))
  <2>1. a \in Arrivals(d) /\ c = FlattenSeq(Received(P, d, a))
        /\ O[d] = aggregationsMerger(Received(P, d, a), agg, TRUE)
    OBVIOUS
  <2>2. ASSUME NEW k \in KeysOf(c) PROVE u[k] = v[k]
    <3>1. KeyMerged(C[d], T, agg, k) /\ k \in Keys
      <4>1. k \in KeysOf(C[d])
        OBVIOUS
      <4> HIDE DEF C
      <4>2. AllMerged(C[d], T, agg, d, pivots)
        BY <1>1, <1>2, KeysMerged
      <4>3. QED
        BY <4>1, <4>2 DEF AllMerged
    <3>2. Reduce(Keyed(c, k), MergedWith(agg)) = Reduce(Keyed(Whole(T), k), agg)
      BY <3>1 DEF KeyMerged
    <3>3. QED
      BY <3>1, <3>2 DEF ReducedIn
  <2> HIDE DEF c, a, u, v
  <2>3. ByKey(aggregationsMerger(Received(P, d, a), agg, TRUE), KeysOf(c), ReducedIn(c, MergedWith(agg)))
    BY <2>1, AggregatedParts
  <2>4. ByKey(O[d], KeysOf(c), u)
    BY <2>1, <2>3 DEF u
  <2>5. ByKey(O[d], KeysOf(c), v)
    BY <2>2, <2>4, ByKeyWith
  <2>6. QED
    BY <2>5 DEF c
<1> HIDE DEF C, v, g
<1>6. SameCounts(Whole(O), g)
  BY <1>1, <1>2, <1>4, <1>5, AggregatesMerged
<1>7. QED
  BY <1>6 DEF g

InRange(v, t) ==
  IF v = Null THEN Reduce(t, "AVG") = Null ELSE Reduce(t, "MIN") <= v /\ v <= Reduce(t, "MAX")

Averaged(res, exact, t) ==
  /\ Len(res) = Len(exact)
  /\ \A i \in DOMAIN exact : \E j \in DOMAIN res :
       res[j].key = exact[i].key /\ InRange(res[j].value, Keyed(t, exact[i].key))

LEMMA WithValues ==
  ASSUME NEW g \in Seq(RowSet), NEW K \in SUBSET Keys, NEW u, ByKey(g, K, u), NEW v \in [Keys -> Value]
  PROVE  ByKey([i \in 1 .. Len(g) |-> Row(g[i].key, v[g[i].key])], K, v)
<1> DEFINE h == [i \in 1 .. Len(g) |-> Row(g[i].key, v[g[i].key])]
           n == Len(g)
           X == RowSet
<1>1. n \in Nat /\ \A i \in 1 .. n : g[i].key \in Keys /\ g[i].key \in K
  BY RowsHaveKeys DEF ByKey
<1>2. ASSUME NEW i \in 1 .. n PROVE h[i] \in X /\ h[i].key = g[i].key /\ h[i].value = v[g[i].key]
  <2>1. h[i] = Row(g[i].key, v[g[i].key])
    OBVIOUS
  <2>2. v[g[i].key] \in Int \cup {Null}
    BY <1>1 DEF Value
  <2> HIDE DEF h
  <2>3. QED
    BY <1>1, <2>1, <2>2 DEF Row, RowSet
<1>3. h = [i \in 1 .. n |-> h[i]]
  OBVIOUS
<1> HIDE DEF h, X, n
<1>4. h \in Seq(X) /\ Len(h) = n
  BY <1>1, <1>2, <1>3
<1>5. /\ \A i \in 1 .. n : h[i].key \in K /\ h[i].value = v[h[i].key]
      /\ \A i \in 1 .. n : h[i].key = g[i].key
  BY <1>1, <1>2
<1>6. /\ \A k \in K : \E i \in 1 .. n : g[i].key = k
      /\ \A i, j \in 1 .. n : g[i].key = g[j].key => i = j
  BY DEF ByKey, n
<1>7. ByKey(h, K, v)
  <2>1. /\ \A i \in 1 .. Len(h) : h[i].key \in K /\ h[i].value = v[h[i].key]
        /\ h \in Seq(RowSet)
    BY <1>4, <1>5 DEF X
  <2>2. \A k \in K : \E i \in 1 .. Len(h) : h[i].key = k
    <3>1. SUFFICES ASSUME NEW k \in K PROVE \E i \in 1 .. n : h[i].key = k
      BY <1>4
    <3>2. PICK i \in 1 .. n : g[i].key = k
      BY <1>6
    <3>3. QED
      BY <1>5, <3>2
  <2>3. \A i, j \in 1 .. Len(h) : h[i].key = h[j].key => i = j
    <3>1. SUFFICES ASSUME NEW i \in 1 .. n, NEW j \in 1 .. n, h[i].key = h[j].key PROVE i = j
      BY <1>4
    <3>2. g[i].key = g[j].key
      BY <1>5, <3>1
    <3>3. QED
      BY <1>6, <3>2
  <2>4. QED
    BY <2>1, <2>2, <2>3 DEF ByKey
<1>8. QED
  BY <1>7 DEF h, n

LEMMA MergedAverages ==
  ASSUME NEW T \in Tables, NEW P \in [Node -> Tables], pivots \in [1 .. N - 1 -> Keys],
         NEW agg, agg = "AVG",
         \A m \in Node : P[m] = partitionData(compute_aggregations(T[m], agg, TRUE), FALSE),
         NEW O \in [Node -> Seq(RowSet)], NEW come,
         \A d \in Node : come[d] \in Arrivals(d)
                         /\ O[d] = aggregationsMerger(Received(P, d, come[d]), agg, TRUE)
  PROVE  Averaged(Whole(O), compute_aggregations(Whole(T), agg, TRUE), Whole(T))
<1> DEFINE C == [d \in Node |-> FlattenSeq(Received(P, d, come[d]))]
           W == Whole(T)
           K == KeysOf(W)
           exact == compute_aggregations(W, agg, TRUE)
           home(k) == PlaceOf(k, pivots)
           v == [k \in Keys |-> IF home(k) \in Node THEN Reduce(Keyed(C[home(k)], k), agg) ELSE Null]
           g == [i \in 1 .. Len(exact) |-> Row(exact[i].key, v[exact[i].key])]
           res == Whole(O)
<1>1. ASSUME NEW d \in Node PROVE C[d] \in Seq(RowSet) /\ SameCounts(C[d], Column(P, d))
  BY Flowed
<1>2. C \in [Node -> Seq(RowSet)] /\ agg \in Aggregation /\ MergedWith(agg) = agg
  BY <1>1 DEF Aggregation, MergedWith
<1>3. W \in Seq(RowSet) /\ res \in Seq(RowSet)
  BY WholeType DEF Tables, RowSet
<1>4. exact \in Seq(RowSet) /\ ByKey(exact, K, ReducedIn(W, agg)) /\ K \in SUBSET Keys
  BY <1>2, <1>3, AggregatesByKey, AggregatedRows, RowsHaveKeys
<1>5. ASSUME NEW d \in Node, NEW k \in KeysOf(C[d])
      PROVE KeyMerged(C[d], T, agg, k) /\ home(k) = d /\ k \in Keys
  <2> HIDE DEF C
  <2>a. AllMerged(C[d], T, agg, d, pivots)
    BY <1>1, <1>2, KeysMerged
  <2>1. KeyMerged(C[d], T, agg, k) /\ PlaceOf(k, pivots) = d /\ k \in Keys
    BY <2>a DEF AllMerged
  <2>2. QED
    BY <2>1
<1> HIDE DEF W, K, exact, res
<1>6. ASSUME NEW k \in Keys PROVE v[k] \in Value
  <2>1. CASE home(k) \in Node
    <3> DEFINE s == C[home(k)]
    <3>1. s \in Seq(RowSet)
      BY <1>1, <2>1
    <3> HIDE DEF s
    <3>2. Keyed(s, k) \in Seq(RowSet)
      BY <3>1, KeyedCount
    <3>3. Reduce(Keyed(s, k), agg) \in Int \cup {Null}
      BY <1>2, <3>2, ReduceType
    <3>4. QED
      BY <2>1, <3>3 DEF s, Value
  <2>2. CASE home(k) \notin Node
    BY <2>2 DEF Value
  <2>3. QED
    BY <2>1, <2>2
<1>7. v \in [Keys -> Value]
  BY <1>6
<1>8. ASSUME NEW d \in Node, NEW k \in KeysOf(C[d]) PROVE v[k] = Reduce(Keyed(C[d], k), agg)
  BY <1>5
<1> HIDE DEF C, v, home
<1>9. ASSUME NEW d \in Node PROVE ByKey(O[d], KeysOf(C[d]), v)
  <2> DEFINE c == C[d]
             a == come[d]
             u == ReducedIn(c, MergedWith(agg))
  <2>1. a \in Arrivals(d) /\ c = FlattenSeq(Received(P, d, a))
        /\ O[d] = aggregationsMerger(Received(P, d, a), agg, TRUE)
    BY DEF C
  <2>2. ASSUME NEW k \in KeysOf(c) PROVE u[k] = v[k]
    BY <1>2, <1>5, <1>8 DEF ReducedIn
  <2> HIDE DEF c, a, u
  <2>3. ByKey(aggregationsMerger(Received(P, d, a), agg, TRUE), KeysOf(c), ReducedIn(c, MergedWith(agg)))
    BY <1>2, <2>1, AggregatedParts
  <2>4. ByKey(O[d], KeysOf(c), u)
    BY <2>1, <2>3 DEF u
  <2>5. ByKey(O[d], KeysOf(c), v)
    BY <2>2, <2>4, ByKeyWith
  <2>6. QED
    BY <2>5 DEF c
<1>10. ByKey(g, K, v)
  BY <1>4, <1>7, WithValues
<1>11. g \in Seq(RowSet)
  BY <1>10 DEF ByKey
<1>12. DOMAIN exact = 1 .. Len(exact) /\ Len(exact) \in Nat /\ DOMAIN res = 1 .. Len(res)
  BY <1>3, <1>4, RowsHaveKeys
<1>13. Len(g) = Len(exact) /\ \A i \in 1 .. Len(exact) : g[i] = Row(exact[i].key, v[exact[i].key])
  BY <1>12
<1> HIDE DEF g
<1>14. SameCounts(Whole(O), g)
  BY <1>1, <1>2, <1>9, <1>10, AggregatesMerged DEF K, W
<1>15. ToSet(res) = ToSet(g) /\ Len(res) = Len(g)
  BY <1>3, <1>11, <1>14, AlikeElements DEF res
<1>16. ToSet(res) = {res[j] : j \in 1 .. Len(res)} /\ ToSet(g) = {g[i] : i \in 1 .. Len(g)}
  BY <1>3, <1>11, Elements
<1>17. ASSUME NEW i \in DOMAIN exact
       PROVE \E j \in DOMAIN res : res[j].key = exact[i].key /\ InRange(res[j].value, Keyed(W, exact[i].key))
  <2> DEFINE k == exact[i].key
  <2>1. i \in 1 .. Len(exact)
    BY <1>12
  <2>2. k \in K
    BY <1>4, <2>1 DEF ByKey
  <2>3. PICK j \in 1 .. Len(res) : res[j] = g[i]
    BY <1>13, <1>15, <1>16, <2>1
  <2>4. res[j].key = k /\ res[j].value = v[k]
    <3>1. res[j] = Row(k, v[k])
      BY <1>13, <2>1, <2>3
    <3> HIDE DEF k
    <3>2. QED
      BY <3>1 DEF Row
  <2> HIDE DEF k
  <2>5. PICK d \in Node : k \in KeysOf(C[d])
    <3>1. PICK q \in 1 .. Len(res) : res[q].key = k
      BY <2>3, <2>4
    <3>2. k \in KeysOf(res)
      BY <1>12, <3>1 DEF KeysOf
    <3>3. PICK d \in Node : k \in KeysOf(O[d])
      BY <3>2, KeysOfWhole DEF res
    <3>4. O[d] \in Seq(RowSet)
      OBVIOUS
    <3>5. k \in KeysOf(C[d])
      <4>1. PICK p \in DOMAIN O[d] : k = O[d][p].key
        BY <3>3 DEF KeysOf
      <4>2. p \in 1 .. Len(O[d])
        BY <3>4, <4>1, RowsHaveKeys
      <4>3. \A x \in 1 .. Len(O[d]) : O[d][x].key \in KeysOf(C[d])
        BY <1>9 DEF ByKey
      <4>4. QED
        BY <4>1, <4>2, <4>3
    <3>6. QED
      BY <3>5
  <2>6. KeyMerged(C[d], T, agg, k) /\ v[k] = Reduce(Keyed(C[d], k), agg)
    BY <1>5, <1>8, <2>5
  <2>7. InRange(v[k], Keyed(W, k))
    BY <2>6 DEF KeyMerged, InRange, W
  <2>8. QED
    BY <1>12, <2>3, <2>4, <2>7 DEF k
<1>18. Averaged(res, exact, W)
  BY <1>13, <1>15, <1>17 DEF Averaged
<1>19. QED
  BY <1>18 DEF res, exact, W

-----------------------------------------------------------------------------
(* What the nodes send of an aggregation without a group by.                 *)

TotalSent(t, agg) == IF Reduce(t, agg) # Null THEN <<Reduce(t, agg)>> ELSE <<>>
TotalRow(t, agg) == Row(NullKey, Reduce(t, agg))

TotalFacts(t, agg) ==
  /\ TotalRow(t, agg) \in RowSet
  /\ Partial(TotalSent(t, agg), Values(t), agg)
  /\ TotalSent(t, agg) \in Seq(Int)
  /\ agg = "COUNT" => TotalSent(t, agg) # <<>>
  /\ \A V : CountIn(TotalSent(t, agg), V) = CountIn(<<TotalRow(t, agg)>>, Holding(V))

LEMMA TotalsSent ==
  ASSUME NEW t \in Seq(RowSet), NEW agg \in Aggregation
  PROVE  TotalFacts(t, agg)
<1> DEFINE w == Values(t)
           x == Reduce(t, agg)
           r == TotalRow(t, agg)
           p == TotalSent(t, agg)
<1>1. w \in Seq(Int)
  BY ValuesCount
<1>2. x = AggOf(w, agg) /\ x \in Int \cup {Null}
  BY ReduceIs, ReduceType
<1> HIDE DEF w
<1>3. AggOf(w, agg) = Null <=> agg # "COUNT" /\ w = <<>>
  BY <1>1, AggType
<1>4. p = IF x # Null THEN <<x>> ELSE <<>>
  BY DEF TotalSent
<1>5. r \in RowSet /\ r.key = NullKey /\ r.value = x
  BY <1>2, NullKeyIsLargest DEF TotalRow, Row, RowSet
<1> HIDE DEF x, r, p
<1>6. Partial(p, w, agg)
  BY <1>2, <1>3, <1>4 DEF Partial
<1>7. p \in Seq(Int)
  BY <1>1, <1>6, PartialFacts
<1>8. agg = "COUNT" => p # <<>>
  <2>1. SUFFICES ASSUME agg = "COUNT" PROVE p # <<>>
    OBVIOUS
  <2>2. x # Null
    BY <1>2, <1>3, <2>1
  <2>3. QED
    BY <1>4, <2>2
<1>9. ASSUME NEW V PROVE CountIn(p, V) = CountIn(<<r>>, Holding(V))
  <2>1. CountIn(<<r>>, Holding(V)) = IF r \in Holding(V) THEN 1 ELSE 0
    BY <1>5, CountOne
  <2>2. r \in Holding(V) <=> x # Null /\ x \in V
    BY <1>5 DEF Holding
  <2>3. CASE x # Null
    <3>1. x \in Int /\ p = <<x>>
      BY <1>2, <1>4, <2>3
    <3>2. CountIn(<<x>>, V) = IF x \in V THEN 1 ELSE 0
      BY <3>1, CountOne
    <3>3. QED
      BY <2>1, <2>2, <2>3, <3>1, <3>2
  <2>4. CASE x = Null
    BY <1>4, <2>1, <2>2, <2>4, CountNothing
  <2>5. QED
    BY <2>3, <2>4
<1>10. QED
  BY <1>5, <1>6, <1>7, <1>8, <1>9 DEF w, r, p, TotalFacts

TotalKept(res, t, agg) ==
  /\ agg # "AVG" => SameCounts(res, <<Row(NullKey, Reduce(t, agg))>>)
  /\ agg = "AVG" =>
       \E v \in Value : SameCounts(res, <<Row(NullKey, v)>>) /\ InRange(v, t)

(* The master has one row of each node, in any order.                       *)
LEMMA TotalReceived ==
  ASSUME NEW T \in Tables, NEW agg \in Aggregation, NEW C \in Seq(RowSet),
         SameCounts(C, FlattenSeq([m \in Node |-> <<TotalRow(T[m], agg)>>]))
  PROVE  /\ C # <<>>
         /\ agg # "AVG" => Reduce(C, MergedWith(agg)) = Reduce(Whole(T), agg)
         /\ agg = "AVG" => InRange(Reduce(C, agg), Whole(T))
<1> DEFINE X == RowSet
           f == [m \in Node |-> <<TotalRow(T[m], agg)>>]
           p == [m \in Node |-> TotalSent(T[m], agg)]
           w == [m \in Node |-> Values(T[m])]
           W == Whole(T)
           s == Values(C)
           t == Values(W)
<1>1. N \in Nat /\ Node = 1 .. N /\ 1 \in 1 .. N /\ T \in [1 .. N -> Seq(X)]
      /\ W \in Seq(X) /\ W = FlattenSeq(T)
  <2>1. T \in [Node -> Seq(X)]
    BY DEF Tables, RowSet
  <2> HIDE DEF X
  <2>2. W = FlattenSeq(T) /\ W \in Seq(X) /\ T \in [1 .. N -> Seq(X)] /\ N \in Nat
    BY <2>1, WholeType
  <2>3. QED
    BY <2>2, Distributed DEF Node
<1>2. ASSUME NEW m \in 1 .. N
      PROVE TotalFacts(T[m], agg) /\ w[m] \in Seq(Int)
            /\ \A V : CountIn(w[m], V) = CountIn(T[m], Holding(V))
  <2> DEFINE u == T[m]
  <2>1. u \in Seq(RowSet) /\ w[m] = Values(u)
    BY <1>1
  <2> HIDE DEF u, w
  <2>2. TotalFacts(u, agg)
    BY <2>1, TotalsSent
  <2>3. Values(u) \in Seq(Int) /\ \A V : CountIn(Values(u), V) = CountIn(u, Holding(V))
    BY <2>1, ValuesCount
  <2>4. QED
    BY <2>1, <2>2, <2>3 DEF u
<1>3. ASSUME NEW m \in 1 .. N
      PROVE /\ p[m] \in Seq(Int) /\ Partial(p[m], w[m], agg) /\ (agg = "COUNT" => p[m] # <<>>)
            /\ f[m] \in Seq(X) /\ f[m] # <<>>
            /\ \A V : CountIn(p[m], V) = CountIn(f[m], Holding(V))
  <2> DEFINE r == TotalRow(T[m], agg)
  <2>1. p[m] = TotalSent(T[m], agg) /\ w[m] = Values(T[m]) /\ f[m] = <<r>>
    BY <1>1
  <2>2. r \in X
    BY <1>2 DEF TotalFacts
  <2> HIDE DEF X, p, w, f
  <2>3. f[m] \in Seq(X) /\ f[m] # <<>>
    <3> HIDE DEF r
    <3>1. QED
      BY <2>1, <2>2
  <2>4. QED
    BY <1>2, <2>1, <2>3 DEF TotalFacts
<1>4. f \in [1 .. N -> Seq(X)] /\ p \in [1 .. N -> Seq(Int)] /\ w \in [1 .. N -> Seq(Int)]
  BY <1>1, <1>2, <1>3
<1>5. s \in Seq(Int) /\ \A V : CountIn(s, V) = CountIn(C, Holding(V))
  BY ValuesCount
<1>6. t \in Seq(Int) /\ \A V : CountIn(t, V) = CountIn(W, Holding(V))
  BY <1>1, ValuesCount
<1>7. SameCounts(C, FlattenSeq(f))
  OBVIOUS
<1> HIDE DEF f, p, w, W, s, t, X
<1>8. C # <<>>
  <2>1. FlattenSeq(f) \in Seq(X)
    BY <1>1, <1>4, FlatType
  <2>2. Len(C) = Len(FlattenSeq(f))
    BY <1>7, <2>1, AlikeElements DEF X
  <2>3. FlattenSeq(f) # <<>>
    <3>1. SUFFICES ASSUME FlattenSeq(f) = <<>> PROVE FALSE
      OBVIOUS
    <3>2. f[1] = <<>>
      BY <1>1, <1>4, <3>1, FlatIsEmpty
    <3>3. QED
      BY <1>1, <1>3, <3>2
  <2>4. QED
    BY <2>1, <2>2, <2>3, EmptyIs
<1>9. SameCounts(s, FlattenSeq(p))
  <2>1. SUFFICES ASSUME NEW V PROVE CountIn(s, V) = CountIn(FlattenSeq(p), V)
    BY DEF SameCounts
  <2> DEFINE R == Holding(V)
  <2>2. \A m \in 1 .. N : CountIn(p[m], V) = CountIn(f[m], R)
    BY <1>3
  <2>3. CountIn(s, V) = CountIn(C, R)
    BY <1>5
  <2> HIDE DEF R
  <2>4. CountIn(FlattenSeq(f), R) = SumOf([m \in 1 .. N |-> CountIn(f[m], R)])
    BY <1>1, <1>4, CountOfFlat
  <2>5. CountIn(FlattenSeq(p), V) = SumOf([m \in 1 .. N |-> CountIn(p[m], V)])
    BY <1>1, <1>4, CountOfFlat
  <2>6. [m \in 1 .. N |-> CountIn(p[m], V)] = [m \in 1 .. N |-> CountIn(f[m], R)]
    BY <2>2
  <2>7. CountIn(C, R) = CountIn(FlattenSeq(f), R)
    BY <1>7 DEF SameCounts
  <2>8. QED
    BY <2>3, <2>4, <2>5, <2>6, <2>7
<1>10. SameCounts(t, FlattenSeq(w))
  <2>1. SUFFICES ASSUME NEW V PROVE CountIn(t, V) = CountIn(FlattenSeq(w), V)
    BY DEF SameCounts
  <2> DEFINE R == Holding(V)
  <2>2. \A m \in 1 .. N : CountIn(w[m], V) = CountIn(T[m], R)
    BY <1>2
  <2>3. CountIn(t, V) = CountIn(FlattenSeq(T), R)
    BY <1>1, <1>6
  <2> HIDE DEF R
  <2>4. CountIn(FlattenSeq(T), R) = SumOf([m \in 1 .. N |-> CountIn(T[m], R)])
    BY <1>1, CountOfFlat
  <2>5. CountIn(FlattenSeq(w), V) = SumOf([m \in 1 .. N |-> CountIn(w[m], V)])
    BY <1>1, <1>4, CountOfFlat
  <2>6. [m \in 1 .. N |-> CountIn(w[m], V)] = [m \in 1 .. N |-> CountIn(T[m], R)]
    BY <2>2
  <2>7. QED
    BY <2>3, <2>4, <2>5, <2>6
<1>11. w \in NumberLists(N) /\ p \in NumberLists(N)
  BY <1>4 DEF NumberLists
<1>12. /\ \A i \in 1 .. N : Partial(p[i], w[i], agg)
       /\ agg = "COUNT" => \E i \in 1 .. N : p[i] # <<>>
  BY <1>1, <1>3
<1>13. /\ agg # "AVG" => AggOf(s, MergedWith(agg)) = AggOf(t, agg)
       /\ agg = "AVG" =>
            IF AggOf(s, agg) = Null THEN AggOf(t, "AVG") = Null
            ELSE AggOf(t, "MIN") <= AggOf(s, agg) /\ AggOf(s, agg) <= AggOf(t, "MAX")
  BY <1>5, <1>6, <1>9, <1>10, <1>11, <1>12, NumbersMerged
<1>14. \A x : Reduce(C, x) = AggOf(s, x) /\ Reduce(W, x) = AggOf(t, x)
  BY ReduceIs DEF s, t
<1>15. QED
  BY <1>8, <1>13, <1>14 DEF InRange, W

-----------------------------------------------------------------------------
(* An aggregation without a group by: the master has it all.                 *)

LEMMA MasterHasAll ==
  ASSUME NEW O \in [Node -> Seq(RowSet)], \A d \in Node : d # Master => O[d] = <<>>
  PROVE  SameCounts(Whole(O), O[Master])
<1> DEFINE X == RowSet
<1>1. N \in Nat /\ O \in [1 .. N -> Seq(X)] /\ Whole(O) = FlattenSeq(O) /\ Master \in 1 .. N
  BY WholeType, MasterIsNode DEF Node
<1>2. SUFFICES ASSUME NEW P PROVE CountIn(FlattenSeq(O), P) = CountIn(O[Master], P)
  BY <1>1 DEF SameCounts
<1>3. OnlyAt(O, N, P, Master)
  BY CountNothing DEF OnlyAt, Node
<1> HIDE DEF X
<1>4. QED
  BY <1>1, <1>3, CountOfOnly

LEMMA MergedTotal ==
  ASSUME NEW T \in Tables, NEW P \in [Node -> Tables], NEW agg \in Aggregation,
         \A m \in Node : P[m] = ToMaster(compute_aggregations(T[m], agg, FALSE)),
         NEW O \in [Node -> Seq(RowSet)], NEW come,
         \A d \in Node : come[d] \in Arrivals(d)
                         /\ O[d] = IF d = Master THEN aggregationsMerger(Received(P, d, come[d]), agg, FALSE)
                                   ELSE <<>>
  PROVE  TotalKept(Whole(O), Whole(T), agg)
<1> DEFINE c == come[Master]
           C == FlattenSeq(Received(P, Master, c))
           x == Reduce(C, MergedWith(agg))
           o == O[Master]
           f == [m \in Node |-> <<TotalRow(T[m], agg)>>]
<1>1. Master \in Node /\ c \in Arrivals(Master)
  BY MasterIsNode
<1>2. o = aggregationsMerger(Received(P, Master, c), agg, FALSE)
  BY <1>1
<1> HIDE DEF c, o
<1>3. C \in Seq(RowSet) /\ SameCounts(C, Column(P, Master))
  BY <1>1, Flowed
<1>4. Column(P, Master) = FlattenSeq(f)
  <2>1. ASSUME NEW m \in Node PROVE P[m][Master] = <<TotalRow(T[m], agg)>>
    BY <1>1 DEF ToMaster, compute_aggregations, aggregations_without_groupby, TotalRow
  <2>2. QED
    BY <2>1 DEF Column
<1>5. o = IF C = <<>> THEN Received(P, Master, c)[1] ELSE <<Row(NullKey, x)>>
  BY <1>2 DEF aggregationsMerger, compute_aggregations, aggregations_without_groupby
<1>6. SameCounts(Whole(O), o)
  BY MasterHasAll DEF o
<1> HIDE DEF C
<1>7. /\ C # <<>>
      /\ agg # "AVG" => x = Reduce(Whole(T), agg)
      /\ agg = "AVG" => InRange(Reduce(C, agg), Whole(T))
  BY <1>3, <1>4, TotalReceived
<1>8. agg = "AVG" => MergedWith(agg) = agg
  BY DEF MergedWith
<1>9. MergedWith(agg) \in Aggregation
  BY DEF MergedWith, Aggregation
<1>10. x \in Value
  BY <1>3, <1>9, ReduceType DEF Value
<1> HIDE DEF x
<1>11. SameCounts(Whole(O), <<Row(NullKey, x)>>)
  BY <1>5, <1>6, <1>7
<1>12. agg = "AVG" => InRange(x, Whole(T))
  BY <1>7, <1>8 DEF x
<1>13. QED
  BY <1>7, <1>10, <1>11, <1>12 DEF TotalKept

-----------------------------------------------------------------------------
(* The pairs of a join, in order.                                            *)

JoinOrder(S) == {e \in S \X S : JoinBefore(e[1], e[2])}

LEMMA PairsAreOrdered ==
  ASSUME NEW S \in SUBSET (Nat \X Nat)
  PROVE  Orders(JoinOrder(S), S)
<1> DEFINE R == JoinOrder(S)
<1>1. \A p, q \in S : <<p, q>> \in R <=> JoinBefore(p, q)
  BY DEF JoinOrder
<1>2. \A p \in S : p = <<p[1], p[2]>> /\ p[1] \in Nat /\ p[2] \in Nat
  OBVIOUS
<1> HIDE DEF R
<1>3. \A p \in S : <<p, p>> \notin R
  BY <1>1, <1>2 DEF JoinBefore
<1>4. ASSUME NEW p \in S, NEW q \in S, p # q PROVE <<p, q>> \in R \/ <<q, p>> \in R
  <2> DEFINE a == p[1]
             b == p[2]
             c == q[1]
             d == q[2]
  <2>1. a \in Nat /\ b \in Nat /\ c \in Nat /\ d \in Nat /\ (a # c \/ b # d)
    BY <1>2, <1>4
  <2>2. <<p, q>> \in R <=> \/ a # c /\ (c = 0 \/ (a # 0 /\ a < c))
                           \/ a = c /\ b < d
    BY <1>1 DEF JoinBefore, NoRow
  <2>3. <<q, p>> \in R <=> \/ c # a /\ (a = 0 \/ (c # 0 /\ c < a))
                           \/ c = a /\ d < b
    BY <1>1 DEF JoinBefore, NoRow
  <2> HIDE DEF a, b, c, d
  <2>4. QED
    BY <2>1, <2>2, <2>3
<1>5. ASSUME NEW p \in S, NEW q \in S, NEW r \in S, <<p, q>> \in R, <<q, r>> \in R
      PROVE <<p, r>> \in R
  <2> DEFINE a == p[1]
             b == p[2]
             c == q[1]
             d == q[2]
             e == r[1]
             f == r[2]
  <2>1. a \in Nat /\ b \in Nat /\ c \in Nat /\ d \in Nat /\ e \in Nat /\ f \in Nat
    BY <1>2
  <2>2. \/ a # c /\ (c = 0 \/ (a # 0 /\ a < c))
        \/ a = c /\ b < d
    BY <1>1, <1>5 DEF JoinBefore, NoRow
  <2>3. \/ c # e /\ (e = 0 \/ (c # 0 /\ c < e))
        \/ c = e /\ d < f
    BY <1>1, <1>5 DEF JoinBefore, NoRow
  <2>4. <<p, r>> \in R <=> \/ a # e /\ (e = 0 \/ (a # 0 /\ a < e))
                           \/ a = e /\ b < f
    BY <1>1 DEF JoinBefore, NoRow
  <2> HIDE DEF a, b, c, d, e, f
  <2>5. QED
    BY <2>1, <2>2, <2>3, <2>4
<1>6. Orders(R, S)
  BY <1>3, <1>4, <1>5 DEF Orders
<1>7. QED
  BY <1>6 DEF R

LEMMA PairsListed ==
  ASSUME NEW S \in SUBSET (Nat \X Nat), IsFiniteSet(S)
  PROVE  Cardinality(S) \in Nat /\ Enumerates(InOrder(S, JoinBefore), Cardinality(S), S)
<1> DEFINE R == JoinOrder(S)
<1>1. \A x \in S : {y \in S : JoinBefore(y, x)} = {y \in S : <<y, x>> \in R}
  BY DEF JoinOrder
<1>2. InOrder(S, JoinBefore)
        = [i \in 1 .. Cardinality(S) |-> CHOOSE x \in S : Cardinality({y \in S : JoinBefore(y, x)}) = i - 1]
  BY DEF InOrder
<1> HIDE DEF R
<1>3. InOrder(S, JoinBefore) = Ordered(S, R)
  BY <1>1, <1>2 DEF Ordered
<1>4. Orders(R, S)
  BY PairsAreOrdered DEF R
<1>5. QED
  BY <1>3, <1>4, OrderedLists

Spots(L, R) == (0 .. Len(L)) \X (0 .. Len(R))

LEMMA JoinSpots ==
  ASSUME NEW L \in Seq(RowSet), NEW R \in Seq(RowSet), NEW type
  PROVE  /\ JoinIndices(L, R, type) \in SUBSET Spots(L, R)
         /\ JoinIndices(L, R, type) \in SUBSET (Nat \X Nat)
         /\ IsFiniteSet(JoinIndices(L, R, type))
<1>1. DOMAIN L = 1 .. Len(L) /\ Len(L) \in Nat /\ DOMAIN R = 1 .. Len(R) /\ Len(R) \in Nat
  BY RowsHaveKeys
<1>2. JoinIndices(L, R, type) \in SUBSET Spots(L, R)
  BY <1>1 DEF JoinIndices, Matches, Spots, NoRow
<1>3. IsFiniteSet(0 .. Len(L)) /\ IsFiniteSet(0 .. Len(R))
  BY <1>1, FS_Interval
<1>4. IsFiniteSet(Spots(L, R))
  BY <1>3, FS_Product DEF Spots
<1>5. IsFiniteSet(JoinIndices(L, R, type))
  BY <1>2, <1>4, FS_Subset
<1>6. Spots(L, R) \in SUBSET (Nat \X Nat)
  BY <1>1 DEF Spots
<1>7. QED
  BY <1>2, <1>5, <1>6

(* The rows of a pair of indices.                                           *)
LeftOf(L, p) == IF p[1] = NoRow THEN NullRow ELSE L[p[1]]
RightOf(R, p) == IF p[2] = NoRow THEN NullRow ELSE R[p[2]]
JoinedRow == [key : RowSet, value : RowSet]

LEMMA RowsOfSpots ==
  ASSUME NEW L \in Seq(RowSet), NEW R \in Seq(RowSet), NEW p \in Spots(L, R)
  PROVE  /\ LeftOf(L, p) \in RowSet /\ RightOf(R, p) \in RowSet
         /\ Row(LeftOf(L, p), RightOf(R, p)) \in JoinedRow
<1>1. Len(L) \in Nat /\ Len(R) \in Nat
  BY RowsHaveKeys
<1>2. p[1] \in 0 .. Len(L) /\ p[2] \in 0 .. Len(R)
  BY DEF Spots
<1>3. (p[1] # 0 => p[1] \in 1 .. Len(L)) /\ (p[2] # 0 => p[2] \in 1 .. Len(R))
  BY <1>1, <1>2
<1>4. NullRow \in RowSet
  BY NullKeyIsLargest DEF NullRow, Row, RowSet
<1>5. (\A i \in 1 .. Len(L) : L[i] \in RowSet) /\ (\A i \in 1 .. Len(R) : R[i] \in RowSet)
  BY RowsHaveKeys
<1>6. LeftOf(L, p) \in RowSet /\ RightOf(R, p) \in RowSet
  BY <1>3, <1>4, <1>5 DEF LeftOf, RightOf, NoRow
<1>7. QED
  BY <1>6 DEF Row, JoinedRow

(* A join is one row for each of its pairs of indices.                      *)
Lists(J, L, R, S, o) ==
  /\ J \in Seq(JoinedRow) /\ Enumerates(o, Len(J), S)
  /\ \A i \in 1 .. Len(J) : J[i] = Row(LeftOf(L, o[i]), RightOf(R, o[i]))

LEMMA JoinLists ==
  ASSUME NEW L \in Seq(RowSet), NEW R \in Seq(RowSet), NEW type, L # <<>>, R # <<>>
  PROVE  \E o : Lists(Join(L, R, type), L, R, JoinIndices(L, R, type), o)
<1> DEFINE S == JoinIndices(L, R, type)
           o == InOrder(S, JoinBefore)
           n == Cardinality(S)
           J == Join(L, R, type)
           X == JoinedRow
<1>1. S \in SUBSET Spots(L, R) /\ S \in SUBSET (Nat \X Nat) /\ IsFiniteSet(S)
  BY JoinSpots
<1>2. n \in Nat /\ Enumerates(o, n, S)
  <2> HIDE DEF S
  <2>1. QED
    BY <1>1, PairsListed
<1>3. evaluate_join(L, R, type) = o
  BY DEF evaluate_join
<1> HIDE DEF S, o, n
<1>4. o \in [1 .. n -> S] /\ DOMAIN o = 1 .. n
  BY <1>2 DEF Enumerates
<1>5. J = [i \in 1 .. n |-> Row(LeftOf(L, o[i]), RightOf(R, o[i]))]
  BY <1>3, <1>4 DEF Join, Materialize, LeftOf, RightOf
<1>6. ASSUME NEW i \in 1 .. n PROVE J[i] = Row(LeftOf(L, o[i]), RightOf(R, o[i])) /\ J[i] \in X
  <2> DEFINE p == o[i]
  <2>1. p \in Spots(L, R) /\ J[i] = Row(LeftOf(L, p), RightOf(R, p))
    BY <1>1, <1>4, <1>5
  <2> HIDE DEF p
  <2>2. Row(LeftOf(L, p), RightOf(R, p)) \in JoinedRow
    BY <2>1, RowsOfSpots
  <2>3. QED
    BY <2>1, <2>2 DEF p
<1>7. J = [i \in 1 .. n |-> J[i]]
  BY <1>5
<1> HIDE DEF J, X
<1>8. J \in Seq(X) /\ Len(J) = n
  BY <1>2, <1>6, <1>7
<1>9. Lists(J, L, R, S, o)
  BY <1>2, <1>6, <1>8 DEF Lists, X
<1>10. QED
  BY <1>9 DEF J, S

-----------------------------------------------------------------------------
(* Which pairs of indices make a joined row.                                 *)

At(s, x) == {i \in DOMAIN s : s[i] \in {x}}
Found(L, R, type, x, y) == {p \in JoinIndices(L, R, type) : LeftOf(L, p) = x /\ RightOf(R, p) = y}

LEMMA FoundCount ==
  ASSUME NEW L \in Seq(RowSet), NEW R \in Seq(RowSet), NEW type, L # <<>>, R # <<>>,
         NEW x \in RowSet, NEW y \in RowSet
  PROVE  CountIn(Join(L, R, type), {Row(x, y)}) = Cardinality(Found(L, R, type, x, y))
<1> DEFINE S == JoinIndices(L, R, type)
           J == Join(L, R, type)
           A == {i \in DOMAIN J : J[i] \in {Row(x, y)}}
           B == Found(L, R, type, x, y)
           X == JoinedRow
<1>1. PICK o : Lists(J, L, R, S, o)
  BY JoinLists
<1> HIDE DEF J, S
<1>2. /\ J \in Seq(X) /\ o \in [1 .. Len(J) -> S]
      /\ \A p \in S : \E i \in 1 .. Len(J) : o[i] = p
      /\ \A i, j \in 1 .. Len(J) : o[i] = o[j] => i = j
      /\ \A i \in 1 .. Len(J) : J[i] = Row(LeftOf(L, o[i]), RightOf(R, o[i]))
  BY <1>1 DEF Lists, Enumerates
<1>3. IsFiniteSet(A) /\ DOMAIN J = 1 .. Len(J)
  <2> HIDE DEF X
  <2>1. IsFiniteSet({i \in DOMAIN J : J[i] \in {Row(x, y)}}) /\ DOMAIN J = 1 .. Len(J)
    BY <1>2, CountType
  <2>2. QED
    BY <2>1
<1>4. \A u, v : Row(u, v) = Row(x, y) <=> u = x /\ v = y
  BY DEF Row
<1>5. \A p : p \in B <=> p \in S /\ LeftOf(L, p) = x /\ RightOf(R, p) = y
  BY DEF Found, S
<1>6. \A i : i \in A <=> i \in 1 .. Len(J) /\ LeftOf(L, o[i]) = x /\ RightOf(R, o[i]) = y
  BY <1>2, <1>3, <1>4
<1> DEFINE m == [i \in A |-> o[i]]
<1> HIDE DEF A, B
<1>7. m \in [A -> B]
  BY <1>2, <1>5, <1>6
<1>8. ASSUME NEW b \in B PROVE \E a \in A : m[a] = b
  <2>1. PICK i \in 1 .. Len(J) : o[i] = b
    BY <1>2, <1>5
  <2>2. i \in A
    BY <1>5, <1>6, <2>1
  <2>3. QED
    BY <2>1, <2>2
<1>9. \A a, b \in A : m[a] = m[b] => a = b
  BY <1>2, <1>6
<1> HIDE DEF m
<1>10. Cardinality(B) = Cardinality(A)
  BY <1>3, <1>7, <1>8, <1>9, CountMoved
<1>11. QED
  BY <1>10 DEF A, B, J, CountIn

Paired(x, y) == x.key = y.key /\ x.key # NullKey
Alone(x, t) == x.key = NullKey \/ x.key \notin KeysOf(t)

LEMMA LonelyRows ==
  ASSUME NEW L \in Seq(RowSet), NEW R \in Seq(RowSet)
  PROVE  /\ \A i \in DOMAIN L : (\A p \in Matches(L, R) : p[1] # i) <=> Alone(L[i], R)
         /\ \A i \in DOMAIN R : (\A p \in Matches(L, R) : p[2] # i) <=> Alone(R[i], L)
<1>1. \A i, j : <<i, j>> \in Matches(L, R) <=>
          i \in DOMAIN L /\ j \in DOMAIN R /\ L[i].key = R[j].key /\ L[i].key # NullKey
  BY DEF Matches
<1>2. \A p \in Matches(L, R) : p = <<p[1], p[2]>>
  BY DEF Matches
<1>3. ASSUME NEW i \in DOMAIN L PROVE (\A p \in Matches(L, R) : p[1] # i) <=> Alone(L[i], R)
  <2>1. (\A p \in Matches(L, R) : p[1] # i) <=> \A j : <<i, j>> \notin Matches(L, R)
    BY <1>2
  <2>2. QED
    BY <1>1, <2>1 DEF Alone, KeysOf
<1>4. ASSUME NEW i \in DOMAIN R PROVE (\A p \in Matches(L, R) : p[2] # i) <=> Alone(R[i], L)
  <2>1. (\A p \in Matches(L, R) : p[2] # i) <=> \A j : <<j, i>> \notin Matches(L, R)
    BY <1>2
  <2>2. QED
    BY <1>1, <2>1 DEF Alone, KeysOf
<1>5. QED
  BY <1>3, <1>4

Pairs(L, R, x, y) == IF Paired(x, y) THEN At(L, x) \X At(R, y) ELSE {}
Lonelies(L, R, type, x, y) ==
  IF type \in {"left", "full"} /\ y = NullRow /\ Alone(x, R) THEN At(L, x) \X {NoRow} ELSE {}
Unmatcheds(L, R, type, x, y) ==
  IF type = "full" /\ x = NullRow /\ Alone(y, L) THEN {NoRow} \X At(R, y) ELSE {}

LEMMA FoundParts ==
  ASSUME NEW L \in Seq(RowSet), NEW R \in Seq(RowSet), NEW type,
         NEW x \in RowSet, NEW y \in RowSet
  PROVE  Found(L, R, type, x, y)
           = (Pairs(L, R, x, y) \cup Lonelies(L, R, type, x, y)) \cup Unmatcheds(L, R, type, x, y)
<1>1. 0 \notin DOMAIN L /\ 0 \notin DOMAIN R
  BY RowsHaveKeys
<1> DEFINE M == Matches(L, R)
           S == JoinIndices(L, R, type)
<1>2. \A i, j : <<i, j>> \in M <=>
          i \in DOMAIN L /\ j \in DOMAIN R /\ L[i].key = R[j].key /\ L[i].key # NullKey
  BY DEF Matches
<1>3. \A i, j : <<i, j>> \in S <=>
         \/ <<i, j>> \in M
         \/ type \in {"left", "full"} /\ j = 0 /\ i \in DOMAIN L /\ Alone(L[i], R)
         \/ type = "full" /\ i = 0 /\ j \in DOMAIN R /\ Alone(R[j], L)
  <2> DEFINE Lonely == {<<i, NoRow>> : i \in {k \in DOMAIN L : \A p \in M : p[1] # k}}
             Unmatched == {<<NoRow, j>> : j \in {k \in DOMAIN R : \A p \in M : p[2] # k}}
  <2>1. S = M \cup (IF type \in {"left", "full"} THEN Lonely ELSE {})
              \cup (IF type = "full" THEN Unmatched ELSE {})
    BY DEF JoinIndices
  <2>2. \A i, j : <<i, j>> \in Lonely <=> j = 0 /\ i \in DOMAIN L /\ Alone(L[i], R)
    <3>1. \A i \in DOMAIN L : (\A p \in M : p[1] # i) <=> Alone(L[i], R)
      BY LonelyRows
    <3> HIDE DEF M
    <3>2. \A i, j : <<i, j>> \in Lonely <=> j = NoRow /\ i \in DOMAIN L /\ \A p \in M : p[1] # i
      OBVIOUS
    <3> HIDE DEF Lonely
    <3>3. ASSUME NEW i, NEW j PROVE <<i, j>> \in Lonely <=> j = 0 /\ i \in DOMAIN L /\ Alone(L[i], R)
      BY <3>1, <3>2 DEF NoRow
    <3>4. QED
      BY <3>3
  <2>3. \A i, j : <<i, j>> \in Unmatched <=> i = 0 /\ j \in DOMAIN R /\ Alone(R[j], L)
    <3>1. \A i \in DOMAIN R : (\A p \in M : p[2] # i) <=> Alone(R[i], L)
      BY LonelyRows
    <3> HIDE DEF M
    <3>2. \A i, j : <<i, j>> \in Unmatched <=> i = NoRow /\ j \in DOMAIN R /\ \A p \in M : p[2] # j
      OBVIOUS
    <3> HIDE DEF Unmatched
    <3>3. ASSUME NEW i, NEW j PROVE <<i, j>> \in Unmatched <=> i = 0 /\ j \in DOMAIN R /\ Alone(R[j], L)
      <4>1. <<i, j>> \in Unmatched <=> i = 0 /\ j \in DOMAIN R /\ \A p \in M : p[2] # j
        BY <3>2 DEF NoRow
      <4>2. j \in DOMAIN R => ((\A p \in M : p[2] # j) <=> Alone(R[j], L))
        BY <3>1
      <4>3. QED
        BY <4>1, <4>2
    <3>4. QED
      BY <3>3
  <2> HIDE DEF S, M, Lonely, Unmatched
  <2>4. ASSUME NEW i, NEW j
        PROVE <<i, j>> \in S <=>
                \/ <<i, j>> \in M
                \/ type \in {"left", "full"} /\ j = 0 /\ i \in DOMAIN L /\ Alone(L[i], R)
                \/ type = "full" /\ i = 0 /\ j \in DOMAIN R /\ Alone(R[j], L)
    <3> DEFINE p == <<i, j>>
    <3>1. p \in Lonely <=> j = 0 /\ i \in DOMAIN L /\ Alone(L[i], R)
      BY <2>2
    <3>2. p \in Unmatched <=> i = 0 /\ j \in DOMAIN R /\ Alone(R[j], L)
      BY <2>3
    <3> DEFINE A == type \in {"left", "full"}
               B == type = "full"
               C == j = 0 /\ i \in DOMAIN L /\ Alone(L[i], R)
               E == i = 0 /\ j \in DOMAIN R /\ Alone(R[j], L)
    <3>3. S = M \cup (IF A THEN Lonely ELSE {}) \cup (IF B THEN Unmatched ELSE {})
      BY <2>1
    <3>6. (p \in Lonely <=> C) /\ (p \in Unmatched <=> E)
      BY <3>1, <3>2
    <3> HIDE DEF p, A, B, C, E
    <3>7. p \in S <=> p \in M \/ (A /\ p \in Lonely) \/ (B /\ p \in Unmatched)
      BY ONLY <3>3
    <3>8. p \in S <=> p \in M \/ (A /\ C) \/ (B /\ E)
      BY ONLY <3>6, <3>7
    <3>4. p \in S <=>
                \/ p \in M
                \/ type \in {"left", "full"} /\ j = 0 /\ i \in DOMAIN L /\ Alone(L[i], R)
                \/ type = "full" /\ i = 0 /\ j \in DOMAIN R /\ Alone(R[j], L)
      BY <3>8 DEF A, B, C, E
    <3>5. QED
      BY <3>4 DEF p
  <2>5. QED
    BY <2>4
<1>4. ASSUME NEW i, NEW j
      PROVE <<i, j>> \in Found(L, R, type, x, y) <=>
              <<i, j>> \in S /\ (IF i = 0 THEN NullRow ELSE L[i]) = x
                             /\ (IF j = 0 THEN NullRow ELSE R[j]) = y
  BY DEF Found, LeftOf, RightOf, NoRow
<1> HIDE DEF M, S
<1>5. ASSUME NEW i, NEW j
      PROVE /\ <<i, j>> \in Pairs(L, R, x, y) <=>
                 Paired(x, y) /\ i \in DOMAIN L /\ L[i] = x /\ j \in DOMAIN R /\ R[j] = y
            /\ <<i, j>> \in Lonelies(L, R, type, x, y) <=>
                 /\ type \in {"left", "full"} /\ y = NullRow /\ Alone(x, R)
                 /\ i \in DOMAIN L /\ L[i] = x /\ j = 0
            /\ <<i, j>> \in Unmatcheds(L, R, type, x, y) <=>
                 /\ type = "full" /\ x = NullRow /\ Alone(y, L)
                 /\ j \in DOMAIN R /\ R[j] = y /\ i = 0
  BY DEF Pairs, Lonelies, Unmatcheds, At, NoRow
<1> DEFINE F == Found(L, R, type, x, y)
           G == (Pairs(L, R, x, y) \cup Lonelies(L, R, type, x, y)) \cup Unmatcheds(L, R, type, x, y)
<1>6. ASSUME NEW i, NEW j PROVE <<i, j>> \in F <=> <<i, j>> \in G
  <2>1. <<i, j>> \in M <=>
          i \in DOMAIN L /\ j \in DOMAIN R /\ L[i].key = R[j].key /\ L[i].key # NullKey
    BY <1>2
  <2>2. <<i, j>> \in S <=>
         \/ <<i, j>> \in M
         \/ type \in {"left", "full"} /\ j = 0 /\ i \in DOMAIN L /\ Alone(L[i], R)
         \/ type = "full" /\ i = 0 /\ j \in DOMAIN R /\ Alone(R[j], L)
    BY <1>3
  <2>3. QED
    BY <1>1, <1>4, <1>5, <2>1, <2>2 DEF Paired
<1>7. \A p \in F : p = <<p[1], p[2]>>
  <2>1. S \in SUBSET (Nat \X Nat)
    BY JoinSpots DEF S
  <2>2. QED
    BY <2>1 DEF Found, S
<1>8. \A p \in G : p = <<p[1], p[2]>>
  BY DEF Pairs, Lonelies, Unmatcheds
<1> HIDE DEF F, G
<1>9. F = G
  <2>1. ASSUME NEW p \in F PROVE p \in G
    <3>1. p = <<p[1], p[2]>>
      BY <1>7
    <3>2. <<p[1], p[2]>> \in F <=> <<p[1], p[2]>> \in G
      BY <1>6
    <3>3. QED
      BY <3>1, <3>2
  <2>2. ASSUME NEW p \in G PROVE p \in F
    <3>1. p = <<p[1], p[2]>>
      BY <1>8
    <3>2. <<p[1], p[2]>> \in F <=> <<p[1], p[2]>> \in G
      BY <1>6
    <3>3. QED
      BY <3>1, <3>2
  <2>3. QED
    BY <2>1, <2>2
<1>10. QED
  BY <1>9 DEF F, G

-----------------------------------------------------------------------------
(* How often a joined row occurs.                                            *)

LEMMA SpotsOfRow ==
  ASSUME NEW s \in Seq(RowSet), NEW x
  PROVE  /\ IsFiniteSet(At(s, x)) /\ Cardinality(At(s, x)) = CountIn(s, {x})
         /\ CountIn(s, {x}) \in Nat /\ NoRow \notin At(s, x)
<1> DEFINE X == RowSet
<1>1. s \in Seq(X)
  OBVIOUS
<1> HIDE DEF X
<1>2. IsFiniteSet({i \in DOMAIN s : s[i] \in {x}}) /\ CountIn(s, {x}) \in 0 .. Len(s)
      /\ DOMAIN s = 1 .. Len(s) /\ Len(s) \in Nat
  BY <1>1, CountType
<1>3. CountIn(s, {x}) = Cardinality({i \in DOMAIN s : s[i] \in {x}})
  BY DEF CountIn
<1>4. CountIn(s, {x}) \in Nat
  BY <1>2
<1>5. NoRow \notin DOMAIN s
  BY <1>2 DEF NoRow
<1>6. QED
  BY <1>2, <1>3, <1>4, <1>5 DEF At

LEMMA OneProduct ==
  ASSUME NEW A, IsFiniteSet(A), NEW z
  PROVE  /\ IsFiniteSet(A \X {z}) /\ Cardinality(A \X {z}) = Cardinality(A)
         /\ IsFiniteSet({z} \X A) /\ Cardinality({z} \X A) = Cardinality(A)
<1>1. IsFiniteSet({z}) /\ Cardinality({z}) = 1 /\ Cardinality(A) \in Nat
  BY FS_Singleton, FS_CardinalityType
<1> DEFINE B == {z}
<1>2. IsFiniteSet(B) /\ Cardinality(B) = 1
  BY <1>1
<1> HIDE DEF B
<1>3. IsFiniteSet(A \X B) /\ Cardinality(A \X B) = Cardinality(A) * Cardinality(B)
  BY <1>2, FS_Product
<1>4. IsFiniteSet(B \X A) /\ Cardinality(B \X A) = Cardinality(B) * Cardinality(A)
  BY <1>2, FS_Product
<1>5. Cardinality(A \X B) = Cardinality(A) /\ Cardinality(B \X A) = Cardinality(A)
  BY <1>1, <1>2, <1>3, <1>4
<1>6. QED
  BY <1>3, <1>4, <1>5 DEF B

LEMMA ApartTogether ==
  ASSUME NEW A, NEW B, IsFiniteSet(A), IsFiniteSet(B), A \cap B = {}
  PROVE  IsFiniteSet(A \cup B) /\ Cardinality(A \cup B) = Cardinality(A) + Cardinality(B)
<1>1. /\ IsFiniteSet(A \cup B)
      /\ Cardinality(A \cup B) = Cardinality(A) + Cardinality(B) - Cardinality(A \cap B)
  BY FS_Union
<1>2. Cardinality(A \cap B) = 0
  BY FS_EmptySet
<1>3. Cardinality(A) \in Nat /\ Cardinality(B) \in Nat
  BY FS_CardinalityType
<1>4. QED
  BY <1>1, <1>2, <1>3

(* How often the joined row of x and y occurs in a join.                    *)
PairCount(L, R, x, y) == IF Paired(x, y) THEN CountIn(L, {x}) * CountIn(R, {y}) ELSE 0
LonelyCount(L, R, type, x, y) ==
  IF type \in {"left", "full"} /\ y = NullRow /\ Alone(x, R) THEN CountIn(L, {x}) ELSE 0
UnmatchedCount(L, R, type, x, y) ==
  IF type = "full" /\ x = NullRow /\ Alone(y, L) THEN CountIn(R, {y}) ELSE 0
JoinedCount(L, R, type, x, y) ==
  PairCount(L, R, x, y) + LonelyCount(L, R, type, x, y) + UnmatchedCount(L, R, type, x, y)

LEMMA JoinCount ==
  ASSUME NEW L \in Seq(RowSet), NEW R \in Seq(RowSet), NEW type, L # <<>>, R # <<>>,
         NEW x \in RowSet, NEW y \in RowSet
  PROVE  CountIn(Join(L, R, type), {Row(x, y)}) = JoinedCount(L, R, type, x, y)
<1> DEFINE A == Pairs(L, R, x, y)
           B == Lonelies(L, R, type, x, y)
           C == Unmatcheds(L, R, type, x, y)
           l == At(L, x)
           r == At(R, y)
<1>1. IsFiniteSet(l) /\ Cardinality(l) = CountIn(L, {x}) /\ CountIn(L, {x}) \in Nat /\ NoRow \notin l
  BY SpotsOfRow
<1>2. IsFiniteSet(r) /\ Cardinality(r) = CountIn(R, {y}) /\ CountIn(R, {y}) \in Nat /\ NoRow \notin r
  BY SpotsOfRow
<1>0. IsFiniteSet({}) /\ Cardinality({}) = 0
  BY FS_EmptySet
<1>3. IsFiniteSet(A) /\ Cardinality(A) = PairCount(L, R, x, y)
  <2> HIDE DEF l, r
  <2>1. IsFiniteSet(l \X r) /\ Cardinality(l \X r) = CountIn(L, {x}) * CountIn(R, {y})
    BY <1>1, <1>2, FS_Product
  <2>2. A = IF Paired(x, y) THEN l \X r ELSE {}
    BY DEF Pairs, l, r
  <2>3. QED
    BY <1>0, <2>1, <2>2 DEF PairCount
<1>4. IsFiniteSet(B) /\ Cardinality(B) = LonelyCount(L, R, type, x, y)
  <2> HIDE DEF l, r
  <2>1. IsFiniteSet(l \X {NoRow}) /\ Cardinality(l \X {NoRow}) = CountIn(L, {x})
    BY <1>1, OneProduct
  <2>2. B = IF type \in {"left", "full"} /\ y = NullRow /\ Alone(x, R) THEN l \X {NoRow} ELSE {}
    BY DEF Lonelies, l, r
  <2>3. QED
    BY <1>0, <2>1, <2>2 DEF LonelyCount
<1>5. IsFiniteSet(C) /\ Cardinality(C) = UnmatchedCount(L, R, type, x, y)
  <2> HIDE DEF l, r
  <2>1. IsFiniteSet({NoRow} \X r) /\ Cardinality({NoRow} \X r) = CountIn(R, {y})
    BY <1>2, OneProduct
  <2>2. C = IF type = "full" /\ x = NullRow /\ Alone(y, L) THEN {NoRow} \X r ELSE {}
    BY DEF Unmatcheds, l, r
  <2>3. QED
    BY <1>0, <2>1, <2>2 DEF UnmatchedCount
<1>6. A \subseteq l \X r /\ B \subseteq l \X {NoRow} /\ C \subseteq {NoRow} \X r
  BY DEF Pairs, Lonelies, Unmatcheds
<1> HIDE DEF A, B, C, l, r
<1>7. A \cap B = {} /\ (A \cup B) \cap C = {}
  BY <1>1, <1>2, <1>6
<1>8. IsFiniteSet(A \cup B) /\ Cardinality(A \cup B) = Cardinality(A) + Cardinality(B)
  BY <1>3, <1>4, <1>7, ApartTogether
<1> DEFINE D == A \cup B
<1>9. IsFiniteSet(D) /\ D \cap C = {}
  BY <1>7, <1>8
<1> HIDE DEF D
<1>10. Cardinality(D \cup C) = Cardinality(D) + Cardinality(C)
  BY <1>5, <1>9, ApartTogether
<1>11. Found(L, R, type, x, y) = D \cup C
  BY FoundParts DEF A, B, C, D
<1>12. CountIn(Join(L, R, type), {Row(x, y)}) = Cardinality(D \cup C)
  <2>1. CountIn(Join(L, R, type), {Row(x, y)}) = Cardinality(Found(L, R, type, x, y))
    BY FoundCount
  <2>2. QED
    BY <1>11, <2>1
<1>13. QED
  BY <1>3, <1>4, <1>5, <1>8, <1>10, <1>12 DEF JoinedCount, D

LEMMA NoJoin ==
  ASSUME NEW L, NEW R, NEW type, L = <<>> \/ R = <<>>
  PROVE  Join(L, R, type) = <<>>
<1>1. evaluate_join(L, R, type) = <<>>
  BY DEF evaluate_join
<1>2. QED
  BY <1>1 DEF Join

LEMMA JoinType ==
  ASSUME NEW L \in Seq(RowSet), NEW R \in Seq(RowSet), NEW type
  PROVE  Join(L, R, type) \in Seq(JoinedRow)
<1>1. CASE L = <<>> \/ R = <<>>
  <2>1. Join(L, R, type) = <<>>
    BY <1>1, NoJoin
  <2>2. QED
    BY <2>1
<1>2. CASE ~(L = <<>> \/ R = <<>>)
  <2>1. PICK o : Lists(Join(L, R, type), L, R, JoinIndices(L, R, type), o)
    BY <1>2, JoinLists
  <2>2. QED
    BY <2>1 DEF Lists
<1>3. QED
  BY <1>1, <1>2

-----------------------------------------------------------------------------
(* The rows of a key are on the node of its hash, and there as in the whole. *)

(* The rows of a whole table that hash to node n, as the node has them.     *)
HereOnly(s, whole, n, hashed) ==
  \A x \in RowSet : CountIn(s, {x}) = IF hashed[x.key] = n THEN CountIn(whole, {x}) ELSE 0

LEMMA HashedHere ==
  ASSUME NEW T \in Tables, NEW P \in [Node -> Tables], NEW hashed \in [Keys -> Node],
         \A m \in Node : KeepsRows(P[m], T[m]),
         \A m \in Node : PlacedByHash(P[m], hashed),
         NEW n \in Node, NEW a \in Arrivals(n)
  PROVE  /\ concat_columns(Received(P, n, a)) \in Seq(RowSet)
         /\ HereOnly(concat_columns(Received(P, n, a)), Whole(T), n, hashed)
<1> DEFINE L == concat_columns(Received(P, n, a))
           c == Received(P, n, a)
           X == RowSet
           f == [d \in Node |-> Column(P, d)]
<1>1. c \in [1 .. N -> Seq(X)] /\ SameCounts(FlattenSeq(c), Column(P, n))
  BY ReceivedParts DEF Column
<1>2. L \in Seq(X) /\ SameCounts(L, FlattenSeq(c))
  <2> HIDE DEF c, X
  <2>1. concat_columns(c) \in Seq(X) /\ SameCounts(concat_columns(c), FlattenSeq(c))
    BY <1>1, OwnPartFirst
  <2>2. QED
    BY <2>1 DEF c
<1>3. SameCounts(FlattenSeq(f), Whole(T))
  BY ColumnsHaveAll
<1>4. \A d \in Node : Column(P, d) \in Seq(X)
  BY ColumnType
<1>5. f \in [1 .. N -> Seq(X)] /\ N \in Nat
  BY <1>4, Distributed DEF Node
<1>6. ASSUME NEW x \in RowSet, NEW d \in Node, hashed[x.key] # d
      PROVE  CountIn(Column(P, d), {x}) = 0
  <2> DEFINE g == [m \in Node |-> P[m][d]]
  <2>1. g \in [1 .. N -> Seq(X)]
    BY ColumnType
  <2>2. ASSUME NEW m \in 1 .. N PROVE CountIn(g[m], {x}) = 0
    <3> DEFINE t == P[m][d]
    <3>1. g[m] = t /\ t \in Seq(X) /\ m \in Node
      BY <2>1 DEF Node
    <3>2. ASSUME NEW i \in 1 .. Len(t), t[i] \in {x} PROVE FALSE
      <4>1. DOMAIN t = 1 .. Len(t)
        BY <3>1, RowsHaveKeys
      <4>2. x.key \in KeysOf(t)
        BY <3>2, <4>1 DEF KeysOf
      <4>3. hashed[x.key] = d
        BY <3>1, <4>2 DEF PlacedByHash
      <4>4. QED
        BY <1>6, <4>3
    <3>3. CountIn(t, {x}) = 0
      <4> HIDE DEF t, X
      <4>1. \A i \in 1 .. Len(t) : t[i] \notin {x}
        BY <3>2
      <4>2. QED
        BY <3>1, <4>1, CountZero
    <3>4. QED
      BY <3>1, <3>3
  <2> HIDE DEF g, X
  <2>3. CountIn(FlattenSeq(g), {x}) = 0
    BY <1>5, <2>1, <2>2, CountOfNone
  <2>4. QED
    BY <2>3 DEF g, Column
<1>7. ASSUME NEW x \in RowSet
      PROVE  CountIn(L, {x}) = IF hashed[x.key] = n THEN CountIn(Whole(T), {x}) ELSE 0
  <2>1. CountIn(L, {x}) = CountIn(Column(P, n), {x})
    BY <1>1, <1>2 DEF SameCounts
  <2>2. CASE hashed[x.key] # n
    BY <1>6, <2>1, <2>2
  <2>3. CASE hashed[x.key] = n
    <3> DEFINE Q == {x}
    <3>1. ASSUME NEW d \in 1 .. N, d # n PROVE CountIn(f[d], Q) = 0
      <4>1. d \in Node /\ f[d] = Column(P, d)
        BY <3>1 DEF Node
      <4>2. QED
        BY <1>6, <2>3, <3>1, <4>1
    <3>2. OnlyAt(f, N, Q, n) /\ n \in 1 .. N /\ f[n] = Column(P, n)
      BY <3>1 DEF OnlyAt, Node
    <3> HIDE DEF f, X, Q
    <3>3. CountIn(FlattenSeq(f), Q) = CountIn(f[n], Q)
      BY <1>5, <3>2, CountOfOnly
    <3>4. CountIn(Column(P, n), {x}) = CountIn(Whole(T), {x})
      BY <1>3, <3>2, <3>3 DEF SameCounts, Q
    <3>5. QED
      BY <2>1, <2>3, <3>4
  <2>4. QED
    BY <2>2, <2>3
<1>8. HereOnly(L, Whole(T), n, hashed)
  BY <1>7 DEF HereOnly
<1>9. QED
  BY <1>2, <1>8

SameKeyHere(s, whole, k) == k \in KeysOf(s) <=> k \in KeysOf(whole)

LEMMA KeyHasRow ==
  ASSUME NEW s \in Seq(RowSet), NEW k
  PROVE  k \in KeysOf(s) <=> \E x \in RowSet : x.key = k /\ CountIn(s, {x}) # 0
<1> DEFINE X == RowSet
<1>1. s \in Seq(X) /\ DOMAIN s = 1 .. Len(s) /\ \A i \in 1 .. Len(s) : s[i] \in RowSet
  BY RowsHaveKeys
<1>2. k \in KeysOf(s) <=> \E i \in 1 .. Len(s) : s[i].key = k
  BY <1>1 DEF KeysOf
<1>3. ASSUME NEW x PROVE CountIn(s, {x}) = 0 <=> \A i \in 1 .. Len(s) : s[i] # x
  <2> HIDE DEF X
  <2>1. CountIn(s, {x}) = 0 <=> \A i \in 1 .. Len(s) : s[i] \notin {x}
    BY <1>1, CountZero
  <2>2. QED
    BY <2>1
<1>4. QED
  BY <1>1, <1>2, <1>3

LEMMA KeyHere ==
  ASSUME NEW s \in Seq(RowSet), NEW whole \in Seq(RowSet), NEW n, NEW hashed,
         HereOnly(s, whole, n, hashed), NEW k, hashed[k] = n
  PROVE  SameKeyHere(s, whole, k)
<1>1. \A x \in RowSet : x.key = k => CountIn(s, {x}) = CountIn(whole, {x})
  BY DEF HereOnly
<1>2. k \in KeysOf(s) <=> \E x \in RowSet : x.key = k /\ CountIn(s, {x}) # 0
  BY KeyHasRow
<1>3. k \in KeysOf(whole) <=> \E x \in RowSet : x.key = k /\ CountIn(whole, {x}) # 0
  BY KeyHasRow
<1>4. QED
  BY <1>1, <1>2, <1>3 DEF SameKeyHere

LEMMA SomethingHere ==
  ASSUME NEW s \in Seq(RowSet), NEW whole, NEW n, NEW hashed,
         HereOnly(s, whole, n, hashed), s # <<>>
  PROVE  whole # <<>>
<1>1. 1 \in 1 .. Len(s) /\ DOMAIN s = 1 .. Len(s) /\ s[1] \in RowSet
  <2>1. Len(s) \in Nat /\ Len(s) # 0
    OBVIOUS
  <2>2. QED
    BY <2>1, RowsHaveKeys
<1> DEFINE x == s[1]
<1>2. x.key \in KeysOf(s) /\ x \in RowSet
  BY <1>1 DEF KeysOf
<1>3. CountIn(s, {x}) # 0
  <2> DEFINE X == RowSet
             Q == {x}
  <2>1. s \in Seq(X) /\ s[1] \in Q
    OBVIOUS
  <2> HIDE DEF X, Q
  <2>2. CountIn(s, Q) # 0
    BY <1>1, <2>1, CountZero
  <2>3. QED
    BY <2>2 DEF Q
<1>4. CountIn(whole, {x}) # 0
  BY <1>2, <1>3 DEF HereOnly
<1>5. CountIn(<<>>, {x}) = 0
  BY CountNothing
<1>6. QED
  BY <1>4, <1>5

-----------------------------------------------------------------------------
(* A joined row on the node where its rows meet, and nowhere else.           *)

(* The node on which the rows of a joined row meet.                         *)
Home(hashed, x, y) == IF x = NullRow THEN hashed[y.key] ELSE hashed[x.key]

JoinsElsewhere(J, x, y) == CountIn(J, {Row(x, y)}) = 0
JoinsWithin(J, inner, outer, x, y) ==
  /\ CountIn(inner, {Row(x, y)}) <= CountIn(J, {Row(x, y)})
  /\ CountIn(J, {Row(x, y)}) <= CountIn(outer, {Row(x, y)})

LEMMA JoinCounts ==
  ASSUME NEW L \in Seq(RowSet), NEW R \in Seq(RowSet), NEW type,
         NEW x \in RowSet, NEW y \in RowSet
  PROVE  /\ PairCount(L, R, x, y) \in Nat /\ LonelyCount(L, R, type, x, y) \in Nat
         /\ UnmatchedCount(L, R, type, x, y) \in Nat
         /\ CountIn(Join(L, R, type), {Row(x, y)}) \in Nat
<1> DEFINE l == CountIn(L, {x})
           r == CountIn(R, {y})
           J == Join(L, R, type)
           X == JoinedRow
<1>1. l \in Nat /\ r \in Nat
  BY SpotsOfRow
<1>2. l * r \in Nat
  <2> HIDE DEF l, r
  <2>1. QED
    BY <1>1
<1>3. J \in Seq(X)
  BY JoinType
<1>4. CountIn(J, {Row(x, y)}) \in Nat
  <2> HIDE DEF J, X
  <2>1. CountIn(J, {Row(x, y)}) \in 0 .. Len(J) /\ Len(J) \in Nat
    BY <1>3, CountType
  <2>2. QED
    BY <2>1
<1>5. QED
  BY <1>1, <1>2, <1>4 DEF PairCount, LonelyCount, UnmatchedCount

LEMMA JoinedNowhereElse ==
  ASSUME NEW L \in Seq(RowSet), NEW R \in Seq(RowSet), NEW V, NEW W,
         NEW n, NEW hashed, HereOnly(L, V, n, hashed), HereOnly(R, W, n, hashed),
         NEW type, NEW x \in RowSet, NEW y \in RowSet, Home(hashed, x, y) # n
  PROVE  JoinsElsewhere(Join(L, R, type), x, y)
<1> DEFINE l == CountIn(L, {x})
           r == CountIn(R, {y})
<1>1. hashed[x.key] # n => l = 0
  BY DEF HereOnly
<1>2. hashed[y.key] # n => r = 0
  BY DEF HereOnly
<1>3. l \in Nat /\ r \in Nat
  BY SpotsOfRow
<1>4. NullRow.key = NullKey
  BY DEF NullRow, Row
<1>5. PairCount(L, R, x, y) = 0
  <2>1. CASE Paired(x, y)
    <3>1. x # NullRow
      BY <1>4, <2>1 DEF Paired
    <3>2. l = 0
      BY <1>1, <3>1 DEF Home
    <3> HIDE DEF l, r
    <3>3. l * r = 0
      BY <1>3, <3>2
    <3>4. QED
      BY <3>3 DEF PairCount, l, r
  <2>2. CASE ~Paired(x, y)
    BY <2>2 DEF PairCount
  <2>3. QED
    BY <2>1, <2>2
<1>6. LonelyCount(L, R, type, x, y) = 0
  <2>1. CASE y = NullRow
    <3>1. hashed[x.key] # n
      BY <2>1 DEF Home
    <3>2. QED
      BY <1>1, <3>1 DEF LonelyCount
  <2>2. CASE y # NullRow
    BY <2>2 DEF LonelyCount
  <2>3. QED
    BY <2>1, <2>2
<1>7. UnmatchedCount(L, R, type, x, y) = 0
  <2>1. CASE x = NullRow
    <3>1. hashed[y.key] # n
      BY <2>1 DEF Home
    <3>2. QED
      BY <1>2, <3>1 DEF UnmatchedCount
  <2>2. CASE x # NullRow
    BY <2>2 DEF UnmatchedCount
  <2>3. QED
    BY <2>1, <2>2
<1>8. CASE L # <<>> /\ R # <<>>
  <2>1. CountIn(Join(L, R, type), {Row(x, y)}) = JoinedCount(L, R, type, x, y)
    BY <1>8, JoinCount
  <2>2. QED
    BY <1>5, <1>6, <1>7, <2>1 DEF JoinedCount, JoinsElsewhere
<1>9. CASE ~(L # <<>> /\ R # <<>>)
  <2>1. Join(L, R, type) = <<>>
    BY <1>9, NoJoin
  <2>2. QED
    BY <2>1, CountNothing DEF JoinsElsewhere
<1>10. QED
  BY <1>8, <1>9

SameJoined(L, R, V, W, type, x, y) ==
  /\ PairCount(L, R, x, y) = PairCount(V, W, x, y)
  /\ LonelyCount(L, R, type, x, y) = LonelyCount(V, W, type, x, y)
  /\ UnmatchedCount(L, R, type, x, y) = UnmatchedCount(V, W, type, x, y)

LEMMA JoinedAtHome ==
  ASSUME NEW L \in Seq(RowSet), NEW R \in Seq(RowSet), NEW V \in Seq(RowSet), NEW W \in Seq(RowSet),
         NEW n, NEW hashed, HereOnly(L, V, n, hashed), HereOnly(R, W, n, hashed),
         NEW type, NEW x \in RowSet, NEW y \in RowSet, Home(hashed, x, y) = n
  PROVE  SameJoined(L, R, V, W, type, x, y)
<1>1. hashed[x.key] = n => CountIn(L, {x}) = CountIn(V, {x})
  BY DEF HereOnly
<1>2. hashed[y.key] = n => CountIn(R, {y}) = CountIn(W, {y})
  BY DEF HereOnly
<1>3. NullRow.key = NullKey
  BY DEF NullRow, Row
<1>4. hashed[x.key] = n => (Alone(x, R) <=> Alone(x, W))
  <2>1. hashed[x.key] = n => SameKeyHere(R, W, x.key)
    BY KeyHere
  <2>2. QED
    BY <2>1 DEF Alone, SameKeyHere
<1>5. hashed[y.key] = n => (Alone(y, L) <=> Alone(y, V))
  <2>1. hashed[y.key] = n => SameKeyHere(L, V, y.key)
    BY KeyHere
  <2>2. QED
    BY <2>1 DEF Alone, SameKeyHere
<1>6. PairCount(L, R, x, y) = PairCount(V, W, x, y)
  <2>1. CASE Paired(x, y)
    <3>1. x # NullRow
      BY <1>3, <2>1 DEF Paired
    <3>2. hashed[x.key] = n /\ hashed[y.key] = n
      BY <2>1, <3>1 DEF Home, Paired
    <3>3. QED
      BY <1>1, <1>2, <3>2 DEF PairCount
  <2>2. CASE ~Paired(x, y)
    BY <2>2 DEF PairCount
  <2>3. QED
    BY <2>1, <2>2
<1>7. LonelyCount(L, R, type, x, y) = LonelyCount(V, W, type, x, y)
  <2>1. CASE y = NullRow
    <3>1. hashed[x.key] = n
      BY <2>1 DEF Home
    <3>2. QED
      BY <1>1, <1>4, <3>1 DEF LonelyCount
  <2>2. CASE y # NullRow
    BY <2>2 DEF LonelyCount
  <2>3. QED
    BY <2>1, <2>2
<1>8. UnmatchedCount(L, R, type, x, y) = UnmatchedCount(V, W, type, x, y)
  <2>1. CASE x = NullRow
    <3>1. hashed[y.key] = n
      BY <2>1 DEF Home
    <3>2. QED
      BY <1>2, <1>5, <3>1 DEF UnmatchedCount
  <2>2. CASE x # NullRow
    BY <2>2 DEF UnmatchedCount
  <2>3. QED
    BY <2>1, <2>2
<1>9. QED
  BY <1>6, <1>7, <1>8 DEF SameJoined

LEMMA JoinedBetween ==
  ASSUME NEW L \in Seq(RowSet), NEW R \in Seq(RowSet), NEW V \in Seq(RowSet), NEW W \in Seq(RowSet),
         NEW n, NEW hashed, HereOnly(L, V, n, hashed), HereOnly(R, W, n, hashed),
         NEW type, NEW x \in RowSet, NEW y \in RowSet, Home(hashed, x, y) = n
  PROVE  JoinsWithin(Join(L, R, type), Join(V, W, "inner"), Join(V, W, type), x, y)
<1> DEFINE p == PairCount(V, W, x, y)
           q == LonelyCount(V, W, type, x, y)
           r == UnmatchedCount(V, W, type, x, y)
           J == CountIn(Join(L, R, type), {Row(x, y)})
           I == CountIn(Join(V, W, "inner"), {Row(x, y)})
           O == CountIn(Join(V, W, type), {Row(x, y)})
<1>1. p \in Nat /\ q \in Nat /\ r \in Nat /\ I \in Nat /\ O \in Nat /\ J \in Nat
  BY JoinCounts
<1>2. SameJoined(L, R, V, W, type, x, y)
  BY JoinedAtHome
<1>3. V # <<>> /\ W # <<>> => O = p + q + r
  <2>1. V # <<>> /\ W # <<>> => O = JoinedCount(V, W, type, x, y)
    BY JoinCount
  <2>2. QED
    BY <2>1 DEF JoinedCount
<1>4. V # <<>> /\ W # <<>> => I = p
  <2> DEFINE t == "inner"
  <2>1. LonelyCount(V, W, t, x, y) = 0 /\ UnmatchedCount(V, W, t, x, y) = 0
    BY DEF LonelyCount, UnmatchedCount
  <2> HIDE DEF t
  <2>2. V # <<>> /\ W # <<>> => CountIn(Join(V, W, t), {Row(x, y)}) = JoinedCount(V, W, t, x, y)
    BY JoinCount
  <2>3. V # <<>> /\ W # <<>> => CountIn(Join(V, W, t), {Row(x, y)}) = p + 0 + 0
    BY <2>1, <2>2 DEF JoinedCount
  <2>4. V # <<>> /\ W # <<>> => I = p + 0 + 0
    BY <2>3 DEF t
  <2> HIDE DEF p, I
  <2>5. QED
    BY <1>1, <2>4
<1>5. V = <<>> \/ W = <<>> => I = 0
  BY NoJoin, CountNothing
<1>6. CASE L # <<>> /\ R # <<>>
  <2>1. V # <<>> /\ W # <<>>
    BY <1>6, SomethingHere
  <2>2. J = JoinedCount(L, R, type, x, y)
    BY <1>6, JoinCount
  <2>3. J = p + q + r
    BY <1>2, <2>2 DEF JoinedCount, SameJoined
  <2>4. I = p /\ O = p + q + r
    BY <1>3, <1>4, <2>1
  <2>5. I <= J /\ J <= O
    <3> HIDE DEF p, q, r, I, J, O
    <3>1. QED
      BY <1>1, <2>3, <2>4
  <2>6. QED
    BY <2>5 DEF JoinsWithin
<1>7. CASE ~(L # <<>> /\ R # <<>>)
  <2>1. J = 0
    BY <1>7, NoJoin, CountNothing
  <2>2. p = 0
    <3>1. CountIn(L, {x}) = 0 \/ CountIn(R, {y}) = 0
      BY <1>7, CountNothing
    <3>2. CountIn(L, {x}) \in Nat /\ CountIn(R, {y}) \in Nat
      BY SpotsOfRow
    <3>3. CountIn(L, {x}) * CountIn(R, {y}) = 0
      BY <3>1, <3>2
    <3>4. PairCount(L, R, x, y) = 0
      BY <3>3 DEF PairCount
    <3>5. QED
      BY <1>2, <3>4 DEF SameJoined
  <2>3. I = 0
    BY <1>4, <1>5, <2>2
  <2>4. I <= J /\ J <= O
    <3> HIDE DEF I, J, O
    <3>1. QED
      BY <1>1, <2>1, <2>3
  <2>5. QED
    BY <2>4 DEF JoinsWithin
<1>8. QED
  BY <1>6, <1>7

-----------------------------------------------------------------------------
(* The joins of the nodes, between the inner join and the join of all rows.  *)

NodeJoins(O, P, Q, a, b, type) ==
  \A d \in Node : /\ a[d] \in Arrivals(d) /\ b[d] \in Arrivals(d)
                  /\ O[d] = Join(concat_columns(Received(P, d, a[d])),
                                 concat_columns(Received(Q, d, b[d])), type)

LEMMA MergedRow ==
  ASSUME NEW T \in Tables, NEW U \in Tables, NEW P \in [Node -> Tables], NEW Q \in [Node -> Tables],
         NEW hashed \in [Keys -> Node],
         \A m \in Node : KeepsRows(P[m], T[m]), \A m \in Node : PlacedByHash(P[m], hashed),
         \A m \in Node : KeepsRows(Q[m], U[m]), \A m \in Node : PlacedByHash(Q[m], hashed),
         NEW O \in [Node -> Seq(JoinedRow)], NEW a, NEW b, NEW type, NodeJoins(O, P, Q, a, b, type),
         NEW x \in RowSet, NEW y \in RowSet
  PROVE  JoinsWithin(Whole(O), Join(Whole(T), Whole(U), "inner"), Join(Whole(T), Whole(U), type), x, y)
<1> DEFINE V == Whole(T)
           W == Whole(U)
           h == Home(hashed, x, y)
           Z == {Row(x, y)}
           X == JoinedRow
<1>1. V \in Seq(RowSet) /\ W \in Seq(RowSet)
  BY WholeOfParts
<1>2. h \in Node /\ h \in 1 .. N
  BY DEF Home, RowSet, Node
<1> HIDE DEF V, W, h
<1>3. ASSUME NEW d \in Node
      PROVE  /\ d # h => CountIn(O[d], Z) = 0
             /\ d = h => JoinsWithin(O[d], Join(V, W, "inner"), Join(V, W, type), x, y)
  <2> DEFINE i == a[d]
             j == b[d]
             L == concat_columns(Received(P, d, i))
             R == concat_columns(Received(Q, d, j))
  <2>1. i \in Arrivals(d) /\ j \in Arrivals(d) /\ O[d] = Join(L, R, type)
    BY DEF NodeJoins
  <2> HIDE DEF i, j
  <2>2. L \in Seq(RowSet) /\ HereOnly(L, V, d, hashed)
    BY <2>1, HashedHere DEF V
  <2>3. R \in Seq(RowSet) /\ HereOnly(R, W, d, hashed)
    BY <2>1, HashedHere DEF W
  <2> HIDE DEF L, R
  <2>4. ASSUME d # h PROVE CountIn(O[d], Z) = 0
    <3>1. Home(hashed, x, y) # d
      BY <2>4 DEF h
    <3>2. JoinsElsewhere(Join(L, R, type), x, y)
      BY <2>2, <2>3, <3>1, JoinedNowhereElse
    <3>3. QED
      BY <2>1, <3>2 DEF JoinsElsewhere
  <2>5. ASSUME d = h PROVE JoinsWithin(O[d], Join(V, W, "inner"), Join(V, W, type), x, y)
    <3>1. Home(hashed, x, y) = d
      BY <2>5 DEF h
    <3>2. JoinsWithin(Join(L, R, type), Join(V, W, "inner"), Join(V, W, type), x, y)
      BY <1>1, <2>2, <2>3, <3>1, JoinedBetween
    <3>3. QED
      BY <2>1, <3>2
  <2>6. QED
    BY <2>4, <2>5
<1> HIDE DEF X, Z
<1>4. O \in [1 .. N -> Seq(X)] /\ N \in Nat /\ Whole(O) = FlattenSeq(O)
  <2>1. O \in [Node -> Seq(X)]
    BY DEF X
  <2>2. QED
    BY <2>1, WholeType
<1>5. OnlyAt(O, N, Z, h)
  BY <1>3 DEF OnlyAt, Node
<1>6. CountIn(FlattenSeq(O), Z) = CountIn(O[h], Z)
  BY <1>2, <1>4, <1>5, CountOfOnly
<1>7. JoinsWithin(O[h], Join(V, W, "inner"), Join(V, W, type), x, y)
  BY <1>2, <1>3
<1>8. QED
  BY <1>4, <1>6, <1>7 DEF JoinsWithin, Z, V, W

(* Of every row of s there are as many in t, or more.                       *)
Within(s, t) == \A r \in ToSet(s) : Count(s, r) <= Count(t, r)

LEMMA MergedJoins ==
  ASSUME NEW T \in Tables, NEW U \in Tables, NEW P \in [Node -> Tables], NEW Q \in [Node -> Tables],
         NEW hashed \in [Keys -> Node],
         \A m \in Node : KeepsRows(P[m], T[m]), \A m \in Node : PlacedByHash(P[m], hashed),
         \A m \in Node : KeepsRows(Q[m], U[m]), \A m \in Node : PlacedByHash(Q[m], hashed),
         NEW O \in [Node -> Seq(JoinedRow)], NEW a, NEW b, NEW type, NodeJoins(O, P, Q, a, b, type)
  PROVE  /\ Within(Join(Whole(T), Whole(U), "inner"), Whole(O))
         /\ Within(Whole(O), Join(Whole(T), Whole(U), type))
<1> DEFINE V == Whole(T)
           W == Whole(U)
           I == Join(V, W, "inner")
           J == Join(V, W, type)
           G == Whole(O)
           X == JoinedRow
<1>1. V \in Seq(RowSet) /\ W \in Seq(RowSet)
  BY WholeOfParts
<1>2. I \in Seq(X)
  <2> DEFINE t == "inner"
  <2> HIDE DEF V, W, t
  <2>1. Join(V, W, t) \in Seq(JoinedRow)
    BY <1>1, JoinType
  <2>2. QED
    BY <2>1 DEF t
<1>3. G \in Seq(X)
  <2> HIDE DEF X
  <2>1. O \in [Node -> Seq(X)]
    BY DEF X
  <2>2. QED
    BY <2>1, WholeType
<1>4. ASSUME NEW r \in X
      PROVE  CountIn(I, {r}) <= CountIn(G, {r}) /\ CountIn(G, {r}) <= CountIn(J, {r})
  <2> DEFINE x == r.key
             y == r.value
  <2>1. x \in RowSet /\ y \in RowSet /\ r = Row(x, y)
    BY DEF JoinedRow, Row
  <2> HIDE DEF x, y
  <2>2. JoinsWithin(G, I, J, x, y)
    BY <2>1, MergedRow
  <2>3. QED
    BY <2>1, <2>2 DEF JoinsWithin
<1>5. \A s, r : Count(s, r) = CountIn(s, {r})
  BY DEF Count, CountIn
<1> HIDE DEF I, J, G, X
<1>6. ToSet(I) \subseteq X /\ ToSet(G) \subseteq X
  BY <1>2, <1>3 DEF ToSet
<1>7. Within(I, G) /\ Within(G, J)
  BY <1>4, <1>5, <1>6 DEF Within
<1>8. QED
  BY <1>7 DEF I, J, G, V, W

-----------------------------------------------------------------------------
(* The promises of OneNodeOperator, and that its operators are the same ones.*)

LEMMA SameCardinality ==
  ASSUME NEW S
  PROVE  OneNode!Cardinality(S) = Cardinality(S)
BY DEF OneNode!Cardinality, Cardinality

LEMMA SameCount ==
  ASSUME NEW s, NEW t
  PROVE  OneNode!SameRows(s, t) = SameRows(s, t)
<1>1. ASSUME NEW u, NEW r PROVE OneNode!Count(u, r) = Count(u, r)
  BY SameCardinality DEF OneNode!Count, Count
<1>2. QED
  BY <1>1 DEF OneNode!SameRows, SameRows, OneNode!ToSet, ToSet

LEMMA SameSort ==
  ASSUME NEW t, NEW d
  PROVE  OneNode!Sort(t, d) = Sort(t, d)
<1>1. OneNode!OrderBy(t, d) = OrderBy(t, d)
  BY DEF OneNode!OrderBy, OrderBy, OneNode!InOrder, InOrder, OneNode!Cardinality, Cardinality
<1>2. QED
  BY <1>1 DEF OneNode!Sort, Sort, OneNode!Materialize, Materialize, OneNode!NoRow, NoRow,
              OneNode!NullRow, NullRow, OneNode!Row, Row

LEMMA SameGroup ==
  ASSUME NEW t
  PROVE  OneNode!groupby_without_aggregations(t) = groupby_without_aggregations(t)
BY DEF OneNode!groupby_without_aggregations, groupby_without_aggregations, OneNode!InOrder, InOrder,
       OneNode!Row, Row, OneNode!Cardinality, Cardinality, OneNode!KeysOf, KeysOf

LEMMA SameKept ==
  ASSUME NEW t, NEW S
  PROVE  OneNode!Kept(t, S) = Kept(t, S)
BY DEF OneNode!Kept, Kept, OneNode!KeptUpTo, KeptUpTo

LEMMA SameSum ==
  ASSUME NEW t
  PROVE  OneNode!SumOf(t) = SumOf(t)
BY DEF OneNode!SumOf, SumOf

LEMMA SameReduce ==
  ASSUME NEW t, NEW a
  PROVE  OneNode!Reduce(t, a) = Reduce(t, a)
<1>1. OneNode!Values(t) = Values(t)
  BY SameKept DEF OneNode!Values, Values, OneNode!ToSet, ToSet
<1> DEFINE vs == Values(t)
<1>2. OneNode!Reduce(t, a) =
  IF a = "COUNT" THEN Len(vs)
  ELSE IF vs = <<>> THEN Null
  ELSE CASE a = "SUM" -> OneNode!SumOf(vs)
         [] a = "MIN" -> CHOOSE v \in OneNode!ToSet(vs) : \A w \in OneNode!ToSet(vs) : v <= w
         [] a = "MAX" -> CHOOSE v \in OneNode!ToSet(vs) : \A w \in OneNode!ToSet(vs) : v >= w
         [] a = "AVG" -> OneNode!SumOf(vs) \div Len(vs)
  BY <1>1 DEF OneNode!Reduce
<1> HIDE DEF vs
<1>3. OneNode!SumOf(vs) = SumOf(vs) /\ OneNode!ToSet(vs) = ToSet(vs)
  BY SameSum DEF OneNode!ToSet, ToSet
<1>4. QED
  BY <1>2, <1>3 DEF Reduce, vs

LEMMA SameJoin ==
  ASSUME NEW s, NEW t, NEW type
  PROVE  OneNode!Join(s, t, type) = Join(s, t, type)
<1>1. OneNode!JoinIndices(s, t, type) = JoinIndices(s, t, type)
  BY DEF OneNode!JoinIndices, JoinIndices, OneNode!Matches, Matches, OneNode!NoRow, NoRow
<1>2. OneNode!evaluate_join(s, t, type) = evaluate_join(s, t, type)
  BY <1>1 DEF OneNode!evaluate_join, evaluate_join, OneNode!InOrder, InOrder,
              OneNode!JoinBefore, JoinBefore, OneNode!NoRow, NoRow, OneNode!Cardinality, Cardinality
<1>3. QED
  BY <1>2 DEF OneNode!Join, Join, OneNode!Materialize, Materialize, OneNode!NoRow, NoRow,
              OneNode!NullRow, NullRow, OneNode!Row, Row

(* What OneNodeOperator promises, in the terms of this module.              *)
SortedPromise(rows, how, res) ==
  /\ SameRows(res, rows)
  /\ how = "ASC" => [i \in DOMAIN res |-> res[i].key]
                      = [i \in DOMAIN Sort(rows, how) |-> Sort(rows, how)[i].key]
GroupedPromise(rows, res) == SameRows(res, groupby_without_aggregations(rows))
ExactPromise(rows, agg, grouped, res) == SameRows(res, compute_aggregations(rows, agg, grouped))
AveragePromise(rows, agg, grouped, res) ==
  LET exact == compute_aggregations(rows, agg, grouped) IN
  /\ Len(res) = Len(exact)
  /\ \A i \in DOMAIN exact : \E j \in DOMAIN res :
       /\ res[j].key = exact[i].key
       /\ InRange(res[j].value, IF grouped THEN Keyed(rows, exact[i].key) ELSE rows)
JoinedPromise(rows, right, type, res) ==
  Within(Join(rows, right, "inner"), res) /\ Within(res, Join(rows, right, type))

LEMMA SameKeyed ==
  ASSUME NEW t, NEW k
  PROVE  OneNode!Keyed(t, k) = Keyed(t, k)
BY SameKept DEF OneNode!Keyed, Keyed, OneNode!ToSet, ToSet

LEMMA SameAggregations ==
  ASSUME NEW t, NEW agg, NEW grouped
  PROVE  OneNode!compute_aggregations(t, agg, grouped) = compute_aggregations(t, agg, grouped)
<1> DEFINE g == groupby_without_aggregations(t)
<1>1. OneNode!groupby_without_aggregations(t) = g
  BY SameGroup
<1>2. \A k : OneNode!Reduce(OneNode!Keyed(t, k), agg) = Reduce(Keyed(t, k), agg)
  BY SameReduce, SameKeyed
<1>3. OneNode!Reduce(t, agg) = Reduce(t, agg)
  BY SameReduce
<1>4. \A k, v : OneNode!Row(k, v) = Row(k, v)
  BY DEF OneNode!Row, Row
<1> HIDE DEF g
<1>5. OneNode!aggregations_with_groupby(t, agg) = aggregations_with_groupby(t, agg)
  BY <1>1, <1>2, <1>4 DEF OneNode!aggregations_with_groupby, aggregations_with_groupby, g
<1>6. OneNode!aggregations_without_groupby(t, agg) = aggregations_without_groupby(t, agg)
  BY <1>3, <1>4 DEF OneNode!aggregations_without_groupby, aggregations_without_groupby
<1>7. QED
  BY <1>5, <1>6 DEF OneNode!compute_aggregations, compute_aggregations

LEMMA SameBetween ==
  ASSUME NEW v, NEW t
  PROVE  OneNode!Between(v, t) <=> InRange(v, t)
BY SameReduce DEF OneNode!Between, InRange

LEMMA SameContained ==
  ASSUME NEW s, NEW t
  PROVE  OneNode!Contained(s, t) <=> Within(s, t)
<1>1. ASSUME NEW u, NEW r PROVE OneNode!Count(u, r) = Count(u, r)
  BY SameCardinality DEF OneNode!Count, Count
<1>2. QED
  BY <1>1 DEF OneNode!Contained, Within, OneNode!ToSet, ToSet

KeepsPromise(o, rows, right, res) ==
  /\ o.kind = "sort" => SortedPromise(rows, o.how, res)
  /\ o.kind = "group" => GroupedPromise(rows, res)
  /\ o.kind \in {"aggregate", "total"} /\ o.how # "AVG" => ExactPromise(rows, o.how, o.kind = "aggregate", res)
  /\ o.kind \in {"aggregate", "total"} /\ o.how = "AVG" => AveragePromise(rows, o.how, o.kind = "aggregate", res)
  /\ o.kind = "join" => JoinedPromise(rows, right, o.how, res)

LEMMA SamePromise ==
  ASSUME op \in Operator, NEW res, KeepsPromise(op, Whole(table), Whole(other), res)
  PROVE  OneNode!Promised(res)
<1> DEFINE rows == Whole(table)
           right == Whole(other)
<1>1. OneNode!single_node_sort = Sort(rows, op.how)
  BY SameSort DEF OneNode!single_node_sort
<1>2. OneNode!single_node_groupby_without_aggregations = groupby_without_aggregations(rows)
  BY SameGroup DEF OneNode!single_node_groupby_without_aggregations
<1>3. OneNode!single_node_aggregations = compute_aggregations(rows, op.how, op.kind = "aggregate")
  BY SameAggregations DEF OneNode!single_node_aggregations
<1>4. \A type : OneNode!LocalJoin(type) = Join(rows, right, type)
  BY SameJoin DEF OneNode!LocalJoin
<1> HIDE DEF rows, right
<1>5. CASE op.kind = "sort"
  <2>1. op.how \in {"ASC", "DESC"}
    BY <1>5 DEF Operator
  <2>2. SortedPromise(rows, op.how, res)
    BY <1>5 DEF KeepsPromise, rows
  <2>3. SameRows(res, rows) => OneNode!SameRows(res, Whole(table))
    BY SameCount DEF rows
  <2>4. CASE op.how = "ASC"
    <3>1. OneNode!Promised(res) <=>
            /\ OneNode!SameRows(res, Whole(table))
            /\ [i \in DOMAIN res |-> res[i].key]
              = [i \in DOMAIN OneNode!single_node_sort |-> OneNode!single_node_sort[i].key]
      BY <1>5, <2>4 DEF OneNode!Promised
    <3>2. QED
      BY <1>1, <2>2, <2>3, <2>4, <3>1 DEF SortedPromise
  <2>5. CASE op.how = "DESC"
    <3>1. OneNode!Promised(res) <=> OneNode!SameRows(res, Whole(table))
      BY <1>5, <2>5 DEF OneNode!Promised
    <3>2. QED
      BY <2>2, <2>3, <3>1 DEF SortedPromise
  <2>6. QED
    BY <2>1, <2>4, <2>5
<1>6. CASE op.kind = "group"
  <2>1. OneNode!Promised(res) <=> OneNode!SameRows(res, OneNode!single_node_groupby_without_aggregations)
    BY <1>6 DEF OneNode!Promised
  <2>2. GroupedPromise(rows, res)
    BY <1>6 DEF KeepsPromise, rows
  <2>3. QED
    BY <1>2, <2>1, <2>2, SameCount DEF GroupedPromise
<1>7. CASE op.kind \in {"aggregate", "total"} /\ op.how # "AVG"
  <2>1. OneNode!Promised(res) <=> OneNode!SameRows(res, OneNode!single_node_aggregations)
    BY <1>7 DEF OneNode!Promised
  <2>2. ExactPromise(rows, op.how, op.kind = "aggregate", res)
    BY <1>7 DEF KeepsPromise, rows
  <2>3. QED
    BY <1>3, <2>1, <2>2, SameCount DEF ExactPromise
<1>8. CASE op.kind \in {"aggregate", "total"} /\ op.how = "AVG"
  <2> DEFINE exact == compute_aggregations(rows, op.how, op.kind = "aggregate")
  <2>1. OneNode!Promised(res) <=>
         /\ Len(res) = Len(OneNode!single_node_aggregations)
         /\ \A i \in DOMAIN OneNode!single_node_aggregations : \E j \in DOMAIN res :
              /\ res[j].key = OneNode!single_node_aggregations[i].key
              /\ OneNode!Between(res[j].value, IF op.kind = "total" THEN Whole(table)
                                 ELSE OneNode!Keyed(Whole(table), OneNode!single_node_aggregations[i].key))
    BY <1>8 DEF OneNode!Promised
  <2>2. AveragePromise(rows, op.how, op.kind = "aggregate", res)
    BY <1>8 DEF KeepsPromise, rows
  <2>3. /\ Len(res) = Len(exact)
        /\ \A i \in DOMAIN exact : \E j \in DOMAIN res :
             /\ res[j].key = exact[i].key
             /\ InRange(res[j].value, IF op.kind = "aggregate" THEN Keyed(rows, exact[i].key) ELSE rows)
    BY <2>2 DEF AveragePromise
  <2>4. OneNode!single_node_aggregations = exact
    BY <1>3
  <2> HIDE DEF exact
  <2>5. ASSUME NEW i \in DOMAIN exact
        PROVE  (IF op.kind = "total" THEN Whole(table) ELSE OneNode!Keyed(Whole(table), exact[i].key))
                 = IF op.kind = "aggregate" THEN Keyed(rows, exact[i].key) ELSE rows
    BY <1>8, SameKeyed DEF rows
  <2>6. \A i \in DOMAIN exact : \E j \in DOMAIN res :
              /\ res[j].key = exact[i].key
              /\ OneNode!Between(res[j].value, IF op.kind = "total" THEN Whole(table)
                                 ELSE OneNode!Keyed(Whole(table), exact[i].key))
    BY <2>3, <2>5, SameBetween
  <2>7. QED
    BY <2>1, <2>3, <2>4, <2>6
<1>9. CASE op.kind = "join"
  <2>1. OneNode!Promised(res) <=> /\ OneNode!Contained(OneNode!LocalJoin("inner"), res)
                                  /\ OneNode!Contained(res, OneNode!LocalJoin(op.how))
    BY <1>9 DEF OneNode!Promised
  <2>2. JoinedPromise(rows, right, op.how, res)
    BY <1>9 DEF KeepsPromise, rows, right
  <2>3. QED
    BY <1>4, <2>1, <2>2, SameContained DEF JoinedPromise
<1>10. QED
  BY <1>5, <1>6, <1>7, <1>8, <1>9, OperatorKinds

-----------------------------------------------------------------------------
(* Each operator keeps its promise.                                          *)

LEMMA SortPromise ==
  ASSUME NEW T \in Tables, NEW P \in [Node -> Tables], \A m \in Node : KeepsRows(P[m], T[m]),
         NEW how, NEW plan \in [1 .. N - 1 -> Keys],
         how = "ASC" => \A m \in Node : PlacedByPivots(P[m], plan),
         NEW O \in [Node -> Seq(RowSet)], NEW come,
         \A d \in Node : come[d] \in Arrivals(d) /\ O[d] = sortedMerger(Received(P, d, come[d]), how)
  PROVE  SortedPromise(Whole(T), how, Whole(O))
<1> DEFINE W == Whole(T)
           G == Whole(O)
<1>1. ASSUME NEW d \in Node
      PROVE  /\ SameCounts(O[d], Column(P, d)) /\ Sorted(O[d], how)
             /\ \A k \in KeysOf(O[d]) : \E m \in Node : k \in KeysOf(P[m][d])
  <2> DEFINE a == come[d]
  <2>1. a \in Arrivals(d) /\ O[d] = sortedMerger(Received(P, d, a), how)
    OBVIOUS
  <2> HIDE DEF a
  <2>2. LET s == sortedMerger(Received(P, d, a), how) IN
         /\ s \in Seq(RowSet) /\ SameCounts(s, Column(P, d)) /\ Sorted(s, how)
         /\ \A k \in KeysOf(s) : \E m \in Node : k \in KeysOf(P[m][d])
    BY <2>1, SortMerged
  <2>3. QED
    BY <2>1, <2>2
<1>2. SameCounts(G, W)
  BY <1>1, MergedHaveAll
<1>3. SameRows(G, W)
  <2> HIDE DEF G, W
  <2>1. QED
    BY <1>2, CountedRows
<1>4. W \in Seq(RowSet)
  BY WholeOfParts
<1>5. G \in Seq(RowSet)
  <2> DEFINE X == RowSet
  <2>1. O \in [Node -> Seq(X)]
    OBVIOUS
  <2> HIDE DEF X
  <2>2. Whole(O) \in Seq(X)
    BY <2>1, WholeType
  <2>3. QED
    BY <2>2 DEF X
<1>6. ASSUME how = "ASC"
      PROVE  [i \in DOMAIN G |-> G[i].key] = [i \in DOMAIN Sort(W, how) |-> Sort(W, how)[i].key]
  <2> DEFINE s == Sort(W, how)
  <2>1. \A d \in Node : Sorted(O[d], "ASC")
    BY <1>1, <1>6
  <2>2. \A m \in Node : PlacedByPivots(P[m], plan)
    BY <1>6
  <2>3. Sorted(G, "ASC")
    BY <1>1, <2>1, <2>2, MergedInOrder
  <2> HIDE DEF W, G
  <2>4. Sorts(s, W, how)
    BY <1>4, SortOrders
  <2>5. s \in Seq(RowSet) /\ Sorted(s, "ASC")
    BY <1>6, <2>4 DEF Sorts
  <2>6. SameCounts(s, W)
    BY <1>4, KeysOfSort
  <2>7. SameCounts(G, s)
    BY <1>2, <2>6 DEF SameCounts
  <2> HIDE DEF s
  <2>8. [i \in DOMAIN G |-> G[i].key] = [i \in DOMAIN s |-> s[i].key]
    BY <1>5, <2>3, <2>5, <2>7, SortedAlike
  <2>9. QED
    BY <2>8 DEF s
<1>7. QED
  BY <1>3, <1>6 DEF SortedPromise

LEMMA GroupPromise ==
  ASSUME NEW T \in Tables, NEW P \in [Node -> Tables], pivots \in [1 .. N - 1 -> Keys],
         \A m \in Node : P[m] = partitionData(groupby_without_aggregations(T[m]), FALSE),
         NEW O \in [Node -> Seq(RowSet)], NEW come,
         \A d \in Node : come[d] \in Arrivals(d)
                         /\ O[d] = groupByWithoutAggregationsMerger(Received(P, d, come[d]))
  PROVE  GroupedPromise(Whole(T), Whole(O))
<1>1. \A d \in Node : \E a \in Arrivals(d) : O[d] = groupByWithoutAggregationsMerger(Received(P, d, a))
  OBVIOUS
<1>2. SameCounts(Whole(O), groupby_without_aggregations(Whole(T)))
  BY <1>1, MergedGroups
<1> DEFINE G == Whole(O)
           g == groupby_without_aggregations(Whole(T))
<1>3. SameCounts(G, g)
  BY <1>2
<1> HIDE DEF G, g
<1>4. SameRows(G, g)
  BY <1>3, CountedRows
<1>5. QED
  BY <1>4 DEF G, g, GroupedPromise

LEMMA AggregatePromise ==
  ASSUME NEW T \in Tables, NEW P \in [Node -> Tables], pivots \in [1 .. N - 1 -> Keys],
         NEW agg \in Aggregation, agg # "AVG",
         \A m \in Node : P[m] = partitionData(compute_aggregations(T[m], agg, TRUE), FALSE),
         NEW O \in [Node -> Seq(RowSet)], NEW come,
         \A d \in Node : come[d] \in Arrivals(d)
                         /\ O[d] = aggregationsMerger(Received(P, d, come[d]), agg, TRUE)
  PROVE  ExactPromise(Whole(T), agg, TRUE, Whole(O))
<1>1. SameCounts(Whole(O), compute_aggregations(Whole(T), agg, TRUE))
  BY MergedAggregates
<1> DEFINE G == Whole(O)
           g == compute_aggregations(Whole(T), agg, TRUE)
<1>2. SameCounts(G, g)
  BY <1>1
<1> HIDE DEF G, g
<1>3. SameRows(G, g)
  BY <1>2, CountedRows
<1>4. QED
  BY <1>3 DEF G, g, ExactPromise

LEMMA GroupAveragePromise ==
  ASSUME NEW T \in Tables, NEW P \in [Node -> Tables], pivots \in [1 .. N - 1 -> Keys],
         NEW agg, agg = "AVG",
         \A m \in Node : P[m] = partitionData(compute_aggregations(T[m], agg, TRUE), FALSE),
         NEW O \in [Node -> Seq(RowSet)], NEW come,
         \A d \in Node : come[d] \in Arrivals(d)
                         /\ O[d] = aggregationsMerger(Received(P, d, come[d]), agg, TRUE)
  PROVE  AveragePromise(Whole(T), agg, TRUE, Whole(O))
<1>1. Averaged(Whole(O), compute_aggregations(Whole(T), agg, TRUE), Whole(T))
  BY MergedAverages
<1>2. QED
  BY <1>1 DEF Averaged, AveragePromise

LEMMA TotalsPromise ==
  ASSUME NEW T \in Tables, NEW agg \in Aggregation, NEW G \in Seq(RowSet),
         TotalKept(G, Whole(T), agg)
  PROVE  /\ agg # "AVG" => ExactPromise(Whole(T), agg, FALSE, G)
         /\ agg = "AVG" => AveragePromise(Whole(T), agg, FALSE, G)
<1> DEFINE W == Whole(T)
           e == compute_aggregations(W, agg, FALSE)
<1>1. e = <<Row(NullKey, Reduce(W, agg))>>
  BY DEF compute_aggregations, aggregations_without_groupby
<1>2. ASSUME agg # "AVG" PROVE ExactPromise(W, agg, FALSE, G)
  <2>1. SameCounts(G, e)
    BY <1>1, <1>2 DEF TotalKept
  <2> HIDE DEF e
  <2>2. SameRows(G, e)
    BY <2>1, CountedRows
  <2>3. QED
    BY <2>2 DEF ExactPromise, e
<1>3. ASSUME agg = "AVG" PROVE AveragePromise(W, agg, FALSE, G)
  <2>1. PICK v \in Value : SameCounts(G, <<Row(NullKey, v)>>) /\ InRange(v, W)
    BY <1>3 DEF TotalKept
  <2> DEFINE r == Row(NullKey, v)
             t == <<r>>
             X == RowSet
  <2>2. r \in X /\ r.key = NullKey /\ r.value = v
    BY NullKeyIsLargest DEF Row, RowSet, Value
  <2>3. SameCounts(G, t) /\ G \in Seq(X)
    BY <2>1
  <2> HIDE DEF r, X
  <2>4. t \in Seq(X) /\ Len(t) = 1 /\ ToSet(t) = {r}
    BY <2>2 DEF ToSet
  <2> HIDE DEF t
  <2>5. ToSet(G) = {r} /\ Len(G) = 1
    BY <2>3, <2>4, AlikeElements
  <2>6. 1 \in DOMAIN G /\ G[1] = r
    BY <2>3, <2>5 DEF ToSet
  <2>7. Len(e) = 1 /\ DOMAIN e = {1} /\ e[1].key = NullKey
    <3> DEFINE x == Row(NullKey, Reduce(W, agg))
    <3>1. e = <<x>> /\ x.key = NullKey
      BY <1>1 DEF Row
    <3> HIDE DEF e, x
    <3>2. QED
      BY <3>1
  <2>8. G[1].key = e[1].key /\ InRange(G[1].value, W)
    BY <2>1, <2>2, <2>6, <2>7
  <2> HIDE DEF e, W
  <2>9. \A i \in DOMAIN e : \E j \in DOMAIN G : G[j].key = e[i].key /\ InRange(G[j].value, W)
    BY <2>6, <2>7, <2>8
  <2>10. QED
    BY <2>5, <2>7, <2>9 DEF AveragePromise, e
<1>4. QED
  BY <1>2, <1>3 DEF W

-----------------------------------------------------------------------------
(* What the nodes merge was made of their tables.                            *)

(* What the nodes merge is what they made of their tables.                  *)
Made == stage = "merge" => parts = [n \in Node |-> Partitions(table[n])]

LEMMA InitMade == Init => Made
BY DEF Init, Made

LEMMA NextMade == Made /\ [Next]_vars => Made'
<1> SUFFICES ASSUME Made, [Next]_vars PROVE Made'
  OBVIOUS
<1>1. ASSUME Plan PROVE Made'
  BY <1>1 DEF Plan, Made
<1>2. ASSUME Distribute PROVE Made'
  <2>1. /\ op' = op /\ table' = table /\ hash' = hash /\ pivots' = pivots
        /\ parts' = [n \in Node |-> Partitions(table[n])]
    BY <1>2 DEF Distribute, inputs
  <2>2. ASSUME NEW t PROVE Partitions(t)' = Partitions(t)
    BY <2>1 DEF Partitions, partitionData, generateJoinPartitions
  <2>3. [n \in Node |-> Partitions(table[n])]' = [n \in Node |-> Partitions(table[n])]
    BY <2>1 DEF Partitions, partitionData, generateJoinPartitions
  <2>4. QED
    BY <2>1, <2>3 DEF Made
<1>3. ASSUME Merge PROVE Made'
  BY <1>3 DEF Merge, Made
<1>4. ASSUME UNCHANGED vars PROVE Made'
  <2>1. /\ op' = op /\ table' = table /\ hash' = hash /\ pivots' = pivots
        /\ parts' = parts /\ stage' = stage
    BY <1>4 DEF vars, inputs
  <2>2. [n \in Node |-> Partitions(table[n])]' = [n \in Node |-> Partitions(table[n])]
    BY <2>1 DEF Partitions, partitionData, generateJoinPartitions
  <2>3. QED
    BY <2>1, <2>2 DEF Made
<1>5. QED
  BY <1>1, <1>2, <1>3, <1>4 DEF Next

LEMMA MergedIsRows ==
  ASSUME NEW P \in [Node -> Tables], NEW d \in Node, NEW a \in Arrivals(d)
  PROVE  /\ \A how : sortedMerger(Received(P, d, a), how) \in Seq(RowSet)
         /\ groupByWithoutAggregationsMerger(Received(P, d, a)) \in Seq(RowSet)
         /\ \A agg \in Aggregation : \A grouped \in BOOLEAN :
              aggregationsMerger(Received(P, d, a), agg, grouped) \in Seq(RowSet)
         /\ concat_columns(Received(P, d, a)) \in Seq(RowSet)
<1> DEFINE c == Received(P, d, a)
           f == FlattenSeq(c)
           X == RowSet
<1>1. c \in [1 .. N -> Seq(X)]
  BY ReceivedParts
<1>2. f \in Seq(X)
  BY Flowed
<1>3. ASSUME NEW how PROVE sortedMerger(c, how) \in Seq(RowSet)
  <2>1. LET s == sortedMerger(Received(P, d, a), how) IN
         /\ s \in Seq(RowSet) /\ SameCounts(s, Column(P, d)) /\ Sorted(s, how)
         /\ \A k \in KeysOf(s) : \E m \in Node : k \in KeysOf(P[m][d])
    BY SortMerged
  <2>2. QED
    BY <2>1
<1> HIDE DEF c
<1>4. groupByWithoutAggregationsMerger(c) \in Seq(RowSet)
  <2>1. f \in Seq(RowSet)
    BY <1>2
  <2> HIDE DEF f
  <2>2. groupby_without_aggregations(f) \in Seq(RowSet)
    BY <2>1, KeysOfGroups
  <2>3. QED
    BY <2>2 DEF groupByWithoutAggregationsMerger, f
<1>5. ASSUME NEW agg \in Aggregation, NEW grouped \in BOOLEAN
      PROVE  aggregationsMerger(c, agg, grouped) \in Seq(RowSet)
  <2> DEFINE m == MergedWith(agg)
  <2>1. m \in Aggregation /\ f \in Seq(RowSet)
    BY <1>2 DEF MergedWith, Aggregation
  <2>2. aggregationsMerger(c, agg, grouped) = IF f = <<>> THEN c[1] ELSE compute_aggregations(f, m, grouped)
    BY DEF aggregationsMerger
  <2>3. c[1] \in Seq(RowSet)
    BY <1>1, Distributed DEF X
  <2> HIDE DEF f, m
  <2>4. compute_aggregations(f, m, TRUE) \in Seq(RowSet) /\ compute_aggregations(f, m, FALSE) \in Seq(RowSet)
    BY <2>1, AggregatedRows
  <2>5. QED
    BY <2>2, <2>3, <2>4
<1>6. concat_columns(c) \in Seq(RowSet)
  <2> HIDE DEF X
  <2>1. concat_columns(c) \in Seq(X)
    BY <1>1, OwnPartFirst
  <2>2. QED
    BY <2>1 DEF X
<1>7. QED
  BY <1>3, <1>4, <1>5, <1>6 DEF c

-----------------------------------------------------------------------------
(* The step in which the nodes merge, operator by operator.                  *)

LEMMA TableIsNotPending ==
  ASSUME NEW O, O \in [Node -> Seq(RowSet)] \/ O \in [Node -> Seq(JoinedRow)]
  PROVE  Whole(O) # Pending
<1> DEFINE X == RowSet
           Y == JoinedRow
<1>1. Pending \notin Seq(X) /\ Pending \notin Seq(Y)
  BY PendingIsNoTable DEF RowSet, JoinedRow
<1>2. O \in [Node -> Seq(X)] \/ O \in [Node -> Seq(Y)]
  OBVIOUS
<1> HIDE DEF X, Y
<1>3. O \in [Node -> Seq(X)] => Whole(O) \in Seq(X)
  BY WholeType
<1>4. O \in [Node -> Seq(Y)] => Whole(O) \in Seq(Y)
  BY WholeType
<1>5. QED
  BY <1>1, <1>2, <1>3, <1>4

(* O is what the nodes merge, each of its parts in the order come gives.    *)
Comes(O, come) ==
  /\ O = [d \in Node |-> O[d]]
  /\ \A d \in Node : come[d] \in Arrivals(d) /\ O[d] = Merged(d, Received(parts, d, come[d]), <<>>)

(* What the nodes merged is a table, and keeps the promise of the operator. *)
KeepsAll(O) == KeepsPromise(op, Whole(table), Whole(other), Whole(O)) /\ Whole(O) # Pending

LEMMA PartsOfNodes ==
  ASSUME IInv, Made, stage = "merge"
  PROVE  /\ table \in Tables /\ other \in Tables /\ op \in Operator /\ hash \in [Keys -> Node]
         /\ parts \in [Node -> Tables] /\ others \in [Node -> Tables]
         /\ Sampled => pivots \in [1 .. N - 1 -> Keys]
         /\ \A n \in Node : parts[n] = Partitions(table[n])
         /\ \A n \in Node : /\ IsSplit(parts[n], table[n])
                            /\ op.kind = "join" => IsSplit(others[n], other[n])
BY DEF IInv, TypeOK, Made

LEMMA SortKeeps ==
  ASSUME IInv, Made, stage = "merge", op.kind = "sort", NEW O, NEW come, Comes(O, come)
  PROVE  KeepsAll(O)
<1>1. /\ table \in Tables /\ parts \in [Node -> Tables] /\ pivots \in [1 .. N - 1 -> Keys]
      /\ \A n \in Node : KeepsRows(parts[n], table[n])
      /\ op.how = "ASC" => \A n \in Node : PlacedByPivots(parts[n], pivots)
  BY PartsOfNodes DEF IsSplit, Placed, Sampled
<1> DEFINE T == table
           P == parts
           how == op.how
           plan == pivots
<1>2. \A d \in Node : come[d] \in Arrivals(d) /\ O[d] = sortedMerger(Received(P, d, come[d]), how)
  BY DEF Comes, Merged
<1>3. O \in [Node -> Seq(RowSet)]
  <2>1. ASSUME NEW d \in Node PROVE O[d] \in Seq(RowSet)
    <3> DEFINE a == come[d]
    <3>1. a \in Arrivals(d) /\ O[d] = sortedMerger(Received(P, d, a), how)
      BY <1>2
    <3> HIDE DEF a, how
    <3>2. QED
      BY <1>1, <3>1, MergedIsRows
  <2>2. O = [d \in Node |-> O[d]]
    BY DEF Comes
  <2>3. QED
    BY <2>1, <2>2
<1>4. SortedPromise(Whole(T), how, Whole(O))
  <2>1. /\ T \in Tables /\ P \in [Node -> Tables] /\ plan \in [1 .. N - 1 -> Keys]
        /\ \A n \in Node : KeepsRows(P[n], T[n])
        /\ how = "ASC" => \A n \in Node : PlacedByPivots(P[n], plan)
    BY <1>1
  <2> HIDE DEF T, P, how, plan
  <2>2. QED
    BY <1>2, <1>3, <2>1, SortPromise
<1>5. Whole(O) # Pending
  BY <1>3, TableIsNotPending
<1>6. QED
  BY <1>4, <1>5 DEF KeepsAll, KeepsPromise

LEMMA GroupKeeps ==
  ASSUME IInv, Made, stage = "merge", op.kind = "group", NEW O, NEW come, Comes(O, come)
  PROVE  KeepsAll(O)
<1>1. /\ table \in Tables /\ parts \in [Node -> Tables] /\ pivots \in [1 .. N - 1 -> Keys]
      /\ \A n \in Node : parts[n] = Partitions(table[n])
  BY PartsOfNodes DEF Sampled
<1> DEFINE T == table
           P == parts
<1>2. \A d \in Node : come[d] \in Arrivals(d)
                      /\ O[d] = groupByWithoutAggregationsMerger(Received(P, d, come[d]))
  BY DEF Comes, Merged
<1>3. O \in [Node -> Seq(RowSet)]
  <2>1. ASSUME NEW d \in Node PROVE O[d] \in Seq(RowSet)
    <3> DEFINE a == come[d]
    <3>1. a \in Arrivals(d) /\ O[d] = groupByWithoutAggregationsMerger(Received(P, d, a))
      BY <1>2
    <3> HIDE DEF a
    <3>2. QED
      BY <1>1, <3>1, MergedIsRows
  <2>2. O = [d \in Node |-> O[d]]
    BY DEF Comes
  <2>3. QED
    BY <2>1, <2>2
<1>4. GroupedPromise(Whole(T), Whole(O))
  <2>1. /\ T \in Tables /\ P \in [Node -> Tables]
        /\ \A m \in Node : P[m] = partitionData(groupby_without_aggregations(T[m]), FALSE)
    BY <1>1 DEF Partitions
  <2> HIDE DEF T, P
  <2>2. QED
    BY <1>1, <1>2, <1>3, <2>1, GroupPromise
<1>5. Whole(O) # Pending
  BY <1>3, TableIsNotPending
<1>6. QED
  BY <1>4, <1>5 DEF KeepsAll, KeepsPromise

LEMMA AggregateKeeps ==
  ASSUME IInv, Made, stage = "merge", op.kind = "aggregate", NEW O, NEW come, Comes(O, come)
  PROVE  KeepsAll(O)
<1>1. /\ table \in Tables /\ parts \in [Node -> Tables] /\ pivots \in [1 .. N - 1 -> Keys]
      /\ \A n \in Node : parts[n] = Partitions(table[n])
      /\ op \in Operator
  BY PartsOfNodes DEF Sampled
<1> DEFINE T == table
           P == parts
           agg == op.how
<1>2. \A d \in Node : come[d] \in Arrivals(d) /\ O[d] = aggregationsMerger(Received(P, d, come[d]), agg, TRUE)
  BY DEF Comes, Merged
<1>0. agg \in Aggregation
  BY <1>1, OperatorKinds
<1>3. O \in [Node -> Seq(RowSet)]
  <2>1. ASSUME NEW d \in Node PROVE O[d] \in Seq(RowSet)
    <3> DEFINE a == come[d]
    <3>1. a \in Arrivals(d) /\ O[d] = aggregationsMerger(Received(P, d, a), agg, TRUE)
      BY <1>2
    <3> HIDE DEF a, agg
    <3>2. QED
      BY <1>0, <1>1, <3>1, MergedIsRows
  <2>2. O = [d \in Node |-> O[d]]
    BY DEF Comes
  <2>3. QED
    BY <2>1, <2>2
<1>4. /\ T \in Tables /\ P \in [Node -> Tables]
      /\ \A m \in Node : P[m] = partitionData(compute_aggregations(T[m], agg, TRUE), FALSE)
  BY <1>1 DEF Partitions
<1>5. agg # "AVG" => ExactPromise(Whole(T), agg, TRUE, Whole(O))
  <2> HIDE DEF T, P, agg
  <2>1. QED
    BY <1>0, <1>1, <1>2, <1>3, <1>4, AggregatePromise
<1>6. agg = "AVG" => AveragePromise(Whole(T), agg, TRUE, Whole(O))
  <2> HIDE DEF T, P, agg
  <2>1. QED
    BY <1>1, <1>2, <1>3, <1>4, GroupAveragePromise
<1>7. Whole(O) # Pending
  BY <1>3, TableIsNotPending
<1>8. QED
  BY <1>5, <1>6, <1>7 DEF KeepsAll, KeepsPromise

LEMMA TotalKeeps ==
  ASSUME IInv, Made, stage = "merge", op.kind = "total", NEW O, NEW come, Comes(O, come)
  PROVE  KeepsAll(O)
<1>1. /\ table \in Tables /\ parts \in [Node -> Tables]
      /\ \A n \in Node : parts[n] = Partitions(table[n])
      /\ op \in Operator
  BY PartsOfNodes
<1> DEFINE T == table
           P == parts
           agg == op.how
<1>2. \A d \in Node :
        come[d] \in Arrivals(d)
        /\ O[d] = IF d = Master THEN aggregationsMerger(Received(P, d, come[d]), agg, FALSE) ELSE <<>>
  BY DEF Comes, Merged
<1>0. agg \in Aggregation
  BY <1>1, OperatorKinds
<1>3. O \in [Node -> Seq(RowSet)]
  <2>1. ASSUME NEW d \in Node PROVE O[d] \in Seq(RowSet)
    <3> DEFINE a == come[d]
               s == aggregationsMerger(Received(P, d, a), agg, FALSE)
    <3>1. a \in Arrivals(d) /\ O[d] = IF d = Master THEN s ELSE <<>>
      BY <1>2
    <3> HIDE DEF a, agg
    <3>2. s \in Seq(RowSet)
      BY <1>0, <1>1, <3>1, MergedIsRows
    <3> HIDE DEF s
    <3>3. QED
      BY <3>1, <3>2
  <2>2. O = [d \in Node |-> O[d]]
    BY DEF Comes
  <2>3. QED
    BY <2>1, <2>2
<1>4. /\ T \in Tables /\ P \in [Node -> Tables]
      /\ \A m \in Node : P[m] = ToMaster(compute_aggregations(T[m], agg, FALSE))
  BY <1>1 DEF Partitions
<1>5. TotalKept(Whole(O), Whole(T), agg)
  <2> HIDE DEF T, P, agg
  <2>1. QED
    BY <1>0, <1>2, <1>3, <1>4, MergedTotal
<1>6. Whole(O) \in Seq(RowSet)
  <2> DEFINE X == RowSet
  <2>1. O \in [Node -> Seq(X)]
    BY <1>3
  <2> HIDE DEF X
  <2>2. Whole(O) \in Seq(X)
    BY <2>1, WholeType
  <2>3. QED
    BY <2>2 DEF X
<1>7. /\ agg # "AVG" => ExactPromise(Whole(T), agg, FALSE, Whole(O))
      /\ agg = "AVG" => AveragePromise(Whole(T), agg, FALSE, Whole(O))
  <2> DEFINE G == Whole(O)
  <2>1. G \in Seq(RowSet) /\ TotalKept(G, Whole(T), agg)
    BY <1>5, <1>6
  <2> HIDE DEF T, agg, G
  <2>2. /\ agg # "AVG" => ExactPromise(Whole(T), agg, FALSE, G)
        /\ agg = "AVG" => AveragePromise(Whole(T), agg, FALSE, G)
    BY <1>0, <1>4, <2>1, TotalsPromise
  <2>3. QED
    BY <2>2 DEF G
<1>8. Whole(O) # Pending
  BY <1>3, TableIsNotPending
<1>9. QED
  BY <1>7, <1>8 DEF KeepsAll, KeepsPromise

(* For a join a gives the order of the left parts, b that of the right ones. *)
LEMMA JoinKeeps ==
  ASSUME IInv, Made, stage = "merge", op.kind = "join", NEW O, O = [d \in Node |-> O[d]], NEW a, NEW b,
         NodeJoins(O, parts, others, a, b, op.how)
  PROVE  KeepsAll(O)
<1>1. /\ table \in Tables /\ other \in Tables /\ parts \in [Node -> Tables] /\ others \in [Node -> Tables]
      /\ op \in Operator /\ hash \in [Keys -> Node]
      /\ \A n \in Node : IsSplit(parts[n], table[n]) /\ IsSplit(others[n], other[n])
  BY PartsOfNodes
<1>2. op.how # "DESC"
  BY <1>1, OperatorKinds
<1>3. \A n \in Node : /\ KeepsRows(parts[n], table[n]) /\ PlacedByHash(parts[n], hash)
                      /\ KeepsRows(others[n], other[n]) /\ PlacedByHash(others[n], hash)
  BY <1>1, <1>2 DEF IsSplit, Placed
<1> DEFINE T == table
           U == other
           P == parts
           Q == others
           h == hash
           type == op.how
<1>4. O \in [Node -> Seq(JoinedRow)]
  <2>1. ASSUME NEW d \in Node PROVE O[d] \in Seq(JoinedRow)
    <3> DEFINE i == a[d]
               j == b[d]
               L == concat_columns(Received(P, d, i))
               R == concat_columns(Received(Q, d, j))
    <3>1. i \in Arrivals(d) /\ j \in Arrivals(d) /\ O[d] = Join(L, R, type)
      BY DEF NodeJoins
    <3> HIDE DEF i, j
    <3>2. L \in Seq(RowSet) /\ R \in Seq(RowSet)
      BY <1>1, <3>1, MergedIsRows
    <3> HIDE DEF L, R, type
    <3>3. QED
      BY <3>1, <3>2, JoinType
  <2>2. QED
    BY <2>1
<1>5. /\ T \in Tables /\ U \in Tables /\ P \in [Node -> Tables] /\ Q \in [Node -> Tables]
      /\ h \in [Keys -> Node] /\ NodeJoins(O, P, Q, a, b, type)
      /\ \A m \in Node : KeepsRows(P[m], T[m])
      /\ \A m \in Node : PlacedByHash(P[m], h)
      /\ \A m \in Node : KeepsRows(Q[m], U[m])
      /\ \A m \in Node : PlacedByHash(Q[m], h)
  BY <1>1, <1>3
<1>6. JoinedPromise(Whole(T), Whole(U), type, Whole(O))
  <2> HIDE DEF T, U, P, Q, h, type
  <2>1. /\ Within(Join(Whole(T), Whole(U), "inner"), Whole(O))
        /\ Within(Whole(O), Join(Whole(T), Whole(U), type))
    BY <1>4, <1>5, MergedJoins
  <2>2. QED
    BY <2>1 DEF JoinedPromise
<1>7. Whole(O) # Pending
  BY <1>4, TableIsNotPending
<1>8. QED
  BY <1>6, <1>7 DEF KeepsAll, KeepsPromise

-----------------------------------------------------------------------------
(* The operators on many nodes implement those on one.                       *)

LEMMA MergeKeeps ==
  ASSUME IInv, Made, stage = "merge", NEW O, O = [n \in Node |-> O[n]],
         \A n \in Node : O[n] \in Merges(n)
  PROVE  KeepsAll(O)
<1>0. op \in Operator
  BY DEF IInv
<1>1. CASE op.kind = "join"
  <2>1. \A n \in Node : \E i, j \in Arrivals(n) :
          O[n] = Join(concat_columns(Received(parts, n, i)), concat_columns(Received(others, n, j)), op.how)
    BY <1>1 DEF Merges, Merged
  <2> DEFINE Meets(n, i, j) ==
        O[n] = Join(concat_columns(Received(parts, n, i)), concat_columns(Received(others, n, j)), op.how)
             a == [n \in Node |-> CHOOSE i \in Arrivals(n) : \E j \in Arrivals(n) : Meets(n, i, j)]
             b == [n \in Node |-> CHOOSE j \in Arrivals(n) : Meets(n, a[n], j)]
  <2>2. \A n \in Node : \E i \in Arrivals(n) : \E j \in Arrivals(n) : Meets(n, i, j)
    BY <2>1
  <2> HIDE DEF Meets
  <2>3. \A n \in Node : a[n] \in Arrivals(n) /\ \E j \in Arrivals(n) : Meets(n, a[n], j)
    BY <2>2
  <2> HIDE DEF a
  <2>4. \A n \in Node : b[n] \in Arrivals(n) /\ Meets(n, a[n], b[n])
    BY <2>3
  <2> HIDE DEF b
  <2>5. NodeJoins(O, parts, others, a, b, op.how)
    BY <2>3, <2>4 DEF NodeJoins, Meets
  <2>6. QED
    BY <1>1, <2>5, JoinKeeps
<1>2. CASE op.kind # "join"
  <2> DEFINE Meets(n, i) == O[n] = Merged(n, Received(parts, n, i), <<>>)
             come == [n \in Node |-> CHOOSE i \in Arrivals(n) : Meets(n, i)]
  <2>1. \A n \in Node : \E i \in Arrivals(n) : Meets(n, i)
    BY <1>2 DEF Merges
  <2> HIDE DEF Meets
  <2>2. \A n \in Node : come[n] \in Arrivals(n) /\ Meets(n, come[n])
    BY <2>1
  <2> HIDE DEF come
  <2>3. Comes(O, come)
    BY <2>2 DEF Comes, Meets
  <2>4. op.kind \in {"sort", "group", "aggregate", "total"}
    BY <1>0, <1>2, OperatorKinds
  <2>5. QED
    BY <2>3, <2>4, SortKeeps, GroupKeeps, AggregateKeeps, TotalKeeps
<1>3. QED
  BY <1>1, <1>2

NoResult == [n \in Node |-> Pending]

LEMMA MergeEvaluates ==
  ASSUME IInv, Made, Merge
  PROVE  OneNode!Evaluate
<1>1. /\ stage = "merge" /\ stage' = "done" /\ UNCHANGED inputs
      /\ output' \in {o \in [Node -> UNION {Merges(n) : n \in Node}] : \A n \in Node : o[n] \in Merges(n)}
  BY DEF Merge
<1>2. PICK O : O = output'
  OBVIOUS
<1>3. O = [n \in Node |-> O[n]] /\ \A n \in Node : O[n] \in Merges(n)
  BY <1>1, <1>2
<1>4. KeepsAll(O)
  BY <1>1, <1>3, MergeKeeps
<1> DEFINE res == Whole(O)
<1>5. OneNode!Promised(res)
  <2>1. op \in Operator
    BY DEF IInv
  <2>2. KeepsPromise(op, Whole(table), Whole(other), res)
    BY <1>4 DEF KeepsAll
  <2> HIDE DEF res
  <2>3. QED
    BY <2>1, <2>2, SamePromise
<1>6. res # Pending
  BY <1>4 DEF KeepsAll
<1>7. (IF Done THEN Whole(output) ELSE Pending) = Pending /\ (IF Done THEN Whole(output) ELSE Pending)' = res
  BY <1>1, <1>2 DEF Done
<1>8. UNCHANGED <<op, Whole(table), Whole(other)>>
  BY <1>1 DEF inputs
<1> HIDE DEF res
<1>9. QED
  BY <1>5, <1>6, <1>7, <1>8 DEF OneNode!Evaluate

LEMMA OthersStutter ==
  ASSUME IInv, Plan \/ Distribute \/ UNCHANGED vars
  PROVE  UNCHANGED OneNode!vars
<1>1. UNCHANGED <<op, table, other, output>> /\ (Done' <=> Done)
  BY DEF Plan, Distribute, vars, inputs, Done
<1>2. QED
  BY <1>1 DEF OneNode!vars

(* An operator on many nodes keeps the promises of one node.                *)
THEOREM ImplementsOneNode == Spec => AsOnOneNode
<1>1. Init => OneNode!Init
  BY DEF Init, OneNode!Init, Done, Sampled
<1>2. IInv /\ Made /\ [Next]_vars => [OneNode!Evaluate]_(OneNode!vars)
  BY MergeEvaluates, OthersStutter DEF Next
<1>3. QED
  BY <1>1, <1>2, InitIInv, NextIInv, InitMade, NextMade, PTL DEF Spec, AsOnOneNode, OneNode!Spec
=============================================================================
