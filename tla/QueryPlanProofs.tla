--------------------------- MODULE QueryPlanProofs ---------------------------
(***************************************************************************)
(* evaluate_split_query finds the tree in the lines: whatever plan Calcite *)
(* makes, each operator gets the frames of its own inputs, in the order of *)
(* the tree.  First the tree, then the frames, then the stack of calls.    *)
(***************************************************************************)
EXTENDS QueryPlan, ListsProofs

IsPlan(p) ==
  /\ DOMAIN p = 1 .. Len(p) /\ Len(p) \in Nat /\ IsTree(p)
  /\ \A i \in DOMAIN p : p[i].op \in Double \cup Single \cup Leaf /\ HasColumns(p[i])

(* Nothing after the line is under a line of that depth; the part is a     *)
(* line and everything under it.                                           *)
Ends(p, last, depth) == last = Len(p) \/ p[last + 1].depth <= depth
IsSubtree(p, first, last) ==
  /\ first \in 1 .. Len(p) /\ last \in 1 .. Len(p) /\ first <= last
  /\ Ends(p, last, p[first].depth)
  /\ \A j \in first + 1 .. last : p[j].depth > p[first].depth

(* The line that a call of the part takes for the beginning of the right   *)
(* input.                                                                  *)
RightsOf(p, first, last, depth) == {i \in first + 2 .. last : p[i].depth - depth = 1}
StartOf(p, first, last, depth) ==
  IF RightsOf(p, first, last, depth) = {} THEN first + 2
  ELSE CHOOSE i \in RightsOf(p, first, last, depth) :
         \A j \in RightsOf(p, first, last, depth) : j <= i

-----------------------------------------------------------------------------
LEMMA Depths ==
  ASSUME NEW p, IsPlan(p)
  PROVE  /\ Len(p) \in Nat \ {0} /\ DOMAIN p = 1 .. Len(p) /\ p[1].depth = 0
         /\ \A i \in 1 .. Len(p) : p[i].depth \in Nat
         /\ \A i \in 2 .. Len(p) : p[i].depth >= 1 /\ p[i].depth <= p[i - 1].depth + 1
<1>1. /\ DOMAIN p = 1 .. Len(p) /\ Len(p) \in Nat /\ Len(p) > 0 /\ p[1].depth = 0
      /\ \A i \in 2 .. Len(p) : p[i].depth \in 1 .. p[i - 1].depth + 1
  BY DEF IsPlan, IsTree
<1>2. \A i \in 2 .. Len(p) :
        p[i].depth \in Int /\ p[i].depth >= 1 /\ (p[i - 1].depth \in Int => p[i].depth <= p[i - 1].depth + 1)
  BY <1>1
<1>3. \A i \in 1 .. Len(p) : p[i].depth \in Nat
  BY <1>1, <1>2
<1> QED
  BY <1>1, <1>2, <1>3

(* A line under a line under another is under that one; the first line     *)
(* after an operator with inputs is one of them.                           *)
LEMMA UnderIsTransitive ==
  ASSUME NEW p, IsPlan(p), NEW i \in 1 .. Len(p), NEW j \in 1 .. Len(p), NEW k \in 1 .. Len(p),
         Under(p, i, j), Under(p, j, k)
  PROVE  Under(p, i, k)
<1>1. /\ Len(p) \in Nat /\ \A m \in 1 .. Len(p) : p[m].depth \in Nat
      /\ i < j /\ j < k /\ \A m \in i + 1 .. j : p[m].depth > p[i].depth
      /\ \A m \in j + 1 .. k : p[m].depth > p[j].depth
  BY Depths DEF Under
<1>2. p[j].depth > p[i].depth
  BY <1>1
<1>3. ASSUME NEW m \in i + 1 .. k PROVE p[m].depth > p[i].depth
  <2>1. CASE m <= j
    BY <1>1, <2>1
  <2>2. CASE m > j
    BY <1>1, <1>2, <2>2
  <2> QED
    BY <1>1, <2>1, <2>2
<1> QED
  BY <1>1, <1>3 DEF Under

LEMMA InputsAreUnder ==
  ASSUME NEW p, IsPlan(p), NEW i \in 1 .. Len(p), NEW j \in Inputs(p, i)
  PROVE  /\ j \in i + 1 .. Len(p) /\ Under(p, i, j) /\ p[j].depth = p[i].depth + 1
         /\ i + 1 \in Inputs(p, i)
<1>1. /\ DOMAIN p = 1 .. Len(p) /\ Len(p) \in Nat /\ \A m \in 1 .. Len(p) : p[m].depth \in Nat
      /\ \A m \in 2 .. Len(p) : p[m].depth <= p[m - 1].depth + 1
  BY Depths
<1>2. /\ j \in 1 .. Len(p) /\ i < j /\ \A m \in i + 1 .. j : p[m].depth > p[i].depth
      /\ p[j].depth = p[i].depth + 1 /\ Under(p, i, j)
  BY <1>1 DEF Inputs, Under
<1>3. i + 1 \in 2 .. Len(p) /\ i + 1 \in i + 1 .. j /\ i + 1 - 1 = i
  BY <1>1, <1>2
<1>4. p[i + 1].depth > p[i].depth /\ p[i + 1].depth <= p[i].depth + 1
  BY <1>1, <1>2, <1>3
<1>5. p[i + 1].depth = p[i].depth + 1
  BY <1>1, <1>3, <1>4
<1>6. Under(p, i, i + 1)
  BY <1>3, <1>4 DEF Under
<1> QED
  BY <1>1, <1>2, <1>3, <1>5, <1>6 DEF Inputs

LEMMA HasInputs ==
  ASSUME NEW p, IsPlan(p), NEW i \in 1 .. Len(p), p[i].op \notin Leaf
  PROVE  /\ i + 1 \in Inputs(p, i)
         /\ p[i].op \in Double => \E j \in Inputs(p, i) : j # i + 1
<1>1. i \in DOMAIN p /\ p[i].op \in Double \cup Single
  BY Depths DEF IsPlan
<1>2. /\ p[i].op \in Single => Inputs(p, i) # {}
      /\ p[i].op \in Double => \E j, k \in Inputs(p, i) : j # k
  BY <1>1 DEF IsPlan, IsTree
<1>3. Inputs(p, i) # {}
  BY <1>1, <1>2
<1> QED
  BY <1>2, <1>3, InputsAreUnder

(* What is under a line that is an input of another.                       *)
LEMMA UnderAnInput ==
  ASSUME NEW p, IsPlan(p), NEW i \in 1 .. Len(p), NEW j \in Inputs(p, i), NEW k \in 1 .. Len(p)
  PROVE  Under(p, k, j) <=> k = i \/ Under(p, k, i)
<1>1. /\ Len(p) \in Nat /\ \A m \in 1 .. Len(p) : p[m].depth \in Nat
      /\ j \in i + 1 .. Len(p) /\ Under(p, i, j) /\ p[j].depth = p[i].depth + 1
      /\ \A m \in i + 1 .. j : p[m].depth > p[i].depth
  BY Depths, InputsAreUnder DEF Under
<1>2. ASSUME Under(p, k, j), k # i PROVE Under(p, k, i)
  <2>1. k < j /\ \A m \in k + 1 .. j : p[m].depth > p[k].depth
    BY <1>2 DEF Under
  <2>2. k < i
    <3>1. SUFFICES ASSUME k > i PROVE FALSE
      BY <1>1, <1>2
    <3>2. k \in i + 1 .. j /\ j \in k + 1 .. j
      BY <1>1, <2>1, <3>1
    <3> QED
      BY <1>1, <2>1, <3>2
  <2>3. i + 1 <= j
    BY <1>1
  <2> QED
    BY <1>1, <2>1, <2>2, <2>3 DEF Under
<1>3. ASSUME Under(p, k, i) PROVE Under(p, k, j)
  BY <1>1, <1>3, UnderIsTransitive
<1> QED
  BY <1>1, <1>2, <1>3

(* In a part that is a subtree, the lines after the first are under it, and *)
(* no others.                                                              *)
LEMMA PartsOfTheTree ==
  ASSUME NEW p, IsPlan(p), NEW first, NEW last, IsSubtree(p, first, last), NEW j \in 1 .. Len(p)
  PROVE  Under(p, first, j) <=> j \in first + 1 .. last
<1>1. /\ Len(p) \in Nat /\ \A m \in 1 .. Len(p) : p[m].depth \in Nat
      /\ first \in 1 .. Len(p) /\ last \in 1 .. Len(p) /\ first <= last
      /\ last = Len(p) \/ p[last + 1].depth <= p[first].depth
      /\ \A m \in first + 1 .. last : p[m].depth > p[first].depth
  BY Depths DEF IsSubtree, Ends
<1>2. ASSUME j \in first + 1 .. last PROVE Under(p, first, j)
  BY <1>1, <1>2 DEF Under
<1>3. ASSUME Under(p, first, j) PROVE j \in first + 1 .. last
  <2>1. first < j /\ \A m \in first + 1 .. j : p[m].depth > p[first].depth
    BY <1>3 DEF Under
  <2>2. SUFFICES ASSUME j > last PROVE FALSE
    BY <1>1, <2>1
  <2>3. last + 1 \in first + 1 .. j /\ last + 1 \in 1 .. Len(p) /\ last # Len(p)
    BY <1>1, <2>1, <2>2
  <2> QED
    BY <1>1, <2>1, <2>3
<1> QED
  BY <1>2, <1>3

(* Where the right input begins.                                           *)
LEMMA StartType ==
  ASSUME NEW p, IsPlan(p), NEW first \in Nat, NEW last \in Nat, NEW depth
  PROVE  /\ StartOf(p, first, last, depth) \in Nat
         /\ StartOf(p, first, last, depth) >= first + 2
         /\ RightsOf(p, first, last, depth) # {} =>
              /\ StartOf(p, first, last, depth) \in RightsOf(p, first, last, depth)
              /\ \A j \in RightsOf(p, first, last, depth) : j <= StartOf(p, first, last, depth)
<1> DEFINE S == RightsOf(p, first, last, depth)
<1>1. S \in SUBSET (first + 2 .. last) /\ first + 2 \in Int /\ last \in Int
  BY DEF RightsOf
<1>2. CASE S = {}
  BY <1>1, <1>2 DEF StartOf
<1>3. CASE S # {}
  <2> HIDE DEF S
  <2>1. \E i \in S : \A j \in S : j <= i
    BY <1>1, <1>3, Greatest
  <2>2. StartOf(p, first, last, depth) = CHOOSE i \in S : \A j \in S : j <= i
    BY <1>3 DEF StartOf, S
  <2>3. StartOf(p, first, last, depth) \in S /\ \A j \in S : j <= StartOf(p, first, last, depth)
    BY <2>1, <2>2
  <2>4. StartOf(p, first, last, depth) \in first + 2 .. last
    BY <1>1, <2>3
  <2> QED
    BY <1>1, <2>3, <2>4 DEF S
<1> QED
  BY <1>2, <1>3

(* A part that ends where the lines under its first line have ended.       *)
Whole(p, first, last) ==
  /\ first \in 1 .. Len(p) /\ last \in 1 .. Len(p) /\ first <= last
  /\ Ends(p, last, p[first].depth)

(* If the operator has inputs, so are the parts that its call goes on with. *)
LEMMA PartOfTheChild ==
  ASSUME NEW p, IsPlan(p), NEW first, NEW last, Whole(p, first, last), p[first].op \notin Leaf
  PROVE  Whole(p, first + 1, last) /\ p[first + 1].depth = p[first].depth + 1
<1>1. /\ Len(p) \in Nat /\ \A m \in 1 .. Len(p) : p[m].depth \in Nat
      /\ first \in 1 .. Len(p) /\ last \in 1 .. Len(p) /\ first <= last
      /\ last = Len(p) \/ p[last + 1].depth <= p[first].depth
  BY Depths DEF Whole, Ends
<1>2. first + 1 \in Inputs(p, first)
  BY <1>1, HasInputs
<1>3. first + 1 \in 1 .. Len(p) /\ p[first + 1].depth = p[first].depth + 1
  BY <1>1, <1>2, InputsAreUnder
<1>4. first # last
  <2>1. SUFFICES ASSUME first = last PROVE FALSE
    OBVIOUS
  <2> QED
    BY <1>1, <1>3, <2>1
<1>5. last = Len(p) \/ p[last + 1].depth <= p[first + 1].depth
  <2>1. SUFFICES ASSUME last # Len(p) PROVE p[last + 1].depth <= p[first + 1].depth
    OBVIOUS
  <2>2. last + 1 \in 1 .. Len(p)
    BY <1>1, <2>1
  <2> QED
    BY <1>1, <1>3, <2>1, <2>2
<1> QED
  BY <1>1, <1>3, <1>4, <1>5 DEF Whole, Ends

LEMMA PartsOfTwo ==
  ASSUME NEW p, IsPlan(p), NEW first, NEW last, Whole(p, first, last), p[first].op \in Double,
         NEW start, start = StartOf(p, first, last, p[first].depth)
  PROVE  /\ Whole(p, first + 1, start - 1) /\ Whole(p, start, last)
         /\ start \in first + 2 .. last
         /\ p[first + 1].depth = p[first].depth + 1 /\ p[start].depth = p[first].depth + 1
         /\ \A j \in start + 1 .. last : p[j].depth # p[first].depth + 1
<1> DEFINE d == p[first].depth
           S == RightsOf(p, first, last, d)
<1>1. /\ Len(p) \in Nat /\ \A m \in 1 .. Len(p) : p[m].depth \in Nat
      /\ first \in 1 .. Len(p) /\ last \in 1 .. Len(p) /\ first <= last
      /\ last = Len(p) \/ p[last + 1].depth <= d
  BY Depths DEF Whole, Ends
<1>2. p[first].op \notin Leaf
  BY DEF Double, Leaf
<1>3. PICK j \in Inputs(p, first) : j # first + 1
  BY <1>1, <1>2, HasInputs
<1>4. /\ j \in first + 1 .. Len(p) /\ p[j].depth = d + 1
      /\ \A m \in first + 1 .. j : p[m].depth > d
  BY <1>1, InputsAreUnder DEF Under
<1>5. j <= last
  <2>1. SUFFICES ASSUME j > last PROVE FALSE
    BY <1>1, <1>4
  <2>2. last + 1 \in first + 1 .. j /\ last + 1 \in 1 .. Len(p) /\ last # Len(p)
    BY <1>1, <1>4, <2>1
  <2> QED
    BY <1>1, <1>4, <2>2
<1>6. j \in S
  <2>1. j \in first + 2 .. last
    BY <1>1, <1>3, <1>4, <1>5
  <2>2. d \in Nat
    BY <1>1
  <2>3. p[j].depth - d = 1
    BY <1>4, <2>2
  <2> QED
    BY <2>1, <2>3 DEF RightsOf
<1>7. start \in S /\ \A i \in S : i <= start
  BY <1>1, <1>6, StartType
<1>8. start \in first + 2 .. last /\ p[start].depth = d + 1
  <2>1. start \in first + 2 .. last /\ p[start].depth - d = 1
    BY <1>7 DEF RightsOf
  <2>2. start \in 1 .. Len(p)
    BY <1>1, <2>1
  <2>3. p[start].depth \in Nat /\ d \in Nat
    BY <1>1, <2>2
  <2> QED
    BY <2>1, <2>3
<1>9. p[first + 1].depth = d + 1 /\ first + 1 \in 1 .. Len(p)
  BY <1>1, <1>2, PartOfTheChild DEF Whole
<1>10. \A i \in start + 1 .. last : p[i].depth # d + 1
  <2>1. SUFFICES ASSUME NEW i \in start + 1 .. last, p[i].depth = d + 1 PROVE FALSE
    OBVIOUS
  <2>2. i \in first + 2 .. last /\ i > start /\ d \in Nat
    BY <1>1, <1>8
  <2>3. p[i].depth - d = 1
    BY <2>1, <2>2
  <2>4. i \in S
    BY <2>2, <2>3 DEF RightsOf
  <2> QED
    BY <1>7, <2>2, <2>4, <1>8
<1> HIDE DEF S
<1>11. Whole(p, first + 1, start - 1)
  <2>1. start - 1 \in 1 .. Len(p) /\ first + 1 <= start - 1 /\ start - 1 + 1 = start
    BY <1>1, <1>8
  <2>2. p[start].depth <= p[first + 1].depth
    BY <1>8, <1>9, <1>1
  <2> QED
    BY <1>9, <2>1, <2>2 DEF Whole, Ends
<1>12. Whole(p, start, last)
  <2>1. start \in 1 .. Len(p) /\ start <= last
    BY <1>1, <1>8
  <2>2. last = Len(p) \/ p[last + 1].depth <= d + 1
    <3>1. SUFFICES ASSUME last # Len(p) PROVE p[last + 1].depth <= d + 1
      OBVIOUS
    <3>2. last + 1 \in 1 .. Len(p)
      BY <1>1, <3>1
    <3> QED
      BY <1>1, <3>1, <3>2
  <2> QED
    BY <1>1, <1>8, <2>1, <2>2 DEF Whole, Ends
<1> QED
  BY <1>8, <1>9, <1>10, <1>11, <1>12

(* And if those parts are subtrees, so is the part of the call.             *)
LEMMA SubtreeOfOne ==
  ASSUME NEW p, IsPlan(p), NEW first, NEW last, Whole(p, first, last), p[first].op \notin Leaf,
         IsSubtree(p, first + 1, last)
  PROVE  IsSubtree(p, first, last) /\ first + 1 \in Inputs(p, first)
         /\ \A j \in Inputs(p, first) : j = first + 1
<1>1. /\ Len(p) \in Nat /\ \A m \in 1 .. Len(p) : p[m].depth \in Nat
      /\ first \in 1 .. Len(p) /\ last \in 1 .. Len(p) /\ first <= last /\ first + 1 \in 1 .. Len(p)
      /\ \A j \in first + 1 + 1 .. last : p[j].depth > p[first + 1].depth
  BY Depths DEF Whole, IsSubtree
<1>2. p[first + 1].depth = p[first].depth + 1
  BY PartOfTheChild
<1>3. ASSUME NEW j \in first + 1 .. last PROVE p[j].depth > p[first].depth
  <2>1. CASE j = first + 1
    BY <1>1, <1>2, <2>1
  <2>2. CASE j # first + 1
    <3>1. j \in first + 1 + 1 .. last /\ j \in 1 .. Len(p)
      BY <1>1, <2>2
    <3> QED
      BY <1>1, <1>2, <3>1
  <2> QED
    BY <2>1, <2>2
<1>4. IsSubtree(p, first, last)
  BY <1>1, <1>3 DEF IsSubtree, Whole
<1>5. ASSUME NEW j \in Inputs(p, first) PROVE j = first + 1
  <2>1. j \in 1 .. Len(p) /\ Under(p, first, j) /\ p[j].depth = p[first].depth + 1
    BY <1>1, InputsAreUnder
  <2>2. j \in first + 1 .. last
    BY <1>4, <2>1, PartsOfTheTree
  <2>3. SUFFICES ASSUME j # first + 1 PROVE FALSE
    OBVIOUS
  <2>4. j \in first + 1 + 1 .. last
    BY <1>1, <2>2, <2>3
  <2> QED
    BY <1>1, <1>2, <2>1, <2>4
<1> QED
  BY <1>1, <1>4, <1>5, HasInputs

LEMMA SubtreeOfTwo ==
  ASSUME NEW p, IsPlan(p), NEW first, NEW last, Whole(p, first, last), p[first].op \in Double,
         NEW start, start = StartOf(p, first, last, p[first].depth),
         IsSubtree(p, first + 1, start - 1), IsSubtree(p, start, last)
  PROVE  IsSubtree(p, first, last) /\ start > first + 1
         /\ first + 1 \in Inputs(p, first) /\ start \in Inputs(p, first)
         /\ \A j \in Inputs(p, first) : j \in {first + 1, start}
<1>1. /\ Len(p) \in Nat /\ \A m \in 1 .. Len(p) : p[m].depth \in Nat
      /\ first \in 1 .. Len(p) /\ last \in 1 .. Len(p) /\ first <= last /\ first + 1 \in 1 .. Len(p)
      /\ \A j \in first + 1 + 1 .. start - 1 : p[j].depth > p[first + 1].depth
      /\ \A j \in start + 1 .. last : p[j].depth > p[start].depth
  BY Depths DEF Whole, IsSubtree
<1>2. /\ start \in first + 2 .. last
      /\ p[first + 1].depth = p[first].depth + 1 /\ p[start].depth = p[first].depth + 1
  BY PartsOfTwo
<1>3. ASSUME NEW j \in first + 1 .. last
      PROVE  p[j].depth > p[first].depth /\ (p[j].depth = p[first].depth + 1 => j \in {first + 1, start})
  <2>1. CASE j = first + 1 \/ j = start
    BY <1>1, <1>2, <2>1
  <2>2. CASE j # first + 1 /\ j # start
    <3>1. j \in first + 1 + 1 .. start - 1 \/ j \in start + 1 .. last
      BY <1>1, <1>2, <2>2
    <3>2. j \in 1 .. Len(p) /\ p[first].depth \in Nat
      BY <1>1
    <3>3. p[j].depth > p[first].depth + 1 /\ p[j].depth \in Nat
      BY <1>1, <1>2, <3>1, <3>2
    <3> QED
      BY <3>2, <3>3
  <2> QED
    BY <2>1, <2>2
<1>4. IsSubtree(p, first, last)
  BY <1>1, <1>3 DEF IsSubtree, Whole
<1>5. ASSUME NEW j \in Inputs(p, first) PROVE j \in {first + 1, start}
  <2>1. j \in 1 .. Len(p) /\ Under(p, first, j) /\ p[j].depth = p[first].depth + 1
    BY <1>1, InputsAreUnder
  <2>2. j \in first + 1 .. last
    BY <1>4, <2>1, PartsOfTheTree
  <2> QED
    BY <1>3, <2>1, <2>2
<1>6. first + 1 \in Inputs(p, first)
  BY <1>1, HasInputs DEF Double, Leaf
<1>7. start \in Inputs(p, first)
  <2>1. start \in DOMAIN p /\ start \in first + 1 .. last /\ start \in 1 .. Len(p)
    BY <1>1, <1>2, Depths
  <2>2. Under(p, first, start)
    BY <1>4, <2>1, PartsOfTheTree
  <2> QED
    BY <1>2, <2>1, <2>2 DEF Inputs
<1> QED
  BY <1>1, <1>2, <1>4, <1>5, <1>6, <1>7

(* In a plan that the worker can evaluate, the parts are subtrees.         *)
LEMMA OneIsASubtree ==
  ASSUME NEW p, IsPlan(p), NEW first, NEW last, IsSubtree(p, first, last),
         p[first].op \notin Leaf, NEW x, Inputs(p, first) = {x}
  PROVE  IsSubtree(p, first + 1, last)
<1>1. /\ Len(p) \in Nat /\ \A m \in 1 .. Len(p) : p[m].depth \in Nat /\ DOMAIN p = 1 .. Len(p)
      /\ first \in 1 .. Len(p) /\ last \in 1 .. Len(p) /\ first <= last
      /\ \A j \in first + 1 .. last : p[j].depth > p[first].depth
  BY Depths DEF IsSubtree
<1>2. /\ first + 1 \in 1 .. Len(p) /\ last \in 1 .. Len(p) /\ first + 1 <= last
      /\ p[first + 1].depth = p[first].depth + 1 /\ Ends(p, last, p[first + 1].depth)
  BY PartOfTheChild DEF Whole, IsSubtree
<1>3. first + 1 = x
  BY <1>1, HasInputs
<1>4. ASSUME NEW j \in first + 1 + 1 .. last PROVE p[j].depth > p[first + 1].depth
  <2>1. j \in first + 1 .. last /\ j \in 1 .. Len(p) /\ j # first + 1
    BY <1>1
  <2>2. Under(p, first, j)
    BY <2>1, PartsOfTheTree
  <2>3. p[j].depth # p[first].depth + 1
    BY <1>1, <1>3, <2>1, <2>2 DEF Inputs
  <2> QED
    BY <1>1, <1>2, <2>1, <2>3
<1> QED
  BY <1>2, <1>4 DEF IsSubtree

LEMMA TwoAreSubtrees ==
  ASSUME NEW p, IsPlan(p), NEW first, NEW last, IsSubtree(p, first, last), p[first].op \in Double,
         NEW start, start = StartOf(p, first, last, p[first].depth),
         NEW x, NEW y, Inputs(p, first) = {x, y}
  PROVE  /\ IsSubtree(p, first + 1, start - 1) /\ IsSubtree(p, start, last)
         /\ first + 1 \in Inputs(p, first) /\ start \in Inputs(p, first)
         /\ start > first + 1
<1>1. /\ Len(p) \in Nat /\ \A m \in 1 .. Len(p) : p[m].depth \in Nat /\ DOMAIN p = 1 .. Len(p)
      /\ first \in 1 .. Len(p) /\ last \in 1 .. Len(p) /\ first <= last
      /\ \A j \in first + 1 .. last : p[j].depth > p[first].depth
  BY Depths DEF IsSubtree
<1>2. /\ Whole(p, first + 1, start - 1) /\ Whole(p, start, last)
      /\ start \in first + 2 .. last
      /\ p[first + 1].depth = p[first].depth + 1 /\ p[start].depth = p[first].depth + 1
  <2>1. Whole(p, first, last)
    BY DEF Whole, IsSubtree
  <2> QED
    BY <2>1, PartsOfTwo
<1>3. /\ \A j \in first + 1 .. last : j \in Inputs(p, first) <=> p[j].depth = p[first].depth + 1
      /\ first + 1 \in first + 1 .. last /\ start \in first + 1 .. last
  <2>1. ASSUME NEW j \in first + 1 .. last
        PROVE  j \in Inputs(p, first) <=> p[j].depth = p[first].depth + 1
    <3>1. j \in 1 .. Len(p)
      BY <1>1
    <3>2. Under(p, first, j)
      BY <3>1, PartsOfTheTree
    <3> QED
      BY <1>1, <3>1, <3>2 DEF Inputs
  <2> QED
    BY <1>1, <1>2, <2>1
<1>4. \A j \in Inputs(p, first) : j = first + 1 \/ j = start
  BY <1>1, <1>2, <1>3
<1>5. ASSUME NEW j \in first + 1 + 1 .. last, j # start PROVE p[j].depth > p[first].depth + 1
  <2>1. j \in first + 1 .. last /\ j \in 1 .. Len(p) /\ j # first + 1
    BY <1>1
  <2>2. p[j].depth # p[first].depth + 1
    BY <1>3, <1>4, <1>5, <2>1
  <2> QED
    BY <1>1, <2>1, <2>2
<1>6. IsSubtree(p, first + 1, start - 1)
  <2>1. \A j \in first + 1 + 1 .. start - 1 : p[j].depth > p[first + 1].depth
    <3>1. SUFFICES ASSUME NEW j \in first + 1 + 1 .. start - 1 PROVE p[j].depth > p[first].depth + 1
      BY <1>2
    <3>2. j \in first + 1 + 1 .. last /\ j # start
      BY <1>1, <1>2
    <3> QED
      BY <1>5, <3>2
  <2> QED
    BY <1>2, <2>1 DEF Whole, IsSubtree
<1>7. IsSubtree(p, start, last)
  <2>1. \A j \in start + 1 .. last : p[j].depth > p[start].depth
    <3>1. SUFFICES ASSUME NEW j \in start + 1 .. last PROVE p[j].depth > p[first].depth + 1
      BY <1>2
    <3>2. j \in first + 1 + 1 .. last /\ j # start
      BY <1>1, <1>2
    <3> QED
      BY <1>5, <3>2
  <2> QED
    BY <1>2, <2>1 DEF Whole, IsSubtree
<1> QED
  BY <1>1, <1>2, <1>3, <1>6, <1>7

(* The order of the operators is an order.                                 *)
Earlier(p) == {q \in (1 .. Len(p)) \X (1 .. Len(p)) : After(p, q[2], q[1])}

LEMMA AfterIsAnOrder ==
  ASSUME NEW p, IsPlan(p)
  PROVE  Orders(Earlier(p), 1 .. Len(p))
<1> DEFINE S == 1 .. Len(p)
           R == Earlier(p)
<1>1. /\ Len(p) \in Nat /\ \A m \in S : p[m].depth \in Nat
  BY Depths
<1>2. \A x, y \in S : <<x, y>> \in R <=> After(p, y, x)
  BY DEF Earlier
<1>3. \A x \in S : ~After(p, x, x)
  BY <1>1 DEF After, Under
<1>4. \A x, y \in S : x # y => After(p, x, y) \/ After(p, y, x)
  BY <1>1 DEF After
<1>5. ASSUME NEW x \in S, NEW y \in S, NEW z \in S, x < y, y <= z, Under(p, x, z)
      PROVE  Under(p, x, y)
  BY <1>1, <1>5 DEF Under
<1>6. \A x, y \in S : Under(p, x, y) => x < y
  BY DEF Under
<1>7. ASSUME NEW x \in S, NEW y \in S, NEW z \in S, After(p, y, x), After(p, z, y)
      PROVE  After(p, z, x)
  <2>1. CASE Under(p, z, y)
    <3>1. CASE Under(p, y, x)
      BY <2>1, <3>1, UnderIsTransitive DEF After
    <3>2. CASE y > x /\ ~Under(p, x, y)
      <4>1. CASE z < x
        <5>1. Under(p, z, x)
          BY <1>1, <1>5, <2>1, <3>2, <4>1
        <5> QED
          BY <5>1 DEF After
      <4>2. CASE z = x
        BY <2>1, <3>2, <4>2
      <4>3. CASE z > x
        <5>1. ~Under(p, x, z)
          BY <2>1, <3>2, UnderIsTransitive
        <5> QED
          BY <4>3, <5>1 DEF After
      <4> QED
        BY <1>1, <4>1, <4>2, <4>3
    <3> QED
      BY <1>7, <3>1, <3>2 DEF After
  <2>2. CASE z > y /\ ~Under(p, y, z)
    <3>1. CASE Under(p, y, x)
      <4>1. CASE x < z
        <5>1. ~Under(p, x, z)
          BY <2>2, <3>1, UnderIsTransitive
        <5> QED
          BY <4>1, <5>1 DEF After
      <4>2. CASE x >= z
        <5>1. Under(p, y, z)
          BY <1>1, <1>5, <2>2, <3>1, <4>2
        <5> QED
          BY <2>2, <5>1
      <4> QED
        BY <1>1, <4>1, <4>2
    <3>2. CASE y > x /\ ~Under(p, x, y)
      <4>1. ~Under(p, x, z)
        BY <1>1, <1>5, <2>2, <3>2
      <4> QED
        BY <1>1, <2>2, <3>2, <4>1 DEF After
    <3> QED
      BY <1>7, <3>1, <3>2 DEF After
  <2> QED
    BY <1>7, <2>1, <2>2 DEF After
<1> QED
  BY <1>2, <1>3, <1>4, <1>7 DEF Orders

LEMMA OnlyPostOrder ==
  ASSUME NEW p, IsPlan(p), NEW s \in Seq(1 .. Len(p)),
         \A x \in 1 .. Len(p) : \E i \in 1 .. Len(s) : s[i] = x,
         \A i, j \in 1 .. Len(s) : i < j => After(p, s[j], s[i])
  PROVE  s = PostOrder(p)
<1> DEFINE S == 1 .. Len(p)
           R == Earlier(p)
           n == Len(s)
<1>1. n \in Nat /\ s \in [1 .. n -> S] /\ DOMAIN p = S
  BY LenProperties, ElementOfSeq, Depths
<1>2. \A x, y \in S : <<x, y>> \in R <=> After(p, y, x)
  BY DEF Earlier
<1>3. Orders(R, S)
  BY AfterIsAnOrder
<1>4. Follows(s, n, R)
  BY <1>1, <1>2 DEF Follows
<1>5. \A i, j \in 1 .. n : s[i] = s[j] => i = j
  <2>1. ASSUME NEW i \in 1 .. n, NEW j \in 1 .. n, i < j PROVE s[i] # s[j]
    <3>1. <<s[i], s[j]>> \in R /\ s[i] \in S
      BY <1>1, <1>4, <2>1 DEF Follows
    <3> QED
      BY <1>3, <3>1 DEF Orders
  <2> QED
    BY <1>1, <2>1
<1>6. Enumerates(s, n, S)
  BY <1>1, <1>5 DEF Enumerates
<1>7. s = Ordered(S, R)
  BY <1>1, <1>3, <1>4, <1>6, OnlyOrder
<1>8. \A x \in S : {y \in S : <<y, x>> \in R} = {y \in S : After(p, x, y)}
  BY <1>2
<1>9. Ordered(S, R) = PostOrder(p)
  <2>1. PostOrder(p) = [i \in 1 .. Cardinality(S) |->
                          CHOOSE x \in S : Cardinality({y \in S : After(p, x, y)}) = i - 1]
    BY <1>1 DEF PostOrder, InOrder
  <2>2. \A i \in 1 .. Cardinality(S) :
          (CHOOSE x \in S : Cardinality({y \in S : After(p, x, y)}) = i - 1)
            = (CHOOSE x \in S : Cardinality({y \in S : <<y, x>> \in R}) = i - 1)
    BY <1>8
  <2> QED
    BY <2>1, <2>2 DEF Ordered
<1> QED
  BY <1>7, <1>9

-----------------------------------------------------------------------------
(* The columns of a line, from those of its inputs.                        *)
LEMMA LeftAndRight ==
  ASSUME NEW p, IsPlan(p), NEW i \in 1 .. Len(p), p[i].op \notin Leaf
  PROVE  /\ Left(p, i) = i + 1 /\ Left(p, i) \in i + 1 .. Len(p)
         /\ Right(p, i) \in Inputs(p, i) /\ Right(p, i) \in i + 1 .. Len(p)
         /\ \A j \in Inputs(p, i) : j <= Right(p, i)
<1> DEFINE S == Inputs(p, i)
<1>1. Len(p) \in Nat /\ S \in SUBSET (i + 1 .. Len(p)) /\ i + 1 \in S
  BY Depths, InputsAreUnder, HasInputs
<1> HIDE DEF S
<1>2. \A k \in S : i + 1 <= k
  BY <1>1
<1>3. Left(p, i) = i + 1
  <2>1. Left(p, i) = CHOOSE j \in S : \A k \in S : j <= k
    BY DEF Left, S
  <2>2. Left(p, i) \in S /\ \A k \in S : Left(p, i) <= k
    BY <1>1, <1>2, <2>1
  <2>3. Left(p, i) <= i + 1 /\ i + 1 <= Left(p, i) /\ Left(p, i) \in Int
    <3>1. \A k \in S : k \in Int
      BY <1>1
    <3> QED
      BY <1>1, <1>2, <2>2, <3>1
  <2>4. i + 1 \in Int
    BY <1>1
  <2> QED
    BY <2>3, <2>4
<1>4. Right(p, i) \in S /\ \A k \in S : k <= Right(p, i)
  <2>1. \E j \in S : \A k \in S : k <= j
    <3>1. i + 1 \in Int /\ Len(p) \in Int /\ S # {}
      BY <1>1
    <3> QED
      BY <1>1, <3>1, Greatest
  <2>2. \A j, k \in S : k <= j <=> j >= k
    BY <1>1
  <2>3. Right(p, i) = CHOOSE j \in S : \A k \in S : j >= k
    BY DEF Right, S
  <2> QED
    BY <2>1, <2>2, <2>3
<1> QED
  BY <1>1, <1>3, <1>4 DEF S

LEMMA FromTheInputs ==
  ASSUME NEW p, IsPlan(p), NEW j \in 1 .. Len(p), NEW f, NEW g,
         \A k \in j + 1 .. Len(p) : f[k] = g[k]
  PROVE  ColumnsFrom(p, f, j) = ColumnsFrom(p, g, j)
<1>1. CASE p[j].op \in {"join", "sort", "filter", "union"}
  <2>1. p[j].op \notin Leaf
    BY <1>1 DEF Leaf
  <2>2. f[Left(p, j)] = g[Left(p, j)] /\ f[Right(p, j)] = g[Right(p, j)]
    BY <2>1, LeftAndRight
  <2> QED
    BY <2>2 DEF ColumnsFrom
<1>2. CASE p[j].op \notin {"join", "sort", "filter", "union"}
  BY <1>2 DEF ColumnsFrom
<1> QED
  BY <1>1, <1>2

LEMMA ColumnsAre ==
  ASSUME NEW p, IsPlan(p)
  PROVE  \E of : /\ \A j \in 1 .. Len(p) : of[j] = ColumnsFrom(p, of, j)
                 /\ \A j \in 1 .. Len(p) : Columns(p, j) = of[j]
<1> DEFINE n == Len(p)
           Def(k) == k = [j \in 1 .. n |-> ColumnsFrom(p, k, j)]
           Good(m) == m <= n => \E g : /\ DOMAIN g = 1 .. n /\ g = [j \in 1 .. n |-> g[j]]
                                       /\ \A j \in n - m + 1 .. n : g[j] = ColumnsFrom(p, g, j)
           I == {m \in Nat : Good(m)}
<1>1. n \in Nat /\ DOMAIN p = 1 .. n
  BY Depths
<1> HIDE DEF n
<1>2. 0 \in I
  <2> DEFINE g == [j \in 1 .. n |-> <<>>]
  <2>1. DOMAIN g = 1 .. n /\ g = [j \in 1 .. n |-> g[j]]
    OBVIOUS
  <2>2. n - 0 + 1 .. n = {}
    BY <1>1
  <2> QED
    BY <2>1, <2>2
<1>3. ASSUME NEW m \in Nat, m \in I PROVE m + 1 \in I
  <2>1. SUFFICES ASSUME m + 1 <= n
                 PROVE  \E g : /\ DOMAIN g = 1 .. n /\ g = [j \in 1 .. n |-> g[j]]
                               /\ \A j \in n - (m + 1) + 1 .. n : g[j] = ColumnsFrom(p, g, j)
    OBVIOUS
  <2>2. PICK g : /\ DOMAIN g = 1 .. n /\ g = [j \in 1 .. n |-> g[j]]
                 /\ \A j \in n - m + 1 .. n : g[j] = ColumnsFrom(p, g, j)
    BY <1>1, <1>3, <2>1
  <2> DEFINE q == n - m
             h == [j \in 1 .. n |-> IF j = q THEN ColumnsFrom(p, g, q) ELSE g[j]]
  <2>3. q \in 1 .. n /\ n - (m + 1) + 1 = q /\ n - m + 1 = q + 1
    BY <1>1, <2>1
  <2> HIDE DEF q
  <2>4. DOMAIN h = 1 .. n /\ h = [j \in 1 .. n |-> h[j]]
    OBVIOUS
  <2>5. h[q] = ColumnsFrom(p, g, q) /\ \A j \in q + 1 .. n : h[j] = g[j]
    BY <1>1, <2>3
  <2> HIDE DEF h
  <2>6. ASSUME NEW j \in q .. n PROVE h[j] = ColumnsFrom(p, h, j)
    <3>1. \A k \in j + 1 .. n : h[k] = g[k]
      BY <1>1, <2>3, <2>5
    <3>2. ColumnsFrom(p, h, j) = ColumnsFrom(p, g, j)
      BY <1>1, <2>3, <3>1, FromTheInputs DEF n
    <3>3. CASE j = q
      BY <2>5, <3>2, <3>3
    <3>4. CASE j # q
      <4>1. j \in q + 1 .. n
        BY <1>1, <2>3, <3>4
      <4> QED
        BY <2>2, <2>3, <2>5, <3>2, <4>1
    <3> QED
      BY <3>3, <3>4
  <2> QED
    BY <2>3, <2>4, <2>6
<1>4. n \in I
  <2>1. \A m \in Nat : m \in I => m + 1 \in I
    BY <1>3
  <2> HIDE DEF I
  <2> QED
    BY <1>1, <1>2, <2>1, SetInduction
<1>5. \E k : Def(k)
  <2>1. PICK g : /\ DOMAIN g = 1 .. n /\ g = [j \in 1 .. n |-> g[j]]
                 /\ \A j \in n - n + 1 .. n : g[j] = ColumnsFrom(p, g, j)
    BY <1>1, <1>4
  <2>2. n - n + 1 = 1
    BY <1>1
  <2>3. \A j \in 1 .. n : g[j] = ColumnsFrom(p, g, j)
    BY <2>1, <2>2
  <2>4. [j \in 1 .. n |-> g[j]] = [j \in 1 .. n |-> ColumnsFrom(p, g, j)]
    BY <2>3
  <2> QED
    BY <2>1, <2>4
<1> DEFINE of == CHOOSE k : Def(k)
<1>6. Def(of)
  <2> HIDE DEF Def
  <2> QED
    BY <1>5
<1>7. \A j \in 1 .. n : Columns(p, j) = of[j]
  BY <1>1 DEF Columns, ColumnsFrom
<1>8. \A j \in 1 .. n : of[j] = ColumnsFrom(p, of, j)
  <2> HIDE DEF of
  <2> QED
    BY <1>6
<1> QED
  BY <1>7, <1>8 DEF n

-----------------------------------------------------------------------------
(* A frame with one table, of columns that have the same rows, and the     *)
(* columns that it has.                                                    *)
Column == [by : Nat, as : Nat, rows : Nat]
IsTable(t) ==
  /\ t \in Seq(Column) /\ Len(t) > 0
  /\ \A i, j \in 1 .. Len(t) : t[i].rows = t[j].rows
Pairs(t) == [i \in 1 .. Len(t) |-> <<t[i].by, t[i].as>>]
OneTable(frame) == frame = <<frame[1]>> /\ IsTable(frame[1])
FrameOf(p, i, frame) == OneTable(frame) /\ Pairs(frame[1]) = Columns(p, i)

LEMMA TableInAFrame ==
  ASSUME NEW t, IsTable(t)
  PROVE  OneTable(<<t>>) /\ <<t>>[1] = t
BY DEF OneTable

LEMMA FlatFrame ==
  ASSUME NEW frame, OneTable(frame)
  PROVE  FlattenSeq(frame) = frame[1] /\ Len(frame) = 1
<1> DEFINE t == frame[1]
<1>1. frame = <<t>>
  BY DEF OneTable
<1> HIDE DEF t
<1>2. FlattenSeq(<<t>>) = t /\ Len(<<t>>) = 1
  BY FlattenOne
<1> QED
  BY <1>1, <1>2 DEF t

(* New columns, and the same columns with other rows.                      *)
LEMMA ColumnsMakeATable ==
  ASSUME NEW n \in Nat, n > 0, NEW t \in [1 .. n -> Column], NEW rows,
         \A i \in 1 .. n : t[i].rows = rows
  PROVE  IsTable(t) /\ Len(t) = n /\ t \in Seq(Column)
<1> DEFINE X == Column
<1>1. t \in [1 .. n -> X]
  OBVIOUS
<1> HIDE DEF X
<1>2. t \in Seq(X) /\ Len(t) = n
  BY <1>1
<1> USE DEF X
<1>3. t \in Seq(Column) /\ Len(t) = n
  BY <1>2
<1>4. \A i, j \in 1 .. Len(t) : t[i].rows = t[j].rows
  BY <1>3
<1> QED
  BY <1>3, <1>4 DEF IsTable

LEMMA MadeTable ==
  ASSUME NEW n \in Nat, n > 0, NEW l \in Nat, NEW rows \in Nat
  PROVE  /\ IsTable(Made(l, n, rows)) /\ Len(Made(l, n, rows)) = n
         /\ Pairs(Made(l, n, rows)) = [i \in 1 .. n |-> <<l, i>>]
<1> DEFINE t == Made(l, n, rows)
<1>1. t = [i \in 1 .. n |-> [by |-> l, as |-> i, rows |-> rows]]
  BY DEF Made
<1>2. \A i \in 1 .. n : [by |-> l, as |-> i, rows |-> rows] \in Column
  BY DEF Column
<1>3. /\ t \in [1 .. n -> Column]
      /\ \A i \in 1 .. n : t[i].by = l /\ t[i].as = i /\ t[i].rows = rows
  BY <1>1, <1>2
<1> HIDE DEF t
<1>4. IsTable(t) /\ Len(t) = n
  BY <1>3, ColumnsMakeATable
<1>5. \A i \in 1 .. n : <<t[i].by, t[i].as>> = <<l, i>>
  BY <1>3
<1>6. Pairs(t) = [i \in 1 .. n |-> <<l, i>>]
  BY <1>4, <1>5 DEF Pairs
<1> QED
  BY <1>4, <1>6 DEF t

LEMMA ScannedTable ==
  ASSUME NEW columns \in Seq(Nat), columns # <<>>, NEW l \in Nat,
         NEW t, t = [i \in DOMAIN columns |-> [by |-> l, as |-> columns[i], rows |-> l]]
  PROVE  IsTable(t) /\ Pairs(t) = [i \in DOMAIN columns |-> <<l, columns[i]>>]
<1> DEFINE n == Len(columns)
<1>1. n \in Nat /\ n > 0 /\ DOMAIN columns = 1 .. n /\ \A i \in 1 .. n : columns[i] \in Nat
  BY LenProperties, ElementOfSeq, EmptySeq
<1>2. \A i \in 1 .. n : [by |-> l, as |-> columns[i], rows |-> l] \in Column
  BY <1>1 DEF Column
<1>3. /\ t \in [1 .. n -> Column]
      /\ \A i \in 1 .. n : t[i].by = l /\ t[i].as = columns[i] /\ t[i].rows = l
  BY <1>1, <1>2
<1>4. IsTable(t) /\ Len(t) = n
  BY <1>1, <1>3, ColumnsMakeATable
<1>5. \A i \in 1 .. n : <<t[i].by, t[i].as>> = <<l, columns[i]>>
  BY <1>3
<1> QED
  BY <1>1, <1>4, <1>5 DEF Pairs

LEMMA NewRows ==
  ASSUME NEW t \in Seq(Column), Len(t) > 0, NEW l \in Nat,
         NEW u, u = [i \in 1 .. Len(t) |-> [t[i] EXCEPT !.rows = l]]
  PROVE  IsTable(u) /\ Pairs(u) = Pairs(t)
<1> DEFINE n == Len(t)
<1>1. n \in Nat /\ \A i \in 1 .. n : t[i] \in Column
  BY LenProperties, ElementOfSeq
<1>2. \A i \in 1 .. n : /\ u[i] \in Column /\ u[i].by = t[i].by /\ u[i].as = t[i].as
                        /\ u[i].rows = l
  BY <1>1 DEF Column
<1>3. u \in [1 .. n -> Column]
  BY <1>2
<1>4. IsTable(u) /\ Len(u) = n
  <2> HIDE DEF n
  <2>1. n > 0
    BY DEF n
  <2> QED
    BY <1>1, <1>2, <1>3, <2>1, ColumnsMakeATable
<1>5. \A i \in 1 .. n : <<u[i].by, u[i].as>> = <<t[i].by, t[i].as>>
  BY <1>2
<1> QED
  BY <1>4, <1>5 DEF Pairs

LEMMA MaterializedTable ==
  ASSUME NEW frame, NEW t \in Seq(Column), FlattenSeq(frame) = t, Len(t) > 0, NEW l \in Nat
  PROVE  IsTable(Materialized(frame, l)) /\ Pairs(Materialized(frame, l)) = Pairs(t)
<1>1. Materialized(frame, l) = [i \in 1 .. Len(t) |-> [t[i] EXCEPT !.rows = l]]
  BY DEF Materialized, get_num_columns
<1> QED
  BY <1>1, NewRows

LEMMA PairsOfTwo ==
  ASSUME NEW t \in Seq(Column), NEW u \in Seq(Column)
  PROVE  Pairs(t \o u) = Pairs(t) \o Pairs(u)
<1> DEFINE m == Len(t)
           n == Len(u)
           P == Pairs(t)
           Q == Pairs(u)
<1>1. /\ m \in Nat /\ n \in Nat /\ Len(t \o u) = m + n
      /\ \A i \in 1 .. m + n : (t \o u)[i] = IF i <= m THEN t[i] ELSE u[i - m]
  BY LenProperties, ConcatProperties
<1>2. /\ Len(P) = m /\ Len(Q) = n
      /\ \A i \in 1 .. m : P[i] = <<t[i].by, t[i].as>>
      /\ \A i \in 1 .. n : Q[i] = <<u[i].by, u[i].as>>
  BY <1>1 DEF Pairs
<1>3. P \o Q = [i \in 1 .. m + n |-> IF i <= m THEN P[i] ELSE Q[i - m]]
  <2> DEFINE X == Nat \X Nat
  <2>1. \A v \in Seq(Column) : Pairs(v) \in Seq(X)
    <3>1. SUFFICES ASSUME NEW v \in Seq(Column) PROVE Pairs(v) \in Seq(X)
      OBVIOUS
    <3> DEFINE k == Len(v)
    <3>2. k \in Nat /\ \A i \in 1 .. k : v[i] \in Column
      BY LenProperties, ElementOfSeq
    <3>3. \A i \in 1 .. k : <<v[i].by, v[i].as>> \in X
      BY <3>2 DEF Column
    <3> HIDE DEF k, X
    <3>4. [i \in 1 .. k |-> <<v[i].by, v[i].as>>] \in Seq(X)
      BY <3>2, <3>3
    <3> QED
      BY <3>4 DEF Pairs, k
  <2>2. P \in Seq(X) /\ Q \in Seq(X)
    BY <2>1
  <2> HIDE DEF X, P, Q, m, n
  <2>3. /\ P \o Q \in Seq(X) /\ Len(P \o Q) = m + n
        /\ \A i \in 1 .. m + n : (P \o Q)[i] = IF i <= m THEN P[i] ELSE Q[i - m]
    BY <1>2, <2>2, ConcatProperties
  <2>4. P \o Q \in [1 .. m + n -> X]
    BY <2>3, LenProperties
  <2> QED
    BY <2>3, <2>4
<1>4. Pairs(t \o u) = [i \in 1 .. m + n |-> <<(t \o u)[i].by, (t \o u)[i].as>>]
  BY <1>1 DEF Pairs
<1> HIDE DEF m, n, P, Q
<1>5. ASSUME NEW i \in 1 .. m + n
      PROVE  <<(t \o u)[i].by, (t \o u)[i].as>> = IF i <= m THEN P[i] ELSE Q[i - m]
  <2>1. CASE i <= m
    BY <1>1, <1>2, <2>1
  <2>2. CASE i > m
    <3>1. i - m \in 1 .. n /\ ~(i <= m)
      BY <1>1, <2>2
    <3> QED
      BY <1>1, <1>2, <3>1
  <2> QED
    BY <1>1, <2>1, <2>2
<1> QED
  BY <1>3, <1>4, <1>5 DEF P, Q

(* What the operators return.                                              *)
LEMMA ScanFrame ==
  ASSUME NEW p, IsPlan(p), NEW i \in 1 .. Len(p), p[i].op = "scan",
         NEW t, t = [c \in DOMAIN p[i].columns |-> [by |-> i, as |-> p[i].columns[c], rows |-> i]]
  PROVE  OneTable(<<t>>) /\ FrameOf(p, i, <<t>>)
<1>1. p[i].columns \in Seq(Nat) /\ p[i].columns # <<>> /\ i \in Nat
  BY Depths DEF IsPlan, HasColumns
<1>2. IsTable(t) /\ Pairs(t) = [c \in DOMAIN p[i].columns |-> <<i, p[i].columns[c]>>]
  BY <1>1, ScannedTable
<1>3. PICK of : /\ \A j \in 1 .. Len(p) : of[j] = ColumnsFrom(p, of, j)
                /\ \A j \in 1 .. Len(p) : Columns(p, j) = of[j]
  BY ColumnsAre
<1>4. Columns(p, i) = [c \in DOMAIN p[i].columns |-> <<i, p[i].columns[c]>>]
  BY <1>3 DEF ColumnsFrom
<1> QED
  BY <1>2, <1>4, TableInAFrame DEF FrameOf

LEMMA AppendToOne ==
  ASSUME NEW s, NEW t
  PROVE  Append(<<s>>, t) = <<s, t>>
<1> DEFINE X == {s, t}
           u == <<s>>
           v == <<s, t>>
<1>1. s \in X /\ t \in X
  OBVIOUS
<1> HIDE DEF X
<1>2. u \in Seq(X) /\ Len(u) = 1 /\ u[1] = s /\ v \in Seq(X) /\ Len(v) = 2 /\ v[1] = s /\ v[2] = t
  BY <1>1
<1> HIDE DEF u, v
<1>3. Append(u, t) \in Seq(X) /\ Len(Append(u, t)) = 2 /\ Append(u, t)[1] = s /\ Append(u, t)[2] = t
  <2>3. u \in Seq(X) /\ t \in X
    BY <1>1, <1>2
  <2>1. /\ Append(u, t) \in Seq(X) /\ Len(Append(u, t)) = Len(u) + 1
        /\ \A i \in 1 .. Len(u) : Append(u, t)[i] = u[i]
        /\ Append(u, t)[Len(u) + 1] = t
    BY <2>3
  <2>2. Len(u) + 1 = 2 /\ 1 \in 1 .. Len(u)
    BY <1>2
  <2> QED
    BY <1>2, <2>1, <2>2
<1>4. Append(u, t) \in [1 .. 2 -> X] /\ v \in [1 .. 2 -> X]
  BY <1>2, <1>3, LenProperties
<1>5. Append(u, t) = v
  BY <1>2, <1>3, <1>4
<1> QED
  BY <1>5 DEF u, v

LEMMA JoinFrame ==
  ASSUME NEW p, IsPlan(p), NEW i \in 1 .. Len(p), p[i].op = "join", NEW f, NEW g,
         OneTable(f), OneTable(g), NEW h, h = <<Materialized(add_table(f, g[1]), i)>>
  PROVE  /\ OneTable(h)
         /\ \A j : FrameOf(p, i + 1, f) /\ FrameOf(p, j, g) /\ Right(p, i) = j => FrameOf(p, i, h)
<1> DEFINE s == f[1]
           t == g[1]
<1>1. f = <<s>> /\ g = <<t>> /\ IsTable(s) /\ IsTable(t)
  BY DEF OneTable
<1> HIDE DEF s, t
<1>2. s \in Seq(Column) /\ t \in Seq(Column) /\ Len(s) > 0 /\ Len(t) > 0
  BY <1>1 DEF IsTable
<1>3. add_table(f, g[1]) = <<s, t>>
  <2>1. g[1] = t
    BY DEF t
  <2>2. Append(<<s>>, t) = <<s, t>>
    BY AppendToOne
  <2> QED
    BY <1>1, <2>1, <2>2 DEF add_table
<1>4. FlattenSeq(<<s, t>>) = s \o t
  BY <1>2, FlattenTwo
<1>5. s \o t \in Seq(Column) /\ Len(s \o t) > 0
  BY <1>2, ConcatProperties, LenProperties
<1>6. i \in Nat
  BY Depths
<1>7. /\ IsTable(Materialized(<<s, t>>, i))
      /\ Pairs(Materialized(<<s, t>>, i)) = Pairs(s) \o Pairs(t)
  BY <1>2, <1>4, <1>5, <1>6, MaterializedTable, PairsOfTwo
<1>8. OneTable(h) /\ h[1] = Materialized(<<s, t>>, i)
  BY <1>3, <1>7, TableInAFrame
<1>9. ASSUME NEW j, FrameOf(p, i + 1, f), FrameOf(p, j, g), Right(p, i) = j PROVE FrameOf(p, i, h)
  <2>1. PICK of : /\ \A k \in 1 .. Len(p) : of[k] = ColumnsFrom(p, of, k)
                  /\ \A k \in 1 .. Len(p) : Columns(p, k) = of[k]
    BY ColumnsAre
  <2>2. Left(p, i) = i + 1 /\ Left(p, i) \in i + 1 .. Len(p) /\ Right(p, i) \in i + 1 .. Len(p)
    BY LeftAndRight DEF Leaf
  <2>3. i + 1 \in 1 .. Len(p) /\ j \in 1 .. Len(p)
    BY <1>6, <1>9, <2>2, Depths
  <2>4. Columns(p, i) = of[i + 1] \o of[j]
    BY <1>9, <2>1, <2>2 DEF ColumnsFrom
  <2>5. of[i + 1] = Pairs(s) /\ of[j] = Pairs(t)
    BY <1>9, <2>1, <2>3 DEF FrameOf, s, t
  <2> QED
    BY <1>7, <1>8, <2>4, <2>5 DEF FrameOf
<1> QED
  BY <1>8, <1>9

LEMMA UnionFrame ==
  ASSUME NEW p, IsPlan(p), NEW i \in 1 .. Len(p), p[i].op = "union", NEW f, OneTable(f),
         NEW h, h = <<Made(i, get_size_column(f, 1), i)>>
  PROVE  OneTable(h) /\ (FrameOf(p, i + 1, f) => FrameOf(p, i, h))
<1> DEFINE t == f[1]
           n == Len(t)
<1>1. IsTable(t) /\ i \in Nat
  BY Depths DEF OneTable
<1>2. n \in Nat /\ n > 0
  BY <1>1, LenProperties DEF IsTable
<1>3. h = <<Made(i, n, i)>>
  BY DEF get_size_column
<1> HIDE DEF n
<1>4. IsTable(Made(i, n, i)) /\ Pairs(Made(i, n, i)) = [c \in 1 .. n |-> <<i, c>>]
  BY <1>1, <1>2, MadeTable
<1>5. OneTable(h) /\ h[1] = Made(i, n, i)
  BY <1>3, <1>4, TableInAFrame
<1>6. ASSUME FrameOf(p, i + 1, f) PROVE FrameOf(p, i, h)
  <2>1. PICK of : /\ \A k \in 1 .. Len(p) : of[k] = ColumnsFrom(p, of, k)
                  /\ \A k \in 1 .. Len(p) : Columns(p, k) = of[k]
    BY ColumnsAre
  <2>2. Left(p, i) = i + 1 /\ Left(p, i) \in i + 1 .. Len(p)
    BY LeftAndRight DEF Leaf
  <2>3. i + 1 \in 1 .. Len(p)
    BY <1>1, <2>2, Depths
  <2>4. DOMAIN of[i + 1] = 1 .. n
    BY <1>6, <2>1, <2>3 DEF FrameOf, Pairs, n
  <2>5. Columns(p, i) = [c \in 1 .. n |-> <<i, c>>]
    BY <2>1, <2>2, <2>4 DEF ColumnsFrom
  <2> QED
    BY <1>4, <1>5, <2>5 DEF FrameOf
<1> QED
  BY <1>5, <1>6

LEMMA NewColumnsFrame ==
  ASSUME NEW p, IsPlan(p), NEW i \in 1 .. Len(p), p[i].op \in {"project", "aggregate"},
         NEW rows \in Nat, NEW h, h = <<Made(i, p[i].width, rows)>>
  PROVE  OneTable(h) /\ FrameOf(p, i, h)
<1>1. p[i].width \in Nat /\ p[i].width > 0 /\ i \in Nat
  BY Depths DEF IsPlan, HasColumns
<1>2. /\ IsTable(Made(i, p[i].width, rows))
      /\ Pairs(Made(i, p[i].width, rows)) = [c \in 1 .. p[i].width |-> <<i, c>>]
  BY <1>1, MadeTable
<1>3. PICK of : /\ \A j \in 1 .. Len(p) : of[j] = ColumnsFrom(p, of, j)
                /\ \A j \in 1 .. Len(p) : Columns(p, j) = of[j]
  BY ColumnsAre
<1>4. Columns(p, i) = [c \in 1 .. p[i].width |-> <<i, c>>]
  BY <1>3 DEF ColumnsFrom
<1> QED
  BY <1>2, <1>4, TableInAFrame DEF FrameOf

LEMMA SameColumnsFrame ==
  ASSUME NEW p, IsPlan(p), NEW i \in 1 .. Len(p), p[i].op \in {"sort", "filter"},
         NEW f, OneTable(f), NEW h, h = f \/ h = <<Materialized(f, i)>>
  PROVE  OneTable(h) /\ (FrameOf(p, i + 1, f) => FrameOf(p, i, h))
<1> DEFINE t == f[1]
<1>1. IsTable(t) /\ i \in Nat /\ FlattenSeq(f) = t
  BY Depths, FlatFrame DEF OneTable
<1>2. t \in Seq(Column) /\ Len(t) > 0
  BY <1>1 DEF IsTable
<1>3. IsTable(Materialized(f, i)) /\ Pairs(Materialized(f, i)) = Pairs(t)
  <2> HIDE DEF t
  <2> QED
    BY <1>1, <1>2, MaterializedTable
<1>4. OneTable(h) /\ Pairs(h[1]) = Pairs(t)
  BY <1>3, TableInAFrame
<1>5. ASSUME FrameOf(p, i + 1, f) PROVE FrameOf(p, i, h)
  <2>1. PICK of : /\ \A k \in 1 .. Len(p) : of[k] = ColumnsFrom(p, of, k)
                  /\ \A k \in 1 .. Len(p) : Columns(p, k) = of[k]
    BY ColumnsAre
  <2>2. Left(p, i) = i + 1 /\ Left(p, i) \in i + 1 .. Len(p)
    BY LeftAndRight DEF Leaf
  <2>3. i + 1 \in 1 .. Len(p)
    BY <1>1, <2>2, Depths
  <2>4. Columns(p, i) = Columns(p, i + 1)
    BY <2>1, <2>2, <2>3 DEF ColumnsFrom
  <2> QED
    BY <1>4, <1>5, <2>4 DEF FrameOf
<1> QED
  BY <1>4, <1>5

-----------------------------------------------------------------------------
(* The calls: where one is, and the part it goes on to evaluate.           *)
Frames == Seq(Seq(Column)) \cup {Null}
CallRecord ==
  [first : Nat, last : Nat, depth : Nat, at : {"enter", "left", "right", "child"}, left : Frames]

Start(p, c) == StartOf(p, c.first, c.last, c.depth)
FirstOf(p, c) == IF c.at = "right" THEN Start(p, c) ELSE c.first + 1
LastOf(p, c) == IF c.at = "left" THEN Start(p, c) - 1 ELSE c.last

IsCall(p, c) ==
  /\ c \in CallRecord /\ c.first \in 1 .. Len(p) + 1 /\ c.last \in 0 .. Len(p)
  /\ c.at # "enter" => c.first <= c.last
  /\ c.at \in {"left", "right"} => p[c.first].op \in Double /\ Start(p, c) <= c.last + 1
  /\ c.at = "right" => OneTable(c.left)
  /\ c.at = "child" => p[c.first].op \notin Double /\ ~(c.first = c.last /\ p[c.first].op = "scan")

(* Each call is evaluated for the one below it in the stack.               *)
Calls(p, c, d) ==
  c.at # "enter" /\ d.first = FirstOf(p, c) /\ d.last = LastOf(p, c) /\ d.depth = c.depth + 1
Chained(p, s) ==
  /\ s \in Seq(CallRecord)
  /\ \A k \in 1 .. Len(s) : IsCall(p, s[k])
  /\ s # <<>> => s[1].first = 1 /\ s[1].last = Len(p) /\ s[1].depth = 0
  /\ \A k \in 1 .. Len(s) - 1 : Calls(p, s[k], s[k + 1])

(* A leaf that has lines after it in its part is never applied; with no    *)
(* such call in the stack, the parts are parts of the tree.                *)
Sure(p, s, k) == \A m \in 1 .. k : p[s[m].first].op \notin Leaf
Placed(p, c) ==
  /\ Whole(p, c.first, c.last) /\ p[c.first].depth = c.depth
  /\ c.at = "right" =>
       IsSubtree(p, c.first + 1, Start(p, c) - 1) /\ FrameOf(p, c.first + 1, c.left)
InTree(p, s) == \A k \in 1 .. Len(s) : Sure(p, s, k - 1) => Placed(p, s[k])

(* What was returned, once a call has returned.                            *)
Arrived(s) == s = <<>> \/ s[Len(s)].at # "enter"
DoneFrom(p, s) == IF s = <<>> THEN 1 ELSE FirstOf(p, s[Len(s)])
DoneTo(p, s) == IF s = <<>> THEN Len(p) ELSE LastOf(p, s[Len(s)])
Returned(p, s, r) ==
  /\ ~Arrived(s) => r = Null
  /\ Arrived(s) => OneTable(r)
  /\ Arrived(s) /\ Sure(p, s, Len(s)) =>
       IsSubtree(p, DoneFrom(p, s), DoneTo(p, s)) /\ FrameOf(p, DoneFrom(p, s), r)

(* If the worker can evaluate the plan, every part is a subtree, and the   *)
(* calls below are for the operators that a line is under.                 *)
Exact(p, s) ==
  Evaluable(p) => \A k \in 1 .. Len(s) :
    /\ IsSubtree(p, s[k].first, s[k].last)
    /\ s[k].at # "enter" => p[s[k].first].op \notin Leaf
    /\ \A j \in 1 .. Len(p) : Under(p, j, s[k].first) <=> \E m \in 1 .. k - 1 : s[m].first = j

(* Then the operators up to a line were applied, but those of the stack.   *)
Reached(p, s) ==
  IF s = <<>> THEN Len(p)
  ELSE IF s[Len(s)].at = "enter" THEN s[Len(s)].first - 1 ELSE LastOf(p, s[Len(s)])
Applied(p, s, a) ==
  /\ a \in Seq(1 .. Len(p))
  /\ Evaluable(p) =>
       /\ \A x \in 1 .. Len(p) : (\E i \in 1 .. Len(a) : a[i] = x) <=>
            x <= Reached(p, s) /\ \A m \in 1 .. Len(s) : s[m].first # x
       /\ \A i, j \in 1 .. Len(a) : i < j => After(p, a[j], a[i])

-----------------------------------------------------------------------------
LEMMA PoppedStack ==
  ASSUME NEW X, NEW s \in Seq(X), s # <<>>
  PROVE  /\ Len(s) \in Nat /\ Len(s) > 0 /\ Last(s) = s[Len(s)] /\ s[Len(s)] \in X
         /\ Front(s) \in Seq(X) /\ Len(Front(s)) = Len(s) - 1
         /\ \A k \in 1 .. Len(s) - 1 : Front(s)[k] = s[k]
<1>1. Len(s) \in Nat /\ Len(s) > 0 /\ s[Len(s)] \in X
  BY LenProperties, ElementOfSeq, EmptySeq
<1>2. \A k \in 1 .. Len(s) - 1 : s[k] \in X
  BY <1>1, ElementOfSeq
<1> DEFINE n == Len(s) - 1
           f == SubSeq(s, 1, n)
<1>3. n \in Nat /\ \A k \in 1 .. n : s[k] \in X
  BY <1>1, <1>2
<1> HIDE DEF n
<1>4. /\ f \in Seq(X) /\ Len(f) = IF 1 <= n THEN n - 1 + 1 ELSE 0
      /\ \A k \in 1 .. n - 1 + 1 : f[k] = s[1 + k - 1]
  <2>1. 1 \in Int /\ n \in Int
    BY <1>3
  <2> QED
    BY <1>3, <2>1, SubSeqProperties
<1>5. Len(f) = n /\ \A k \in 1 .. n : f[k] = s[k]
  <2> HIDE DEF f
  <2>1. n - 1 + 1 = n /\ \A k \in 1 .. n : 1 + k - 1 = k
    BY <1>3
  <2> QED
    BY <1>3, <1>4, <2>1
<1>6. f = Front(s)
  BY DEF Front, n
<1> HIDE DEF f
<1>7. f \in Seq(X) /\ Len(f) = Len(s) - 1 /\ \A k \in 1 .. Len(s) - 1 : f[k] = s[k]
  BY <1>4, <1>5 DEF n
<1> QED
  BY <1>1, <1>6, <1>7 DEF Last

(* The stack when the call on top, which has become c, makes the call d.   *)
Pushed(s, c, d) == Append(Append(Front(s), c), d)

AsPushed(u, X, s, c, d) ==
  /\ u \in Seq(X) /\ Len(u) = Len(s) + 1
  /\ \A k \in 1 .. Len(s) - 1 : u[k] = s[k]
  /\ u[Len(s)] = c /\ u[Len(s) + 1] = d

LEMMA PushedStack ==
  ASSUME NEW X, NEW s \in Seq(X), s # <<>>, NEW c \in X, NEW d \in X
  PROVE  AsPushed(Pushed(s, c, d), X, s, c, d)
<1> DEFINE f == Front(s)
           g == Append(f, c)
           n == Len(s)
<1>1. /\ n \in Nat /\ n > 0 /\ f \in Seq(X) /\ Len(f) = n - 1
      /\ \A k \in 1 .. n - 1 : f[k] = s[k]
  BY PoppedStack
<1> HIDE DEF f
<1>2. /\ g \in Seq(X) /\ Len(g) = Len(f) + 1
      /\ \A k \in 1 .. Len(f) : g[k] = f[k]
      /\ g[Len(f) + 1] = c
  <2>1. f \in Seq(X) /\ c \in X
    BY <1>1
  <2> QED
    BY <2>1
<1> HIDE DEF g
<1> DEFINE u == Pushed(s, c, d)
<1>3. /\ u \in Seq(X) /\ Len(u) = Len(g) + 1
      /\ \A k \in 1 .. Len(g) : u[k] = g[k]
      /\ u[Len(g) + 1] = d
  <2>1. g \in Seq(X) /\ d \in X /\ u = Append(g, d)
    BY <1>2 DEF g, f, Pushed
  <2> QED
    BY <2>1
<1> HIDE DEF n, u
<1>4. Len(g) = n /\ Len(f) + 1 = n
  BY <1>1, <1>2
<1>5. n \in 1 .. Len(g) /\ \A k \in 1 .. n - 1 : k \in 1 .. Len(g) /\ k \in 1 .. Len(f)
  BY <1>1, <1>4
<1> QED
  <2>1. AsPushed(u, X, s, c, d)
    BY <1>1, <1>2, <1>3, <1>4, <1>5 DEF AsPushed, n
  <2> QED
    BY <2>1 DEF u

(* A call returns.                                                         *)
LEMMA StackOfTheCaller ==
  ASSUME NEW p, IsPlan(p), NEW s, Chained(p, s), s # <<>>,
         NEW u, u = Front(s), NEW c, c = s[Len(s)]
  PROVE  /\ Chained(p, u) /\ Arrived(u) /\ IsCall(p, c)
         /\ DoneFrom(p, u) = c.first /\ DoneTo(p, u) = c.last /\ Reached(p, u) = c.last
         /\ Len(s) \in Nat /\ Len(s) > 0 /\ Len(u) = Len(s) - 1
         /\ \A k \in 1 .. Len(s) - 1 : u[k] = s[k] /\ k \in 1 .. Len(s)
         /\ \A k \in 0 .. Len(s) - 1 : Sure(p, u, k) <=> Sure(p, s, k)
<1> DEFINE n == Len(s)
           X == CallRecord
<1>1. /\ s \in Seq(X) /\ \A k \in 1 .. n : IsCall(p, s[k])
      /\ s[1].first = 1 /\ s[1].last = Len(p) /\ s[1].depth = 0
      /\ \A k \in 1 .. n - 1 : Calls(p, s[k], s[k + 1])
  BY DEF Chained
<1> HIDE DEF X
<1>2. /\ n \in Nat /\ n > 0 /\ u \in Seq(X) /\ Len(u) = n - 1
      /\ \A k \in 1 .. n - 1 : u[k] = s[k]
  BY <1>1, PoppedStack
<1> HIDE DEF n
<1>3. \A k \in 1 .. n - 1 : k \in 1 .. n
  BY <1>2
<1>4. n \in 1 .. n
  BY <1>2
<1>5. IsCall(p, c)
  BY <1>1, <1>4 DEF n
<1>6. u # <<>> => n - 1 \in 1 .. n - 1 /\ 1 \in 1 .. n - 1 /\ u[1] = s[1]
  <2>1. SUFFICES ASSUME u # <<>> PROVE n - 1 > 0
    BY <1>2
  <2> QED
    BY <1>2, <2>1, EmptySeq
<1>7. \A k \in 1 .. n - 1 - 1 : k \in 1 .. n - 1 /\ k + 1 \in 1 .. n - 1
  BY <1>2
<1>8. Chained(p, u)
  BY <1>1, <1>2, <1>3, <1>6, <1>7 DEF Chained, X
<1>9. \A k \in 0 .. n - 1 : Sure(p, u, k) <=> Sure(p, s, k)
  <2>1. \A k \in 0 .. n - 1 : \A m \in 1 .. k : u[m] = s[m]
    BY <1>2
  <2> QED
    BY <2>1 DEF Sure
<1>10. CASE u = <<>>
  <2>1. n = 1
    BY <1>2, <1>10, EmptySeq
  <2>2. c.first = 1 /\ c.last = Len(p)
    BY <1>1, <2>1 DEF n
  <2>3. Arrived(u) /\ DoneFrom(p, u) = c.first /\ DoneTo(p, u) = c.last /\ Reached(p, u) = c.last
    BY <1>10, <2>2 DEF Arrived, DoneFrom, DoneTo, Reached
  <2> QED
    BY <1>2, <1>3, <1>5, <1>8, <1>9, <2>3 DEF n
<1>11. CASE u # <<>>
  <2>1. n - 1 \in 1 .. n - 1 /\ n - 1 + 1 = n
    BY <1>2, <1>6, <1>11
  <2>2. Calls(p, s[n - 1], s[n]) /\ u[Len(u)] = s[n - 1] /\ s[n] = c
    BY <1>1, <1>2, <2>1 DEF n
  <2>3. /\ u[Len(u)].at # "enter" /\ c.first = FirstOf(p, u[Len(u)])
        /\ c.last = LastOf(p, u[Len(u)])
    BY <2>2 DEF Calls
  <2>4. Arrived(u) /\ DoneFrom(p, u) = c.first /\ DoneTo(p, u) = c.last /\ Reached(p, u) = c.last
    BY <1>11, <2>3 DEF Arrived, DoneFrom, DoneTo, Reached
  <2> QED
    BY <1>2, <1>3, <1>5, <1>8, <1>9, <2>4 DEF n
<1> QED
  BY <1>10, <1>11

LEMMA ReturnKeeps ==
  ASSUME NEW p, IsPlan(p), NEW s, Chained(p, s), InTree(p, s), Exact(p, s), s # <<>>,
         NEW c, c = s[Len(s)], NEW h, OneTable(h),
         Sure(p, s, Len(s) - 1) => IsSubtree(p, c.first, c.last) /\ FrameOf(p, c.first, h)
  PROVE  /\ Chained(p, Front(s)) /\ InTree(p, Front(s)) /\ Exact(p, Front(s))
         /\ Returned(p, Front(s), h)
<1> DEFINE u == Front(s)
           n == Len(s)
<1>1. /\ Chained(p, u) /\ Arrived(u)
      /\ DoneFrom(p, u) = c.first /\ DoneTo(p, u) = c.last
      /\ n \in Nat /\ n > 0 /\ Len(u) = n - 1
      /\ \A k \in 1 .. n - 1 : u[k] = s[k] /\ k \in 1 .. n
      /\ \A k \in 0 .. n - 1 : Sure(p, u, k) <=> Sure(p, s, k)
  BY StackOfTheCaller
<1> HIDE DEF u
<1>2. InTree(p, u)
  <2>1. SUFFICES ASSUME NEW k \in 1 .. n - 1, Sure(p, u, k - 1) PROVE Placed(p, u[k])
    BY <1>1 DEF InTree
  <2>2. k - 1 \in 0 .. n - 1
    BY <1>1
  <2> QED
    BY <1>1, <2>1, <2>2 DEF InTree
<1>3. Exact(p, u)
  <2>1. SUFFICES ASSUME Evaluable(p), NEW k \in 1 .. n - 1
        PROVE /\ IsSubtree(p, u[k].first, u[k].last)
              /\ u[k].at # "enter" => p[u[k].first].op \notin Leaf
              /\ \A j \in 1 .. Len(p) : Under(p, j, u[k].first) <=> \E m \in 1 .. k - 1 : u[m].first = j
    BY <1>1 DEF Exact
  <2>2. /\ IsSubtree(p, s[k].first, s[k].last)
        /\ s[k].at # "enter" => p[s[k].first].op \notin Leaf
        /\ \A j \in 1 .. Len(p) : Under(p, j, s[k].first) <=> \E m \in 1 .. k - 1 : s[m].first = j
    BY <1>1, <2>1 DEF Exact
  <2>3. \A m \in 1 .. k - 1 : m \in 1 .. n - 1
    BY <1>1
  <2> QED
    BY <1>1, <2>2, <2>3
<1>4. Returned(p, u, h)
  <2>1. n - 1 \in 0 .. n - 1
    BY <1>1
  <2> QED
    BY <1>1, <2>1 DEF Returned
<1> QED
  BY <1>1, <1>2, <1>3, <1>4 DEF u

LEMMA ReturnApplies ==
  ASSUME NEW p, IsPlan(p), NEW s, Chained(p, s), Exact(p, s), s # <<>>,
         NEW c, c = s[Len(s)], NEW a, Applied(p, s, a),
         c.at = "enter" => c.first = c.last, c.at # "left", c.first <= Len(p)
  PROVE  Applied(p, Front(s), Append(a, c.first))
<1> DEFINE u == Front(s)
           n == Len(s)
           b == Append(a, c.first)
           f == c.first
           e == c.last
           L == Len(p)
           X == 1 .. L
<1>1. /\ Reached(p, u) = e /\ IsCall(p, c)
      /\ n \in Nat /\ n > 0 /\ Len(u) = n - 1
      /\ \A k \in 1 .. n - 1 : u[k] = s[k] /\ k \in 1 .. n
  BY StackOfTheCaller
<1>2. L \in Nat /\ f \in 1 .. L /\ f \in X /\ e \in 0 .. L
  BY <1>1, Depths DEF IsCall
<1>3. a \in Seq(X)
  BY DEF Applied
<1> HIDE DEF u, X, f
<1>4. /\ b \in Seq(X) /\ Len(a) \in Nat /\ Len(b) = Len(a) + 1
      /\ \A k \in 1 .. Len(a) : b[k] = a[k]
      /\ b[Len(a) + 1] = f
  BY <1>2, <1>3 DEF f
<1> HIDE DEF b
<1>14. SUFFICES Applied(p, u, b)
  BY DEF u, b, f
<1>15. b \in Seq(1 .. L)
  BY <1>4 DEF X
<1>5. SUFFICES ASSUME Evaluable(p)
               PROVE  /\ \A x \in 1 .. L : (\E i \in 1 .. Len(b) : b[i] = x) <=>
                           x <= e /\ \A m \in 1 .. n - 1 : u[m].first # x
                      /\ \A i, j \in 1 .. Len(b) : i < j => After(p, b[j], b[i])
  BY <1>1, <1>15 DEF Applied
<1> DEFINE r == Reached(p, s)
<1>6. /\ \A x \in 1 .. L : (\E i \in 1 .. Len(a) : a[i] = x) <=>
           x <= r /\ \A m \in 1 .. n : s[m].first # x
      /\ \A i, j \in 1 .. Len(a) : i < j => After(p, a[j], a[i])
  BY <1>5 DEF Applied
<1>7. \/ r = f - 1 /\ f = e
      \/ r = e
  BY <1>1 DEF Reached, LastOf, f
<1> HIDE DEF r
<1>8. n \in 1 .. n /\ s[n].first = f
  BY <1>1 DEF f
<1>9. /\ IsSubtree(p, f, e) /\ f <= e
      /\ \A j \in 1 .. L : Under(p, j, f) <=> \E m \in 1 .. n - 1 : s[m].first = j
  BY <1>5, <1>8 DEF Exact, IsSubtree, f
<1>10. \A m \in 1 .. n - 1 : s[m].first # f
  <2>1. ~Under(p, f, f)
    BY <1>2 DEF Under
  <2> QED
    BY <1>2, <1>9, <2>1
<1>11. ASSUME NEW x \in 1 .. L
       PROVE  (\E i \in 1 .. Len(b) : b[i] = x) <=> x <= e /\ \A m \in 1 .. n - 1 : u[m].first # x
  <2>1. (\E i \in 1 .. Len(b) : b[i] = x) <=> (\E i \in 1 .. Len(a) : a[i] = x) \/ x = f
    <3>1. \A i \in 1 .. Len(a) : i \in 1 .. Len(b)
      BY <1>4
    <3>2. \A i \in 1 .. Len(b) : i \in 1 .. Len(a) \/ i = Len(a) + 1
      BY <1>4
    <3>3. Len(a) + 1 \in 1 .. Len(b)
      BY <1>4
    <3> QED
      BY <1>4, <3>1, <3>2, <3>3
  <2>2. (\A m \in 1 .. n : s[m].first # x) <=> (\A m \in 1 .. n - 1 : s[m].first # x) /\ x # f
    <3>1. \A m \in 1 .. n : m \in 1 .. n - 1 \/ m = n
      BY <1>1
    <3> QED
      BY <1>1, <1>8, <3>1
  <2>3. (\A m \in 1 .. n - 1 : u[m].first # x) <=> (\A m \in 1 .. n - 1 : s[m].first # x)
    BY <1>1
  <2>4. x # f => (x <= r <=> x <= e)
    BY <1>2, <1>7
  <2>5. x = f => x <= e /\ \A m \in 1 .. n - 1 : s[m].first # x
    BY <1>9, <1>10
  <2> QED
    BY <1>6, <2>1, <2>2, <2>3, <2>4, <2>5
<1>12. ASSUME NEW i \in 1 .. Len(a) PROVE After(p, f, a[i])
  <2>1. a[i] \in 1 .. L
    BY <1>3, ElementOfSeq DEF X
  <2>2. a[i] <= r /\ \A m \in 1 .. n : s[m].first # a[i]
    BY <1>6, <2>1
  <2>3. a[i] # f /\ a[i] <= e /\ ~Under(p, a[i], f)
    <3>1. a[i] # f
      BY <1>8, <2>2
    <3>2. ~Under(p, a[i], f)
      BY <1>1, <1>9, <2>1, <2>2
    <3> QED
      BY <1>2, <1>7, <2>1, <2>2, <3>1, <3>2
  <2>4. CASE a[i] < f
    BY <2>3, <2>4 DEF After
  <2>5. CASE a[i] > f
    <3>1. a[i] \in f + 1 .. e
      BY <1>2, <2>1, <2>3, <2>5
    <3>2. Under(p, f, a[i])
      BY <1>9, <2>1, <3>1, PartsOfTheTree
    <3> QED
      BY <3>2 DEF After
  <2> QED
    BY <1>2, <2>1, <2>3, <2>4, <2>5
<1>13. ASSUME NEW i \in 1 .. Len(b), NEW j \in 1 .. Len(b), i < j PROVE After(p, b[j], b[i])
  <2>1. i \in 1 .. Len(a) /\ (j \in 1 .. Len(a) \/ j = Len(a) + 1)
    BY <1>4, <1>13
  <2>2. CASE j \in 1 .. Len(a)
    BY <1>4, <1>6, <1>13, <2>1, <2>2
  <2>3. CASE j = Len(a) + 1
    BY <1>4, <1>12, <2>1, <2>3
  <2> QED
    BY <2>1, <2>2, <2>3
<1> QED
  BY <1>11, <1>13

(* A call is made.                                                         *)
LEMMA SureWhenEvaluable ==
  ASSUME NEW p, NEW s, Chained(p, s), Exact(p, s), Evaluable(p), Len(s) \in Nat
  PROVE  Sure(p, s, Len(s) - 1)
<1>1. SUFFICES ASSUME NEW m \in 1 .. Len(s) - 1 PROVE p[s[m].first].op \notin Leaf
  BY DEF Sure
<1>2. s[m].at # "enter" /\ m \in 1 .. Len(s)
  BY DEF Chained, Calls
<1> QED
  BY <1>2 DEF Exact

(* The part that a call goes on with, if the operator has inputs.          *)
LEMMA NextPart ==
  ASSUME NEW p, IsPlan(p), NEW c, IsCall(p, c), c.at # "enter", Placed(p, c),
         p[c.first].op \notin Leaf
  PROVE  Whole(p, FirstOf(p, c), LastOf(p, c)) /\ p[FirstOf(p, c)].depth = c.depth + 1
<1>1. c.at \in {"left", "right", "child"}
  BY DEF IsCall, CallRecord
<1>2. Whole(p, c.first, c.last) /\ p[c.first].depth = c.depth
  BY DEF Placed
<1>3. CASE c.at = "child"
  <2>1. FirstOf(p, c) = c.first + 1 /\ LastOf(p, c) = c.last
    BY <1>3 DEF FirstOf, LastOf
  <2> QED
    BY <1>2, <2>1, PartOfTheChild
<1>4. CASE c.at \in {"left", "right"}
  <2>1. p[c.first].op \in Double
    BY <1>4 DEF IsCall
  <2>2. /\ Whole(p, c.first + 1, Start(p, c) - 1) /\ Whole(p, Start(p, c), c.last)
        /\ p[c.first + 1].depth = c.depth + 1 /\ p[Start(p, c)].depth = c.depth + 1
    BY <1>2, <2>1, PartsOfTwo DEF Start
  <2> QED
    BY <1>4, <2>2 DEF FirstOf, LastOf
<1> QED
  BY <1>1, <1>3, <1>4

LEMMA NextSubtree ==
  ASSUME NEW p, IsPlan(p), Evaluable(p), NEW c, IsCall(p, c), c.at # "enter", Placed(p, c),
         IsSubtree(p, c.first, c.last)
  PROVE  /\ p[c.first].op \notin Leaf
         /\ IsSubtree(p, FirstOf(p, c), LastOf(p, c))
         /\ FirstOf(p, c) \in Inputs(p, c.first)
<1> DEFINE f == c.first
           e == c.last
<1>1. /\ c.at \in {"left", "right", "child"}
      /\ DOMAIN p = 1 .. Len(p) /\ Len(p) \in Nat
      /\ f \in 1 .. Len(p) /\ e \in 1 .. Len(p) /\ f <= e /\ p[f].depth = c.depth
  BY Depths DEF IsCall, CallRecord, IsSubtree, Placed
<1>2. p[f].op \in Double \cup Single \cup Leaf
  BY <1>1 DEF IsPlan
<1>3. CASE c.at = "child"
  <2>1. FirstOf(p, c) = f + 1 /\ LastOf(p, c) = e
    BY <1>3 DEF FirstOf, LastOf
  <2>2. p[f].op \notin Double /\ ~(f = e /\ p[f].op = "scan")
    BY <1>3 DEF IsCall
  <2>3. p[f].op \notin Leaf
    <3>1. SUFFICES ASSUME p[f].op \in Leaf PROVE FALSE
      OBVIOUS
    <3>2. p[f].op = "scan" /\ Inputs(p, f) = {}
      BY <1>1, <3>1 DEF Evaluable, Leaf
    <3>3. f + 1 \in f + 1 .. e /\ f + 1 \in 2 .. Len(p) /\ f + 1 \in 1 .. Len(p) /\ f + 1 - 1 = f
      BY <1>1, <2>2, <3>2
    <3>4. Under(p, f, f + 1)
      BY <3>3, PartsOfTheTree
    <3>5. /\ p[f + 1].depth > p[f].depth /\ p[f + 1].depth <= p[f].depth + 1
          /\ p[f + 1].depth \in Nat /\ p[f].depth \in Nat
      BY <1>1, <3>3, Depths DEF IsSubtree
    <3>6. p[f + 1].depth = p[f].depth + 1
      BY <3>5
    <3> QED
      BY <1>1, <3>2, <3>3, <3>4, <3>6 DEF Inputs
  <2>4. PICK x : Inputs(p, f) = {x}
    BY <1>1, <1>2, <2>2, <2>3 DEF Evaluable
  <2>5. IsSubtree(p, f + 1, e) /\ f + 1 \in Inputs(p, f)
    BY <1>1, <2>3, <2>4, OneIsASubtree, HasInputs
  <2> QED
    BY <2>1, <2>3, <2>5
<1>4. CASE c.at \in {"left", "right"}
  <2>1. p[f].op \in Double
    BY <1>4 DEF IsCall
  <2>2. PICK x, y : Inputs(p, f) = {x, y}
    BY <1>1, <2>1 DEF Evaluable
  <2>3. /\ IsSubtree(p, f + 1, Start(p, c) - 1) /\ IsSubtree(p, Start(p, c), e)
        /\ f + 1 \in Inputs(p, f) /\ Start(p, c) \in Inputs(p, f)
    <3>1. Start(p, c) = StartOf(p, f, e, p[f].depth)
      BY <1>1 DEF Start
    <3> DEFINE start == Start(p, c)
    <3> HIDE DEF start
    <3>2. start = StartOf(p, f, e, p[f].depth)
      BY <3>1 DEF start
    <3>3. /\ IsSubtree(p, f + 1, start - 1) /\ IsSubtree(p, start, e)
          /\ f + 1 \in Inputs(p, f) /\ start \in Inputs(p, f)
      BY <2>1, <2>2, <3>2, TwoAreSubtrees
    <3> QED
      BY <3>3 DEF start
  <2> QED
    BY <1>4, <2>1, <2>3 DEF FirstOf, LastOf, Double, Leaf
<1> QED
  BY <1>1, <1>3, <1>4

LEMMA StackOfTheCallee ==
  ASSUME NEW p, NEW s, Chained(p, s), s # <<>>,
         NEW c, IsCall(p, c), NEW d, IsCall(p, d), Calls(p, c, d),
         c.first = s[Len(s)].first, c.last = s[Len(s)].last, c.depth = s[Len(s)].depth,
         NEW u, u = Pushed(s, c, d)
  PROVE  /\ Chained(p, u) /\ u # <<>>
         /\ Len(s) \in Nat /\ Len(s) > 0 /\ Len(u) = Len(s) + 1
         /\ \A k \in 1 .. Len(s) - 1 : u[k] = s[k] /\ k \in 1 .. Len(s)
         /\ u[Len(s)] = c /\ u[Len(s) + 1] = d
         /\ \A k \in 0 .. Len(s) : Sure(p, u, k) <=> Sure(p, s, k)
         /\ \A k \in 1 .. Len(s) : u[k].first = s[k].first
<1> DEFINE n == Len(s)
           X == CallRecord
<1>1. /\ s \in Seq(X) /\ \A k \in 1 .. n : IsCall(p, s[k])
      /\ s[1].first = 1 /\ s[1].last = Len(p) /\ s[1].depth = 0
      /\ \A k \in 1 .. n - 1 : Calls(p, s[k], s[k + 1])
  BY DEF Chained
<1>2. c \in X /\ d \in X
  BY DEF IsCall
<1> HIDE DEF X
<1>3. /\ u \in Seq(X) /\ Len(u) = n + 1
      /\ \A k \in 1 .. n - 1 : u[k] = s[k]
      /\ u[n] = c /\ u[n + 1] = d
  <2>1. s \in Seq(X)
    BY <1>1
  <2>2. AsPushed(u, X, s, c, d)
    BY <1>2, <2>1, PushedStack
  <2> QED
    BY <2>2 DEF AsPushed
<1>4. n \in Nat /\ n > 0
  BY <1>1, PoppedStack
<1>5. c.first = s[n].first /\ c.last = s[n].last /\ c.depth = s[n].depth
  OBVIOUS
<1> HIDE DEF n
<1>6. \A k \in 1 .. n - 1 : k \in 1 .. n /\ k + 1 \in 1 .. n
  BY <1>4
<1>7. \A k \in 1 .. n : k \in 1 .. n - 1 \/ k = n
  BY <1>4
<1>8. \A k \in 1 .. n : u[k].first = s[k].first /\ u[k].last = s[k].last /\ u[k].depth = s[k].depth
  BY <1>3, <1>5, <1>7
<1>9. ASSUME NEW k \in 1 .. n + 1 PROVE IsCall(p, u[k])
  <2>1. k \in 1 .. n - 1 \/ k = n \/ k = n + 1
    BY <1>4
  <2> QED
    BY <1>1, <1>3, <1>6, <2>1
<1>10. ASSUME NEW k \in 1 .. n PROVE Calls(p, u[k], u[k + 1])
  <2>1. CASE k = n
    BY <1>3, <2>1
  <2>2. CASE k # n
    <3>1. k \in 1 .. n - 1 /\ k + 1 \in 1 .. n
      BY <1>4, <2>2
    <3>2. Calls(p, s[k], s[k + 1])
      BY <1>1, <3>1
    <3> QED
      BY <1>3, <1>8, <3>1, <3>2 DEF Calls
  <2> QED
    BY <2>1, <2>2
<1>11. 1 \in 1 .. n /\ n + 1 - 1 = n
  BY <1>4
<1>12. Chained(p, u)
  <2>1. u \in Seq(CallRecord) /\ \A k \in 1 .. Len(u) : IsCall(p, u[k])
    BY <1>3, <1>9 DEF X
  <2>2. u[1].first = 1 /\ u[1].last = Len(p) /\ u[1].depth = 0
    BY <1>1, <1>8, <1>11
  <2>3. \A k \in 1 .. Len(u) - 1 : Calls(p, u[k], u[k + 1])
    <3>1. Len(u) - 1 = n
      BY <1>3, <1>4
    <3> QED
      BY <1>10, <3>1
  <2> QED
    BY <2>1, <2>2, <2>3 DEF Chained
<1>13. u # <<>>
  BY <1>3, <1>4, EmptySeq
<1>14. \A k \in 0 .. n : Sure(p, u, k) <=> Sure(p, s, k)
  <2>1. ASSUME NEW k \in 0 .. n, NEW m \in 1 .. k PROVE u[m].first = s[m].first
    <3>1. m \in 1 .. n
      BY <1>4
    <3> QED
      BY <1>8, <3>1
  <2> QED
    BY <2>1 DEF Sure
<1> QED
  BY <1>3, <1>4, <1>6, <1>8, <1>12, <1>13, <1>14 DEF n

LEMMA CallKeeps ==
  ASSUME NEW p, IsPlan(p), NEW s, Chained(p, s), InTree(p, s), Exact(p, s), s # <<>>,
         NEW c, IsCall(p, c), NEW d, IsCall(p, d), Calls(p, c, d), d.at = "enter",
         c.first = s[Len(s)].first, c.last = s[Len(s)].last, c.depth = s[Len(s)].depth,
         Sure(p, s, Len(s) - 1) => Placed(p, c),
         NEW u, u = Pushed(s, c, d)
  PROVE  Chained(p, u) /\ InTree(p, u) /\ Exact(p, u) /\ Returned(p, u, Null)
<1> DEFINE n == Len(s)
<1>1. /\ Chained(p, u) /\ u # <<>>
      /\ n \in Nat /\ n > 0 /\ Len(u) = n + 1
      /\ \A k \in 1 .. n - 1 : u[k] = s[k] /\ k \in 1 .. n
      /\ u[n] = c /\ u[n + 1] = d
      /\ \A k \in 0 .. n : Sure(p, u, k) <=> Sure(p, s, k)
      /\ \A k \in 1 .. n : u[k].first = s[k].first
  BY StackOfTheCallee
<1>2. /\ d.first = FirstOf(p, c) /\ d.last = LastOf(p, c) /\ d.depth = c.depth + 1
      /\ c.at # "enter" /\ c.first = s[n].first /\ c.last = s[n].last
      /\ Sure(p, s, n - 1) => Placed(p, c)
  BY DEF Calls
<1> HIDE DEF n
<1>3. n \in 1 .. n /\ n \in 0 .. n /\ n - 1 \in 0 .. n
  BY <1>1
<1>4. ASSUME NEW k \in 1 .. n + 1, Sure(p, u, k - 1) PROVE Placed(p, u[k])
  <2>1. CASE k \in 1 .. n - 1
    <3>1. k - 1 \in 0 .. n
      BY <1>1, <2>1
    <3> QED
      BY <1>1, <1>4, <2>1, <3>1 DEF InTree, n
  <2>2. CASE k = n
    BY <1>1, <1>2, <1>3, <1>4, <2>2
  <2>3. CASE k = n + 1
    <3>1. k - 1 = n
      BY <1>1, <2>3
    <3>2. Sure(p, s, n)
      BY <1>1, <1>3, <1>4, <3>1
    <3>3. Sure(p, s, n - 1)
      BY <1>1, <3>2 DEF Sure
    <3>4. p[c.first].op \notin Leaf
      BY <1>2, <1>3, <3>2 DEF Sure
    <3>5. Whole(p, d.first, d.last) /\ p[d.first].depth = d.depth
      BY <1>2, <3>3, <3>4, NextPart
    <3> QED
      BY <1>1, <2>3, <3>5 DEF Placed
  <2> QED
    BY <1>1, <2>1, <2>2, <2>3
<1>5. InTree(p, u)
  BY <1>1, <1>4 DEF InTree
<1>6. ASSUME Evaluable(p), NEW k \in 1 .. n + 1
      PROVE  /\ IsSubtree(p, u[k].first, u[k].last)
             /\ u[k].at # "enter" => p[u[k].first].op \notin Leaf
             /\ \A j \in 1 .. Len(p) : Under(p, j, u[k].first) <=> \E m \in 1 .. k - 1 : u[m].first = j
  <2>1. ASSUME NEW m \in 1 .. n
        PROVE  /\ IsSubtree(p, s[m].first, s[m].last)
               /\ s[m].at # "enter" => p[s[m].first].op \notin Leaf
               /\ \A j \in 1 .. Len(p) :
                    Under(p, j, s[m].first) <=> \E q \in 1 .. m - 1 : s[q].first = j
    BY <1>6 DEF Exact, n
  <2>2. Sure(p, s, n - 1)
    BY <1>1, <1>6, SureWhenEvaluable DEF n
  <2>3. /\ p[c.first].op \notin Leaf /\ IsSubtree(p, d.first, d.last)
        /\ d.first \in Inputs(p, c.first)
    <3>1. IsSubtree(p, c.first, c.last)
      BY <1>2, <1>3, <2>1
    <3> QED
      BY <1>2, <1>6, <2>2, <3>1, NextSubtree
  <2>4. CASE k \in 1 .. n - 1
    <3>1. \A m \in 1 .. k - 1 : m \in 1 .. n
      BY <1>1, <2>4
    <3>2. (\A j : (\E m \in 1 .. k - 1 : u[m].first = j) <=> (\E m \in 1 .. k - 1 : s[m].first = j))
      BY <1>1, <3>1
    <3> QED
      BY <1>1, <2>1, <2>4, <3>2
  <2>5. CASE k = n
    <3>1. \A m \in 1 .. n - 1 : m \in 1 .. n
      BY <1>1
    <3>2. (\A j : (\E m \in 1 .. n - 1 : u[m].first = j) <=> (\E m \in 1 .. n - 1 : s[m].first = j))
      BY <1>1, <3>1
    <3> QED
      BY <1>1, <1>2, <1>3, <2>1, <2>3, <2>5, <3>2
  <2>6. CASE k = n + 1
    <3>1. k - 1 = n /\ \A m \in 1 .. n : m \in 1 .. n - 1 \/ m = n
      BY <1>1, <2>6
    <3>2. ASSUME NEW j \in 1 .. Len(p)
          PROVE  Under(p, j, d.first) <=> \E m \in 1 .. n : u[m].first = j
      <4>1. c.first \in 1 .. Len(p)
        BY <1>2, <1>3, <2>1 DEF IsSubtree
      <4>2. Under(p, j, d.first) <=> j = c.first \/ Under(p, j, c.first)
        BY <2>3, <4>1, UnderAnInput
      <4>3. Under(p, j, c.first) <=> \E m \in 1 .. n - 1 : s[m].first = j
        BY <1>2, <1>3, <2>1
      <4>4. (\E m \in 1 .. n : u[m].first = j) <=> (\E m \in 1 .. n : s[m].first = j)
        BY <1>1
      <4>5. (\E m \in 1 .. n : s[m].first = j)
              <=> (\E m \in 1 .. n - 1 : s[m].first = j) \/ c.first = j
        BY <1>1, <1>2, <1>3, <3>1
      <4> QED
        BY <4>2, <4>3, <4>4, <4>5
    <3> QED
      BY <1>1, <2>3, <2>6, <3>1, <3>2
  <2>7. k \in 1 .. n - 1 \/ k = n \/ k = n + 1
    BY <1>1
  <2> QED
    BY <2>4, <2>5, <2>6, <2>7
<1>7. Exact(p, u)
  BY <1>1, <1>6 DEF Exact
<1>8. Returned(p, u, Null)
  BY <1>1 DEF Returned, Arrived
<1> QED
  BY <1>1, <1>5, <1>7, <1>8

LEMMA CallAppliesNothing ==
  ASSUME NEW p, IsPlan(p), NEW s, Chained(p, s), s # <<>>, NEW a, Applied(p, s, a),
         NEW c, IsCall(p, c), NEW d, IsCall(p, d), Calls(p, c, d), d.at = "enter",
         c.first = s[Len(s)].first, c.last = s[Len(s)].last, c.depth = s[Len(s)].depth,
         \/ s[Len(s)].at = "enter" /\ c.at \in {"left", "child"}
         \/ s[Len(s)].at = "left" /\ c.at = "right",
         NEW u, u = Pushed(s, c, d)
  PROVE  Applied(p, u, a)
<1> DEFINE n == Len(s)
           e == s[n]
<1>1. /\ u # <<>> /\ n \in Nat /\ n > 0 /\ Len(u) = n + 1 /\ u[n + 1] = d
      /\ \A k \in 1 .. n : u[k].first = s[k].first
  BY StackOfTheCallee
<1>2. Reached(p, u) = d.first - 1
  BY <1>1 DEF Reached
<1>3. /\ d.first = FirstOf(p, c) /\ c.first \in Nat /\ Start(p, e) = Start(p, c)
      /\ c.first = e.first /\ d.first \in Nat
  BY DEF Calls, IsCall, CallRecord, Start
<1>4. ASSUME NEW x \in 1 .. Len(p)
      PROVE  /\ x <= Reached(p, s) /\ (\A m \in 1 .. n : s[m].first # x)
                <=> x <= d.first - 1 /\ (\A m \in 1 .. n + 1 : u[m].first # x)
  <2>1. (\A m \in 1 .. n + 1 : u[m].first # x) <=> (\A m \in 1 .. n : s[m].first # x) /\ d.first # x
    <3>1. /\ \A m \in 1 .. n + 1 : m \in 1 .. n \/ m = n + 1
          /\ \A m \in 1 .. n : m \in 1 .. n + 1
          /\ n + 1 \in 1 .. n + 1
      BY <1>1
    <3> QED
      BY <1>1, <3>1
  <2>2. x <= d.first - 1 => d.first # x
    BY <1>3, Depths
  <2>3. CASE e.at = "enter" /\ c.at \in {"left", "child"}
    <3>1. Reached(p, s) = c.first - 1 /\ d.first = c.first + 1
      BY <1>3, <2>3 DEF Reached, FirstOf
    <3>2. (\A m \in 1 .. n : s[m].first # x) => x # c.first
      BY <1>1, <1>3
    <3>3. x # c.first => (x <= Reached(p, s) <=> x <= d.first - 1)
      BY <1>3, <3>1, Depths
    <3> QED
      BY <2>1, <2>2, <3>2, <3>3
  <2>4. CASE e.at = "left" /\ c.at = "right"
    <3>1. Reached(p, s) = d.first - 1
      BY <1>3, <2>4 DEF Reached, FirstOf, LastOf
    <3> QED
      BY <2>1, <2>2, <3>1
  <2> QED
    BY <2>3, <2>4
<1> QED
  BY <1>1, <1>2, <1>4 DEF Applied

-----------------------------------------------------------------------------
(* The inductive invariant.                                                *)
IInv ==
  /\ IsPlan(plan) /\ empty \in BOOLEAN
  /\ Chained(plan, calls) /\ InTree(plan, calls) /\ Exact(plan, calls)
  /\ Returned(plan, calls, returned) /\ Applied(plan, calls, applied)
  /\ outcome \in {"running", "returned", "threw", "undefined"}
  /\ calls = <<>> <=> outcome = "returned"
  /\ outcome \in {"threw", "undefined"} => ~Evaluable(plan)

LEMMA Initially == Init => IInv
<1> SUFFICES ASSUME Init PROVE IInv
  OBVIOUS
<1> DEFINE c == Call(1, Len(plan), 0)
           X == CallRecord
<1>1. /\ plan \in Plans /\ empty \in BOOLEAN /\ calls = <<c>> /\ returned = Null
      /\ outcome = "running" /\ applied = <<>>
  BY DEF Init
<1>2. IsPlan(plan)
  BY <1>1, PlansAreTrees DEF IsPlan
<1>3. /\ Len(plan) \in Nat /\ Len(plan) > 0 /\ DOMAIN plan = 1 .. Len(plan) /\ plan[1].depth = 0
  BY <1>2, Depths
<1>4. /\ c.first = 1 /\ c.last = Len(plan) /\ c.depth = 0 /\ c.at = "enter" /\ c \in X
  BY <1>3 DEF Call, CallRecord, Frames
<1> HIDE DEF c, X
<1>5. calls \in Seq(X) /\ Len(calls) = 1 /\ calls[1] = c /\ calls # <<>>
  BY <1>1, <1>4
<1>6. IsCall(plan, c)
  BY <1>3, <1>4 DEF IsCall, X
<1>7. Chained(plan, calls)
  BY <1>4, <1>5, <1>6 DEF Chained, X
<1>8. InTree(plan, calls)
  <2>1. Whole(plan, 1, Len(plan))
    BY <1>3 DEF Whole, Ends
  <2> QED
    BY <1>3, <1>4, <1>5, <2>1 DEF InTree, Placed
<1>9. Exact(plan, calls)
  <2>1. \A i \in 2 .. Len(plan) : plan[i].depth > plan[1].depth
    BY <1>2, <1>3, Depths
  <2>2. IsSubtree(plan, 1, Len(plan))
    BY <1>3, <2>1 DEF IsSubtree, Ends
  <2>3. \A j \in 1 .. Len(plan) : ~Under(plan, j, 1)
    BY DEF Under
  <2> QED
    BY <1>4, <1>5, <2>2, <2>3 DEF Exact
<1>10. Returned(plan, calls, returned)
  BY <1>1, <1>4, <1>5 DEF Returned, Arrived
<1>11. Applied(plan, calls, applied)
  <2>1. applied \in Seq(1 .. Len(plan)) /\ Len(applied) = 0
    BY <1>1
  <2>2. Reached(plan, calls) = 0
    BY <1>4, <1>5 DEF Reached
  <2> QED
    BY <1>3, <2>1, <2>2 DEF Applied
<1> QED
  BY <1>1, <1>2, <1>5, <1>7, <1>8, <1>9, <1>10, <1>11 DEF IInv

(* What an action knows of the call on top.                                *)
LEMMA OnTop ==
  ASSUME IInv, outcome = "running"
  PROVE  /\ calls # <<>> /\ top = calls[Len(calls)] /\ Len(calls) \in Nat
         /\ IsPlan(plan) /\ IsCall(plan, top)
         /\ Sure(plan, calls, Len(calls) - 1) => Placed(plan, top)
         /\ Evaluable(plan) => /\ IsSubtree(plan, top.first, top.last)
                               /\ Sure(plan, calls, Len(calls) - 1)
                               /\ top.at # "enter" => plan[top.first].op \notin Leaf
         /\ top.at # "enter" =>
              /\ OneTable(returned) /\ top.first \in 1 .. Len(plan)
              /\ Sure(plan, calls, Len(calls) - 1) /\ plan[top.first].op \notin Leaf =>
                   IsSubtree(plan, FirstOf(plan, top), LastOf(plan, top))
                     /\ FrameOf(plan, FirstOf(plan, top), returned)
<1> DEFINE n == Len(calls)
<1>1. /\ IsPlan(plan) /\ calls # <<>>
      /\ Chained(plan, calls) /\ InTree(plan, calls) /\ Exact(plan, calls)
      /\ Returned(plan, calls, returned)
  BY DEF IInv
<1>2. n \in Nat /\ n > 0 /\ top = calls[n]
  BY <1>1, PoppedStack DEF Chained, top
<1>3. n \in 1 .. n /\ \A m \in 1 .. n : m \in 1 .. n - 1 \/ m = n
  BY <1>2
<1>4. IsCall(plan, top) /\ (Sure(plan, calls, n - 1) => Placed(plan, top))
  BY <1>1, <1>2, <1>3 DEF Chained, InTree
<1>5. ASSUME Evaluable(plan)
      PROVE  /\ IsSubtree(plan, top.first, top.last)
             /\ Sure(plan, calls, n - 1)
             /\ top.at # "enter" => plan[top.first].op \notin Leaf
  BY <1>1, <1>2, <1>3, <1>5, SureWhenEvaluable DEF Exact
<1>6. ASSUME top.at # "enter"
      PROVE  /\ OneTable(returned) /\ top.first \in 1 .. Len(plan)
             /\ Sure(plan, calls, n - 1) /\ plan[top.first].op \notin Leaf =>
                  IsSubtree(plan, FirstOf(plan, top), LastOf(plan, top))
                    /\ FrameOf(plan, FirstOf(plan, top), returned)
  <2>1. Arrived(calls) /\ OneTable(returned)
    BY <1>1, <1>2, <1>6 DEF Arrived, Returned
  <2>2. top.first \in 1 .. Len(plan)
    BY <1>1, <1>4, <1>6, Depths DEF IsCall
  <2>3. Sure(plan, calls, n - 1) /\ plan[top.first].op \notin Leaf => Sure(plan, calls, n)
    BY <1>2, <1>3 DEF Sure
  <2> QED
    BY <1>1, <1>2, <2>1, <2>2, <2>3 DEF Returned, DoneFrom, DoneTo
<1> QED
  BY <1>1, <1>2, <1>4, <1>5, <1>6

(* The three kinds of steps.                                               *)
LEMMA StepOfReturn ==
  ASSUME IInv, outcome = "running", NEW h, Apply(h), OneTable(h),
         top.at = "enter" => top.first = top.last, top.at # "left",
         Sure(plan, calls, Len(calls) - 1) =>
           IsSubtree(plan, top.first, top.last) /\ FrameOf(plan, top.first, h)
  PROVE  IInv'
<1> DEFINE n == Len(calls)
           c == top
<1>1. /\ calls # <<>> /\ c = calls[n] /\ n \in Nat /\ IsPlan(plan) /\ IsCall(plan, c)
      /\ c.at # "enter" => c.first \in 1 .. Len(plan)
  BY OnTop
<1>2. /\ returned' = h /\ calls' = Front(calls) /\ applied' = Append(applied, c.first)
      /\ outcome' = IF n = 1 THEN "returned" ELSE outcome
      /\ plan' = plan /\ empty' = empty
  BY DEF Apply, Return
<1>3. /\ Chained(plan, calls) /\ InTree(plan, calls) /\ Exact(plan, calls)
      /\ Applied(plan, calls, applied) /\ empty \in BOOLEAN
  BY DEF IInv
<1> HIDE DEF c
<1>4. /\ Chained(plan, Front(calls)) /\ InTree(plan, Front(calls)) /\ Exact(plan, Front(calls))
      /\ Returned(plan, Front(calls), h)
  BY <1>1, <1>3, ReturnKeeps DEF c
<1>5. c.first <= Len(plan) /\ (c.at = "enter" => c.first = c.last) /\ c.at # "left"
  BY <1>1, Depths DEF IsCall, c
<1>6. Applied(plan, Front(calls), Append(applied, c.first))
  BY <1>1, <1>3, <1>5, ReturnApplies
<1>7. calls' = <<>> <=> n = 1
  <2>1. Len(calls') = n - 1 /\ calls' \in Seq(CallRecord)
    BY <1>1, <1>2, <1>3, PoppedStack DEF Chained
  <2> QED
    BY <1>1, <2>1, EmptySeq
<1> QED
  BY <1>1, <1>2, <1>3, <1>4, <1>6, <1>7 DEF IInv

LEMMA StepOfCall ==
  ASSUME IInv, outcome = "running", NEW c, IsCall(plan, c),
         NEW d, IsCall(plan, d), Calls(plan, c, d), d.at = "enter",
         calls' = Pushed(calls, c, d), returned' = Null,
         UNCHANGED <<plan, empty, outcome, applied>>,
         c.first = top.first, c.last = top.last, c.depth = top.depth,
         Sure(plan, calls, Len(calls) - 1) => Placed(plan, c),
         \/ top.at = "enter" /\ c.at \in {"left", "child"}
         \/ top.at = "left" /\ c.at = "right"
  PROVE  IInv'
<1>1. calls # <<>> /\ top = calls[Len(calls)] /\ IsPlan(plan)
  BY OnTop
<1>2. /\ Chained(plan, calls) /\ InTree(plan, calls) /\ Exact(plan, calls)
      /\ Applied(plan, calls, applied) /\ empty \in BOOLEAN
  BY DEF IInv
<1> DEFINE u == Pushed(calls, c, d)
<1>3. Chained(plan, u) /\ InTree(plan, u) /\ Exact(plan, u) /\ Returned(plan, u, Null)
  BY <1>1, <1>2, CallKeeps
<1>4. Applied(plan, u, applied)
  BY <1>1, <1>2, CallAppliesNothing
<1>5. u # <<>>
  BY <1>1, <1>2, StackOfTheCallee
<1> QED
  BY <1>1, <1>2, <1>3, <1>4, <1>5 DEF IInv

LEMMA StepOfStop ==
  ASSUME IInv, outcome = "running", NEW how \in {"threw", "undefined"}, Stop(how), ~Evaluable(plan)
  PROVE  IInv'
<1>1. outcome' = how /\ UNCHANGED <<plan, empty, calls, returned, applied>>
  BY DEF Stop
<1>2. calls # <<>>
  BY OnTop
<1> QED
  BY <1>1, <1>2 DEF IInv

-----------------------------------------------------------------------------
(* The actions: first those that stop before a call or make one.           *)
LEMMA NoLineKeeps == IInv /\ NoLine => IInv'
<1> SUFFICES ASSUME IInv, NoLine PROVE IInv'
  OBVIOUS
<1>1. outcome = "running" /\ top.first > top.last /\ Stop("undefined")
  BY DEF NoLine, Running
<1>2. ~Evaluable(plan)
  <2>1. SUFFICES ASSUME Evaluable(plan) PROVE FALSE
    OBVIOUS
  <2>2. IsSubtree(plan, top.first, top.last) /\ Len(plan) \in Nat
    BY <1>1, <2>1, OnTop, Depths
  <2> QED
    BY <1>1, <2>2 DEF IsSubtree
<1> QED
  BY <1>1, <1>2, StepOfStop

LEMMA ScanKeeps == IInv /\ Scan => IInv'
<1> SUFFICES ASSUME IInv, Scan PROVE IInv'
  OBVIOUS
<1> DEFINE f == top.first
           h == <<Scanned(f)>>
<1>1. /\ outcome = "running" /\ top.at = "enter" /\ f = top.last /\ plan[f].op = "scan"
      /\ Apply(h)
  BY DEF Scan, Only, Running, is_scan, line
<1>2. /\ IsPlan(plan) /\ IsCall(plan, top)
      /\ Sure(plan, calls, Len(calls) - 1) => Placed(plan, top)
  BY <1>1, OnTop
<1>3. f \in 1 .. Len(plan)
  BY <1>1, <1>2, Depths DEF IsCall
<1>4. OneTable(h) /\ FrameOf(plan, f, h)
  BY <1>1, <1>2, <1>3, ScanFrame DEF Scanned
<1>5. ASSUME Placed(plan, top) PROVE IsSubtree(plan, f, top.last)
  BY <1>1, <1>3, <1>5 DEF Placed, Whole, IsSubtree
<1> HIDE DEF h
<1> QED
  BY <1>1, <1>2, <1>4, <1>5, StepOfReturn

LEMMA ScanUnknownKeeps == IInv /\ ScanUnknown => IInv'
<1> SUFFICES ASSUME IInv, ScanUnknown PROVE IInv'
  OBVIOUS
<1>1. /\ outcome = "running" /\ top.at = "enter" /\ top.first = top.last /\ plan[top.first].op = "scan"
      /\ plan[top.first].table \notin Known /\ Stop("threw")
  BY DEF ScanUnknown, Only, Running, is_scan, line
<1>2. top.first \in DOMAIN plan
  BY <1>1, OnTop, Depths DEF IsCall
<1>3. ~Evaluable(plan)
  BY <1>1, <1>2 DEF Evaluable
<1> QED
  BY <1>1, <1>3, StepOfStop

(* The start of the right input in the code is the one above.              *)
LEMMA SameStart == other_depth_one_start = Start(plan, top)
BY DEF other_depth_one_start, Start, StartOf, RightInputs, RightsOf, DepthInCall

(* The bounds of the two inputs of a call, as numbers: the left input ends  *)
(* before the line where the right one starts.                             *)
LEMMA BoundsOfTwo ==
  ASSUME NEW n \in Nat, NEW i \in 1 .. n, NEW j \in 1 .. n, NEW s \in Nat,
         s >= i + 2, ~(s > j + 1)
  PROVE  s - 1 \in 0 .. n /\ s - 1 \in Nat /\ i + 1 \in 1 .. n + 1 /\ i + 1 \in Nat
OBVIOUS

LEMMA EvaluateLeftKeeps == IInv /\ EvaluateLeft => IInv'
<1> SUFFICES ASSUME IInv, EvaluateLeft PROVE IInv'
  OBVIOUS
<1> DEFINE start == Start(plan, top)
           f == top.first
           e == top.last
           c == [top EXCEPT !.at = "left"]
           d == Call(f + 1, start - 1, top.depth + 1)
<1>1. /\ outcome = "running" /\ top.at = "enter" /\ f <= e /\ plan[f].op \in Double
      /\ IF start > e + 1 THEN Stop("undefined") ELSE Evaluate("left", f + 1, start - 1)
  BY SameStart DEF EvaluateLeft, Running, TwoInputs, is_double_input, line, Input
<1>2. /\ IsPlan(plan) /\ IsCall(plan, top) /\ top \in CallRecord
      /\ f \in 1 .. Len(plan) /\ e \in 1 .. Len(plan) /\ Len(plan) \in Nat
      /\ f \in Nat /\ e \in Nat /\ top.depth \in Nat
      /\ Sure(plan, calls, Len(calls) - 1) => Placed(plan, top)
  BY <1>1, OnTop, Depths DEF IsCall, CallRecord
<1>3. start \in Nat /\ start >= f + 2
  BY <1>2, StartType DEF Start
<1>4. CASE start > e + 1
  <2>1. ~Evaluable(plan)
    <3>1. SUFFICES ASSUME Evaluable(plan) PROVE FALSE
      OBVIOUS
    <3>2. Placed(plan, top)
      BY <1>1, <1>2, <3>1, OnTop
    <3>3. Whole(plan, f, e) /\ start = StartOf(plan, f, e, plan[f].depth)
      BY <3>2 DEF Placed, Start
    <3>4. start \in f + 2 .. e
      BY <1>1, <1>2, <3>3, PartsOfTwo
    <3> QED
      BY <1>2, <1>4, <3>4
  <2> QED
    BY <1>1, <1>4, <2>1, StepOfStop
<1>5. CASE ~(start > e + 1)
  <2>1. /\ calls' = Pushed(calls, c, d) /\ returned' = Null
        /\ UNCHANGED <<plan, empty, outcome, applied>>
    BY <1>1, <1>5 DEF Evaluate, Pushed, top
  <2>2. /\ c \in CallRecord /\ c.first = f /\ c.last = e /\ c.depth = top.depth /\ c.at = "left"
        /\ Start(plan, c) = start
    BY <1>2 DEF CallRecord, Start
  <2>3. IsCall(plan, c)
    BY <1>1, <1>2, <1>3, <1>5, <2>2 DEF IsCall
  <2>4. /\ start - 1 \in 0 .. Len(plan) /\ start - 1 \in Nat /\ f + 1 \in 1 .. Len(plan) + 1 /\ f + 1 \in Nat
        /\ top.depth + 1 \in Nat
    <3> HIDE DEF start, f, e, c, d
    <3>1. top.depth + 1 \in Nat
      BY <1>2
    <3> QED
      BY <1>2, <1>3, <1>5, <3>1, BoundsOfTwo
  <2> HIDE DEF start
  <2>5. /\ d \in CallRecord /\ d.first = f + 1 /\ d.last = start - 1 /\ d.depth = top.depth + 1
        /\ d.at = "enter"
    BY <2>4 DEF Call, CallRecord, Frames
  <2>6. IsCall(plan, d)
    BY <2>4, <2>5 DEF IsCall
  <2> HIDE DEF c, d
  <2>7. Calls(plan, c, d)
    BY <2>2, <2>5 DEF Calls, FirstOf, LastOf
  <2>8. Sure(plan, calls, Len(calls) - 1) => Placed(plan, c)
    BY <1>2, <2>2 DEF Placed
  <2> QED
    BY <1>1, <2>1, <2>2, <2>3, <2>5, <2>6, <2>7, <2>8, StepOfCall
<1> QED
  BY <1>4, <1>5

LEMMA EvaluateRightKeeps == IInv /\ EvaluateRight => IInv'
<1> SUFFICES ASSUME IInv, EvaluateRight PROVE IInv'
  OBVIOUS
<1> DEFINE start == Start(plan, top)
           f == top.first
           e == top.last
           c == [top EXCEPT !.at = "right", !.left = returned]
           d == Call(start, e, top.depth + 1)
<1>1. /\ outcome = "running" /\ top.at = "left"
      /\ calls' = Pushed(calls, c, d) /\ returned' = Null
      /\ UNCHANGED <<plan, empty, outcome, applied>>
  BY SameStart DEF EvaluateRight, Back, Running, Input, Pushed, top
<1>2. /\ IsPlan(plan) /\ IsCall(plan, top) /\ top \in CallRecord
      /\ f \in 1 .. Len(plan) /\ e \in 0 .. Len(plan) /\ f <= e /\ Len(plan) \in Nat
      /\ f \in Nat /\ e \in Nat /\ top.depth \in Nat
      /\ plan[f].op \in Double /\ start <= e + 1
      /\ Sure(plan, calls, Len(calls) - 1) => Placed(plan, top)
      /\ OneTable(returned)
  BY <1>1, OnTop, Depths DEF IsCall, CallRecord
<1>3. start \in Nat /\ start >= f + 2
  BY <1>2, StartType DEF Start
<1>4. returned \in Frames
  <2>1. returned = <<returned[1]>> /\ returned[1] \in Seq(Column)
    BY <1>2 DEF OneTable, IsTable
  <2> DEFINE Y == Seq(Column)
             t == returned[1]
  <2>2. t \in Y
    BY <2>1
  <2> HIDE DEF Y, t
  <2>3. <<t>> \in Seq(Y)
    BY <2>2
  <2> QED
    BY <2>1, <2>3 DEF Frames, Y, t
<1>5. /\ c \in CallRecord /\ c.first = f /\ c.last = e /\ c.depth = top.depth /\ c.at = "right"
      /\ c.left = returned /\ Start(plan, c) = start
  BY <1>2, <1>4 DEF CallRecord, Start
<1>6. IsCall(plan, c)
  BY <1>2, <1>5 DEF IsCall
<1>7. start \in 1 .. Len(plan) + 1 /\ top.depth + 1 \in Nat
  BY <1>2, <1>3
<1> HIDE DEF start
<1>8. /\ d \in CallRecord /\ d.first = start /\ d.last = e /\ d.depth = top.depth + 1
      /\ d.at = "enter"
  BY <1>2, <1>3, <1>7 DEF Call, CallRecord, Frames
<1>9. IsCall(plan, d)
  BY <1>2, <1>7, <1>8 DEF IsCall
<1> HIDE DEF c, d
<1>10. Calls(plan, c, d)
  BY <1>5, <1>8 DEF Calls, FirstOf, LastOf
<1>11. ASSUME Sure(plan, calls, Len(calls) - 1) PROVE Placed(plan, c)
  <2>1. plan[f].op \notin Leaf
    BY <1>2 DEF Double, Leaf
  <2>2. FirstOf(plan, top) = f + 1 /\ LastOf(plan, top) = start - 1
    BY <1>1 DEF FirstOf, LastOf, start
  <2>3. IsSubtree(plan, f + 1, start - 1) /\ FrameOf(plan, f + 1, returned)
    BY <1>1, <1>11, <2>1, <2>2, OnTop
  <2> QED
    BY <1>2, <1>5, <1>11, <2>3 DEF Placed
<1> QED
  BY <1>1, <1>5, <1>6, <1>8, <1>9, <1>10, <1>11, StepOfCall

LEMMA EvaluateChildKeeps == IInv /\ EvaluateChild => IInv'
<1> SUFFICES ASSUME IInv, EvaluateChild PROVE IInv'
  OBVIOUS
<1> DEFINE f == top.first
           e == top.last
           c == [top EXCEPT !.at = "child"]
           d == Call(f + 1, e, top.depth + 1)
<1>1. /\ outcome = "running" /\ top.at = "enter" /\ f <= e
      /\ plan[f].op \notin Double /\ ~(f = e /\ plan[f].op = "scan")
      /\ calls' = Pushed(calls, c, d) /\ returned' = Null
      /\ UNCHANGED <<plan, empty, outcome, applied>>
  BY DEF EvaluateChild, Running, TwoInputs, Only, is_double_input, is_scan, line, Evaluate, Pushed, top
<1>2. /\ IsCall(plan, top) /\ top \in CallRecord
      /\ f \in 1 .. Len(plan) /\ e \in 0 .. Len(plan) /\ Len(plan) \in Nat
      /\ f \in Nat /\ e \in Nat /\ top.depth \in Nat
      /\ Sure(plan, calls, Len(calls) - 1) => Placed(plan, top)
  BY <1>1, OnTop, Depths DEF IsCall, CallRecord
<1>3. c \in CallRecord /\ c.first = f /\ c.last = e /\ c.depth = top.depth /\ c.at = "child"
  BY <1>2 DEF CallRecord
<1>4. IsCall(plan, c)
  BY <1>1, <1>2, <1>3 DEF IsCall
<1>5. f + 1 \in 1 .. Len(plan) + 1 /\ top.depth + 1 \in Nat
  BY <1>2
<1>6. d \in CallRecord /\ d.first = f + 1 /\ d.last = e /\ d.depth = top.depth + 1 /\ d.at = "enter"
  BY <1>2, <1>5 DEF Call, CallRecord, Frames
<1>7. IsCall(plan, d)
  BY <1>2, <1>5, <1>6 DEF IsCall
<1> HIDE DEF c, d
<1>8. Calls(plan, c, d)
  BY <1>3, <1>6 DEF Calls, FirstOf, LastOf
<1>9. Sure(plan, calls, Len(calls) - 1) => Placed(plan, c)
  BY <1>2, <1>3 DEF Placed
<1> QED
  BY <1>1, <1>3, <1>4, <1>6, <1>7, <1>8, <1>9, StepOfCall

(* The frames of the inputs, when the operator is applied.                 *)
LEMMA BothInputs ==
  ASSUME IInv, outcome = "running", top.at = "right"
  PROVE  /\ IsPlan(plan) /\ top.first \in 1 .. Len(plan) /\ plan[top.first].op \in Double
         /\ OneTable(top.left) /\ OneTable(returned)
         /\ Sure(plan, calls, Len(calls) - 1) =>
              /\ IsSubtree(plan, top.first, top.last)
              /\ FrameOf(plan, top.first + 1, top.left)
              /\ FrameOf(plan, Right(plan, top.first), returned)
              /\ Inputs(plan, top.first) = {top.first + 1, Right(plan, top.first)}
<1> DEFINE f == top.first
           e == top.last
           start == Start(plan, top)
<1>1. /\ IsPlan(plan) /\ IsCall(plan, top) /\ f \in 1 .. Len(plan) /\ OneTable(returned)
      /\ plan[f].op \in Double /\ OneTable(top.left)
  BY OnTop DEF IsCall
<1>2. plan[f].op \notin Leaf
  BY <1>1 DEF Double, Leaf
<1>3. ASSUME Sure(plan, calls, Len(calls) - 1)
      PROVE  /\ IsSubtree(plan, f, e) /\ FrameOf(plan, f + 1, top.left)
             /\ FrameOf(plan, Right(plan, f), returned)
             /\ Inputs(plan, f) = {f + 1, Right(plan, f)}
  <2>1. /\ Whole(plan, f, e) /\ start = StartOf(plan, f, e, plan[f].depth)
        /\ IsSubtree(plan, f + 1, start - 1) /\ FrameOf(plan, f + 1, top.left)
    BY <1>3, OnTop DEF Placed, Start
  <2>2. FirstOf(plan, top) = start /\ LastOf(plan, top) = e
    BY DEF FirstOf, LastOf
  <2>3. IsSubtree(plan, start, e) /\ FrameOf(plan, start, returned)
    BY <1>2, <1>3, <2>2, OnTop
  <2> HIDE DEF start
  <2>4. /\ IsSubtree(plan, f, e) /\ start > f + 1
        /\ f + 1 \in Inputs(plan, f) /\ start \in Inputs(plan, f)
        /\ \A j \in Inputs(plan, f) : j \in {f + 1, start}
    BY <1>1, <2>1, <2>3, SubtreeOfTwo
  <2>5. /\ Right(plan, f) \in Inputs(plan, f) /\ \A j \in Inputs(plan, f) : j <= Right(plan, f)
    BY <1>1, <1>2, LeftAndRight
  <2>6. Right(plan, f) = start
    <3>1. start <= Right(plan, f) /\ Right(plan, f) \in {f + 1, start}
      BY <2>4, <2>5
    <3>2. f + 1 \in Int /\ start \in Int
      BY <1>1, <2>3, Depths DEF IsSubtree
    <3> QED
      BY <2>4, <3>1, <3>2
  <2> QED
    BY <2>1, <2>3, <2>4, <2>6
<1> QED
  BY <1>1, <1>3

LEMMA OneInput ==
  ASSUME IInv, outcome = "running", top.at = "child"
  PROVE  /\ IsPlan(plan) /\ top.first \in 1 .. Len(plan) /\ plan[top.first].op \notin Double
         /\ OneTable(returned)
         /\ Sure(plan, calls, Len(calls) - 1) /\ plan[top.first].op \notin Leaf =>
              IsSubtree(plan, top.first, top.last) /\ FrameOf(plan, top.first + 1, returned)
<1> DEFINE f == top.first
           e == top.last
<1>1. /\ IsPlan(plan) /\ IsCall(plan, top) /\ f \in 1 .. Len(plan) /\ OneTable(returned)
      /\ plan[f].op \notin Double
  BY OnTop DEF IsCall
<1>2. ASSUME Sure(plan, calls, Len(calls) - 1), plan[f].op \notin Leaf
      PROVE  IsSubtree(plan, f, e) /\ FrameOf(plan, f + 1, returned)
  <2>1. Whole(plan, f, e)
    BY <1>2, OnTop DEF Placed
  <2>2. FirstOf(plan, top) = f + 1 /\ LastOf(plan, top) = e
    BY DEF FirstOf, LastOf
  <2>3. IsSubtree(plan, f + 1, e) /\ FrameOf(plan, f + 1, returned)
    BY <1>2, <2>2, OnTop
  <2> QED
    BY <1>1, <1>2, <2>1, <2>3, SubtreeOfOne
<1> QED
  BY <1>1, <1>2

LEMMA JoinKeeps == IInv /\ Join => IInv'
<1> SUFFICES ASSUME IInv, Join PROVE IInv'
  OBVIOUS
<1> DEFINE f == top.first
           h == <<Materialized(add_table(top.left, returned[1]), f)>>
<1>1. outcome = "running" /\ top.at = "right" /\ plan[f].op = "join" /\ Apply(h)
  BY DEF Join, Back, Running, line
<1>2. /\ IsPlan(plan) /\ f \in 1 .. Len(plan)
      /\ OneTable(top.left) /\ OneTable(returned)
      /\ Sure(plan, calls, Len(calls) - 1) =>
           /\ IsSubtree(plan, f, top.last) /\ FrameOf(plan, f + 1, top.left)
           /\ FrameOf(plan, Right(plan, f), returned)
  BY <1>1, BothInputs
<1>3. /\ OneTable(h)
      /\ \A j : FrameOf(plan, f + 1, top.left) /\ FrameOf(plan, j, returned) /\ Right(plan, f) = j
                  => FrameOf(plan, f, h)
  BY <1>1, <1>2, JoinFrame
<1> HIDE DEF h
<1> QED
  BY <1>1, <1>2, <1>3, StepOfReturn

LEMMA UnionKeeps == IInv /\ Union => IInv'
<1> SUFFICES ASSUME IInv, Union PROVE IInv'
  OBVIOUS
<1> DEFINE f == top.first
           h == <<Made(f, get_size_column(top.left, 1), f)>>
<1>1. outcome = "running" /\ top.at = "right" /\ plan[f].op = "union" /\ Apply(h)
  BY DEF Union, CanUnite, Back, Running, line
<1>2. /\ IsPlan(plan) /\ f \in 1 .. Len(plan) /\ OneTable(top.left)
      /\ Sure(plan, calls, Len(calls) - 1) =>
           IsSubtree(plan, f, top.last) /\ FrameOf(plan, f + 1, top.left)
  BY <1>1, BothInputs
<1>3. OneTable(h) /\ (FrameOf(plan, f + 1, top.left) => FrameOf(plan, f, h))
  BY <1>1, <1>2, UnionFrame
<1> HIDE DEF h
<1> QED
  BY <1>1, <1>2, <1>3, StepOfReturn

(* The worker refuses the unions that remove duplicates, and those whose   *)
(* inputs have not the same columns.                                       *)
LEMMA CannotUniteKeeps == IInv /\ CannotUnite => IInv'
<1> SUFFICES ASSUME IInv, CannotUnite PROVE IInv'
  OBVIOUS
<1> DEFINE f == top.first
           l == f + 1
           r == Right(plan, f)
<1>1. /\ outcome = "running" /\ top.at = "right" /\ plan[f].op # "join" /\ Stop("threw")
      /\ ~(plan[f].op = "union" /\ Len(top.left[1]) = Len(returned[1]))
  BY DEF CannotUnite, CanUnite, get_size_column, Back, Running, line
<1>2. ~Evaluable(plan)
  <2>1. SUFFICES ASSUME Evaluable(plan) PROVE FALSE
    OBVIOUS
  <2>2. /\ f \in DOMAIN plan /\ plan[f].op \in Double
        /\ FrameOf(plan, l, top.left) /\ FrameOf(plan, r, returned)
        /\ Inputs(plan, f) = {l, r}
    BY <1>1, <2>1, OnTop, BothInputs, Depths
  <2>3. plan[f].op = "union"
    BY <1>1, <2>1, <2>2 DEF Evaluable, Double
  <2>4. Len(Columns(plan, l)) = Len(Columns(plan, r))
    <3>1. PICK j, k \in DOMAIN plan : /\ j # k /\ Inputs(plan, f) = {j, k}
                                      /\ Len(Columns(plan, j)) = Len(Columns(plan, k))
      BY <2>1, <2>2, <2>3 DEF Evaluable
    <3>2. (j = l /\ k = r) \/ (j = r /\ k = l)
      BY <2>2, <3>1
    <3> QED
      BY <3>1, <3>2
  <2>5. ASSUME NEW t, IsTable(t) PROVE Len(Pairs(t)) = Len(t)
    <3>1. Len(t) \in Nat
      BY <2>5, LenProperties DEF IsTable
    <3> QED
      BY <3>1 DEF Pairs
  <2>6. Len(top.left[1]) = Len(returned[1])
    BY <2>2, <2>4, <2>5 DEF FrameOf, OneTable
  <2> QED
    BY <1>1, <2>3, <2>6
<1> QED
  BY <1>1, <1>2, StepOfStop

LEMMA ProjectKeeps == IInv /\ Project => IInv'
<1> SUFFICES ASSUME IInv, Project PROVE IInv'
  OBVIOUS
<1> DEFINE f == top.first
           rows == Head(Head(returned)).rows
           h == <<Made(f, plan[f].width, rows)>>
<1>1. outcome = "running" /\ top.at = "child" /\ plan[f].op = "project" /\ Apply(h)
  BY DEF Project, Back, Running, line
<1>2. /\ IsPlan(plan) /\ f \in 1 .. Len(plan) /\ OneTable(returned)
      /\ Sure(plan, calls, Len(calls) - 1) => IsSubtree(plan, f, top.last)
  BY <1>1, OneInput DEF Leaf
<1>3. rows \in Nat
  <2> DEFINE t == returned[1]
  <2>1. returned = <<t>> /\ t \in Seq(Column) /\ Len(t) > 0
    BY <1>2 DEF OneTable, IsTable
  <2> HIDE DEF t
  <2>2. Head(returned) = t
    BY <2>1
  <2>3. t # <<>>
    BY <2>1, EmptySeq
  <2>4. Head(t) \in Column
    BY <2>1, <2>3, HeadTailProperties
  <2> QED
    BY <2>2, <2>4 DEF Column
<1>4. OneTable(h) /\ FrameOf(plan, f, h)
  <2> HIDE DEF rows
  <2> QED
    BY <1>1, <1>2, <1>3, NewColumnsFrame
<1> HIDE DEF h
<1> QED
  BY <1>1, <1>2, <1>4, StepOfReturn

LEMMA AggregateKeeps == IInv /\ Aggregate => IInv'
<1> SUFFICES ASSUME IInv, Aggregate PROVE IInv'
  OBVIOUS
<1> DEFINE f == top.first
           h == <<Made(f, plan[f].width, f)>>
<1>1. outcome = "running" /\ top.at = "child" /\ plan[f].op = "aggregate" /\ Apply(h)
  BY DEF Aggregate, Back, Running, line
<1>2. /\ IsPlan(plan) /\ f \in 1 .. Len(plan) /\ OneTable(returned) /\ f \in Nat
      /\ Sure(plan, calls, Len(calls) - 1) => IsSubtree(plan, f, top.last)
  BY <1>1, OneInput, Depths DEF Leaf
<1>3. OneTable(h) /\ FrameOf(plan, f, h)
  BY <1>1, <1>2, NewColumnsFrame
<1> HIDE DEF h
<1> QED
  BY <1>1, <1>2, <1>3, StepOfReturn

LEMMA SortKeeps == IInv /\ Sort => IInv'
<1> SUFFICES ASSUME IInv, Sort PROVE IInv'
  OBVIOUS
<1> DEFINE f == top.first
           h == <<Materialized(SubSeq(returned, 1, 1), f)>>
<1>1. outcome = "running" /\ top.at = "child" /\ plan[f].op = "sort" /\ Apply(h)
  BY DEF Sort, Back, Running, line
<1>2. /\ IsPlan(plan) /\ f \in 1 .. Len(plan) /\ OneTable(returned)
      /\ Sure(plan, calls, Len(calls) - 1) =>
           IsSubtree(plan, f, top.last) /\ FrameOf(plan, f + 1, returned)
  BY <1>1, OneInput DEF Leaf
<1>3. SubSeq(returned, 1, 1) = returned
  <2> DEFINE t == returned[1]
             Y == {t}
  <2>1. returned = <<t>>
    BY <1>2 DEF OneTable
  <2>2. t \in Y
    OBVIOUS
  <2> HIDE DEF Y, t
  <2>3. returned \in Seq(Y) /\ Len(returned) = 1
    BY <2>1, <2>2
  <2> QED
    BY <2>3, SubSeqFull
<1>4. OneTable(h) /\ (FrameOf(plan, f + 1, returned) => FrameOf(plan, f, h))
  <2>1. h = <<Materialized(returned, f)>>
    BY <1>3
  <2> HIDE DEF h
  <2> QED
    BY <1>1, <1>2, <2>1, SameColumnsFrame
<1> HIDE DEF h
<1> QED
  BY <1>1, <1>2, <1>4, StepOfReturn

LEMMA FilterKeeps == IInv /\ Filter => IInv'
<1> SUFFICES ASSUME IInv, Filter PROVE IInv'
  OBVIOUS
<1> DEFINE f == top.first
           h == IF empty THEN returned ELSE <<Materialized(returned, f)>>
<1>1. outcome = "running" /\ top.at = "child" /\ plan[f].op = "filter" /\ Apply(h)
  BY DEF Filter, Back, Running, line
<1>2. /\ IsPlan(plan) /\ f \in 1 .. Len(plan) /\ OneTable(returned)
      /\ Sure(plan, calls, Len(calls) - 1) =>
           IsSubtree(plan, f, top.last) /\ FrameOf(plan, f + 1, returned)
  BY <1>1, OneInput DEF Leaf
<1>3. h = returned \/ h = <<Materialized(returned, f)>>
  OBVIOUS
<1> HIDE DEF h
<1>4. OneTable(h) /\ (FrameOf(plan, f + 1, returned) => FrameOf(plan, f, h))
  BY <1>1, <1>2, <1>3, SameColumnsFrame
<1> QED
  BY <1>1, <1>2, <1>4, StepOfReturn

LEMMA UnsupportedKeeps == IInv /\ Unsupported => IInv'
<1> SUFFICES ASSUME IInv, Unsupported PROVE IInv'
  OBVIOUS
<1> DEFINE f == top.first
<1>1. /\ outcome = "running" /\ top.at = "child" /\ Stop("threw")
      /\ plan[f].op \notin {"project", "aggregate", "sort", "filter"}
  BY DEF Unsupported, Back, Running, line
<1>2. ~Evaluable(plan)
  <2>1. SUFFICES ASSUME Evaluable(plan) PROVE FALSE
    OBVIOUS
  <2>2. f \in DOMAIN plan /\ IsPlan(plan) /\ plan[f].op \notin Double /\ plan[f].op \notin Leaf
    BY <1>1, <2>1, OnTop, OneInput, Depths
  <2>3. plan[f].op = "other"
    BY <1>1, <2>2 DEF IsPlan, Single
  <2> QED
    BY <2>1, <2>2, <2>3 DEF Evaluable
<1> QED
  BY <1>1, <1>2, StepOfStop

LEMMA Inductive == IInv /\ [Next]_vars => IInv'
<1>1. ASSUME IInv, UNCHANGED vars PROVE IInv'
  BY <1>1 DEF IInv, vars
<1> QED
  BY <1>1, NoLineKeeps, ScanKeeps, ScanUnknownKeeps, EvaluateLeftKeeps, EvaluateRightKeeps,
     JoinKeeps, UnionKeeps, CannotUniteKeeps, EvaluateChildKeeps, ProjectKeeps, AggregateKeeps,
     SortKeeps, FilterKeeps, UnsupportedKeeps DEF Next

LEMMA AlwaysIInv == Spec => []IInv
BY Initially, Inductive, PTL DEF Spec

-----------------------------------------------------------------------------
(* The types of the evaluation: the calls are for parts of the plan.       *)
THEOREM PlanTypes == Spec => []TypeOK
<1>1. IInv => TypeOK
  <2> SUFFICES ASSUME IInv PROVE TypeOK
    OBVIOUS
  <2>1. /\ IsPlan(plan) /\ Chained(plan, calls) /\ Applied(plan, calls, applied)
        /\ calls \in Seq(CallRecord) /\ applied \in Seq(1 .. Len(plan))
    BY DEF IInv, Chained, Applied
  <2>2. /\ Len(calls) \in Nat /\ DOMAIN calls = 1 .. Len(calls) /\ DOMAIN plan = 1 .. Len(plan)
        /\ Len(plan) \in Nat
    BY <2>1, LenProperties, Depths
  <2>3. ASSUME NEW k \in DOMAIN calls
        PROVE  /\ calls[k].first \in 1 .. Len(plan) + 1 /\ calls[k].last \in 0 .. Len(plan)
               /\ calls[k].at \in {"enter", "left", "right", "child"}
               /\ k < Len(calls) => calls[k].at # "enter"
    <3>1. IsCall(plan, calls[k])
      BY <2>1, <2>2 DEF Chained
    <3>2. k < Len(calls) => calls[k].at # "enter"
      <4>1. k < Len(calls) => k \in 1 .. Len(calls) - 1
        BY <2>2
      <4> QED
        BY <2>1, <4>1 DEF Chained, Calls
    <3> QED
      BY <3>1, <3>2 DEF IsCall, CallRecord
  <2>4. Range(applied) \subseteq Lines
    BY <2>1, <2>2, LenProperties, ElementOfSeq DEF Range, Lines
  <2> QED
    BY <2>3, <2>4 DEF TypeOK, IInv
<1> QED
  BY <1>1, AlwaysIInv, PTL

(* A call returns one table, whose columns have the same rows.             *)
THEOREM TablesAreWhole == Spec => []FramesAreTables
<1>1. IInv => FramesAreTables
  <2> SUFFICES ASSUME IInv, returned # Null PROVE FramesAreTables
    BY DEF FramesAreTables
  <2>1. OneTable(returned)
    BY DEF IInv, Returned
  <2>2. /\ Len(returned) = 1 /\ DOMAIN returned[1] = 1 .. Len(returned[1])
        /\ \A i, j \in 1 .. Len(returned[1]) : returned[1][i].rows = returned[1][j].rows
    BY <2>1, FlatFrame, LenProperties DEF OneTable, IsTable
  <2> QED
    BY <2>2 DEF FramesAreTables
<1> QED
  BY <1>1, AlwaysIInv, PTL

(* The frames that an operator gets are those of its own inputs, and a     *)
(* query that fails has an operator that the worker has not.               *)
THEOREM EvaluatesTheTree == Spec => []AsTheTree
<1>1. IInv => AsTheTree
  <2> SUFFICES ASSUME IInv PROVE AsTheTree
    OBVIOUS
  <2>1. ASSUME outcome = "returned"
        PROVE  [i \in DOMAIN FlattenSeq(returned) |->
                 <<FlattenSeq(returned)[i].by, FlattenSeq(returned)[i].as>>] = Columns(plan, 1)
    <3> DEFINE t == returned[1]
    <3>1. calls = <<>> /\ Returned(plan, calls, returned)
      BY <2>1 DEF IInv
    <3>2. FrameOf(plan, 1, returned)
      BY <3>1 DEF Returned, Arrived, Sure, DoneFrom
    <3>3. OneTable(returned) /\ Pairs(t) = Columns(plan, 1) /\ FlattenSeq(returned) = t
      BY <3>2, FlatFrame DEF FrameOf
    <3>4. DOMAIN t = 1 .. Len(t)
      BY <3>3, LenProperties DEF OneTable, IsTable
    <3> HIDE DEF t
    <3> QED
      BY <3>3, <3>4 DEF Pairs
  <2> QED
    BY <2>1 DEF AsTheTree, IInv
<1> QED
  BY <1>1, AlwaysIInv, PTL

(* All nodes apply the operators in the order of the tree.                 *)
THEOREM AppliesInPostOrder == Spec => []InPostOrder
<1>1. IInv => InPostOrder
  <2> SUFFICES ASSUME IInv, outcome = "returned", Evaluable(plan) PROVE applied = PostOrder(plan)
    BY DEF InPostOrder
  <2>1. calls = <<>> /\ IsPlan(plan) /\ Applied(plan, calls, applied)
    BY DEF IInv
  <2>2. Reached(plan, calls) = Len(plan) /\ Len(calls) = 0 /\ Len(plan) \in Nat
    BY <2>1, Depths DEF Reached
  <2>3. /\ applied \in Seq(1 .. Len(plan))
        /\ \A x \in 1 .. Len(plan) : \E i \in 1 .. Len(applied) : applied[i] = x
        /\ \A i, j \in 1 .. Len(applied) : i < j => After(plan, applied[j], applied[i])
    BY <2>1, <2>2 DEF Applied
  <2> QED
    BY <2>1, <2>3, OnlyPostOrder
<1> QED
  BY <1>1, AlwaysIInv, PTL
=============================================================================
