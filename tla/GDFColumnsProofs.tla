-------------------------- MODULE GDFColumnsProofs --------------------------
(* Proofs about GDFColumns, for any number of handles and addresses.       *)
EXTENDS GDFColumns, FiniteSetTheorems, TLAPS

(* The holders of a structure are finitely many handles.                   *)
LEMMA HoldersFinite ==
  ASSUME NEW a
  PROVE  IsFiniteSet(Holders(a)) /\ Holders(a) \subseteq Handle
<1>1. Holders(a) \subseteq Handle
  BY DEF Holders
<1>2. QED
  BY <1>1, HandleFinite, FS_Subset

(* A structure with one holder left: the holder is known.                  *)
LEMMA OnlyHolder ==
  ASSUME NEW a, NEW h \in Holders(a), Cardinality(Holders(a)) = 1
  PROVE  Holders(a) = {h}
  BY HoldersFinite, FS_Singleton

(* Removing a holder that is there lowers the number by one.               *)
LEMMA FewerHolders ==
  ASSUME NEW a, NEW h \in Handle
  PROVE  Cardinality(Holders(a) \ {h}) =
           IF h \in Holders(a) THEN Cardinality(Holders(a)) - 1
                               ELSE Cardinality(Holders(a))
  BY HoldersFinite, FS_RemoveElement

(* Adding one raises it by one.                                            *)
LEMMA MoreHolders ==
  ASSUME NEW a, NEW h \in Handle, h \notin Holders(a)
  PROVE  Cardinality(Holders(a) \cup {h}) = Cardinality(Holders(a)) + 1
  BY HoldersFinite, FS_AddElement

(* decrement_counter on a usable handle: what stays counted is counted     *)
(* without that handle, and only a structure it alone held is deleted.     *)
LEMMA ReleaseHolder ==
  ASSUME IInv, NEW h \in Handle, Usable(h),
         NEW S \in SUBSET (Address \ heap), DecrementCounter(h, S)
  PROVE  /\ heap' \subseteq Address /\ keys' \subseteq keys
         /\ count' \in [Address -> Nat]
         /\ CountedIsAllocated'
         /\ heap \ keys \subseteq heap' \ keys'
         /\ S \subseteq heap' \ keys'
         /\ \A a \in keys' : count'[a] > 0 =>
              count'[a] + stale[a] = Cardinality(Holders(a) \ {h})
         /\ \A a \in heap \ heap' :
              /\ a = col[h] /\ a \in keys /\ count[a] = 1 /\ h \in Holders(a)
              /\ Cardinality(Holders(a)) = 1 + stale[a]
         /\ heap' \subseteq heap \cup S
<1> USE DEF IInv, TypeOK
<1>1. CASE col[h] = Null \/ ipc[h]
  <2>1. heap' = heap \cup S /\ keys' = keys /\ count' = count
    BY <1>1 DEF DecrementCounter
  <2>2. ASSUME NEW a \in keys PROVE h \notin Holders(a)
    BY <1>1, NullOutside DEF Holders
  <2>3. \A a \in keys : Cardinality(Holders(a) \ {h}) = Cardinality(Holders(a))
    BY <2>2, FewerHolders
  <2>4. QED
    BY <2>1, <2>3 DEF CountedIsAllocated, CountIsHolders
<1>2. CASE col[h] # Null /\ ~ipc[h]
  <2> DEFINE b == col[h]
  <2>1. b \in Address /\ DecrementAnd(b, S)
    BY <1>2 DEF DecrementCounter
  <2>2. h \in Holders(b)
    BY <1>2 DEF Holders, Usable
  <2>3. \A a \in keys : a # b => h \notin Holders(a)
    BY DEF Holders
  <2>4. \A a \in keys : a # b => Cardinality(Holders(a) \ {h}) = Cardinality(Holders(a))
    BY <2>3, FewerHolders
  <2>5. Cardinality(Holders(b) \ {h}) = Cardinality(Holders(b)) - 1
    BY <2>2, FewerHolders
  <2>6. CASE b \in keys /\ count[b] = 1
    <3>1. Erase(b, S)
      BY <2>1, <2>6 DEF DecrementAnd
    <3>2. keys' = keys \ {b} /\ heap' = (heap \ {b}) \cup S
          /\ count' = [count EXCEPT ![b] = 0]
      BY <3>1 DEF Erase
    <3>4. Cardinality(Holders(b)) = 1 + stale[b]
      BY <2>6 DEF CountIsHolders
    <3>5. CountedIsAllocated'
      BY <3>2, <2>1 DEF CountedIsAllocated
    <3>6. \A a \in keys' : count'[a] > 0 =>
             count'[a] + stale[a] = Cardinality(Holders(a) \ {h})
      BY <3>2, <2>1, <2>4 DEF CountIsHolders
    <3>7. QED
      BY <3>2, <3>4, <3>5, <3>6, <2>1, <2>2, <2>6 DEF CountedIsAllocated
  <2>7. CASE ~(b \in keys /\ count[b] = 1)
    <3>1. /\ count' = IF b \in keys /\ count[b] > 1
                        THEN [count EXCEPT ![b] = count[b] - 1] ELSE count
          /\ heap' = heap \cup S /\ keys' = keys
      BY <2>1, <2>7 DEF DecrementAnd
    <3>2. count' \in [Address -> Nat]
      BY <3>1, <2>1
    <3>3. CountedIsAllocated'
      BY <3>1, <2>1 DEF CountedIsAllocated
    <3>4. ASSUME NEW a \in keys, count'[a] > 0
          PROVE  count'[a] + stale[a] = Cardinality(Holders(a) \ {h})
      <4>1. CASE a = b
        BY <4>1, <3>1, <3>4, <2>1, <2>5, <2>7 DEF CountIsHolders
      <4>2. CASE a # b
        BY <4>2, <3>1, <3>4, <2>1, <2>4 DEF CountIsHolders
      <4>3. QED
        BY <4>1, <4>2
    <3>5. QED
      BY <3>1, <3>2, <3>3, <3>4 DEF CountedIsAllocated
  <2>8. QED
    BY <2>6, <2>7
<1>3. QED
  BY <1>1, <1>2 DEF IInv, TypeOK

(* A step that releases the old structure of h and leaves h pointing       *)
(* elsewhere, or not idle, keeps the counts exact.                         *)
LEMMA ReleaseKeepsCounts ==
  ASSUME IInv, NEW h \in Handle, Usable(h),
         NEW S \in SUBSET (Address \ heap), DecrementCounter(h, S),
         \A a \in keys' : h \notin Holders(a)',
         \A g \in Handle \ {h} : UNCHANGED <<col[g], ipc[g], op[g]>>,
         stale' = stale
  PROVE  CountIsHolders'
<1>1. ASSUME NEW a \in keys' PROVE Holders(a)' = Holders(a) \ {h}
  BY <1>1 DEF Holders
<1>2. \A a \in keys' : count'[a] > 0 =>
         count'[a] + stale[a] = Cardinality(Holders(a) \ {h})
  BY ReleaseHolder
<1>3. QED
  BY <1>1, <1>2 DEF CountIsHolders

(* The copy constructors.                                                  *)
LEMMA CopyConstructIInv ==
  ASSUME IInv, NEW h \in Handle, NEW g \in Handle, CopyConstruct(h, g)
  PROVE  IInv'
<1> USE DEF IInv, TypeOK
<1> DEFINE b == col[g]
<1>1. /\ b \in Address /\ h # g /\ col[h] = Null
      /\ col' = [col EXCEPT ![h] = b] /\ ipc' = [ipc EXCEPT ![h] = ipc[g]]
      /\ heap' = heap /\ keys' = keys /\ op' = op /\ src' = src /\ stale' = stale
      /\ count' = IF b \in keys /\ count[b] # 0
                    THEN [count EXCEPT ![b] = count[b] + 1] ELSE count
  BY DEF CopyConstruct, increment
<1>2. op[h] = "idle" /\ op[g] = "idle"
      /\ \A k \in Handle : op[k] = "assigning" => src[k] # h
  BY DEF CopyConstruct, Usable
<1>3. \A a \in Address : h \notin Holders(a)
  BY <1>1, NullOutside DEF Holders
<1>4. \A a \in Address \ {b} : Holders(a)' = Holders(a)
  BY <1>1, NullOutside DEF Holders
<1>5. b \in keys => ~ipc[g]
  BY DEF IpcIsUncounted
<1>6. b \in keys => Holders(b)' = Holders(b) \cup {h}
  BY <1>1, <1>2, <1>5 DEF Holders
<1>7. TypeOK'
  BY <1>1
<1>8. CountedIsAllocated'
  BY <1>1 DEF CountedIsAllocated
<1>9. CountIsHolders'
  <2>1. ASSUME NEW a \in keys, count'[a] > 0, a = b
        PROVE  count'[a] + stale'[a] = Cardinality(Holders(a)')
    BY <2>1, <1>1, <1>3, <1>6, MoreHolders DEF CountIsHolders
  <2>2. ASSUME NEW a \in keys, count'[a] > 0, a # b
        PROVE  count'[a] + stale'[a] = Cardinality(Holders(a)')
    BY <2>2, <1>1, <1>4 DEF CountIsHolders
  <2>3. QED
    BY <2>1, <2>2, <1>1 DEF CountIsHolders
<1>10. RegisteringIsAlone'
  BY <1>1, <1>2, NullOutside DEF RegisteringIsAlone
<1>11. AssigningIsBacked'
  BY <1>1, <1>2 DEF AssigningIsBacked
<1>12. IpcIsUncounted'
  BY <1>1 DEF IpcIsUncounted
<1>13. QED
  BY <1>7, <1>8, <1>9, <1>10, <1>11, <1>12 DEF IInv

(* The first half of operator=.                                            *)
LEMMA AssignReleaseIInv ==
  ASSUME IInv, NEW h \in Handle, NEW g \in Handle, AssignRelease(h, g)
  PROVE  IInv'
<1> USE DEF IInv, TypeOK
<1>1. /\ Usable(h) /\ Usable(g) /\ col[h] # col[g] /\ h # g
      /\ DecrementCounter(h, {})
      /\ col' = [col EXCEPT ![h] = col[g]] /\ ipc' = [ipc EXCEPT ![h] = ipc[g]]
      /\ op' = [op EXCEPT ![h] = "assigning"] /\ src' = [src EXCEPT ![h] = g]
      /\ stale' = stale
  BY DEF AssignRelease
<1>2. /\ heap' \subseteq Address /\ keys' \subseteq keys /\ count' \in [Address -> Nat]
      /\ CountedIsAllocated' /\ heap \ keys \subseteq heap' \ keys'
      /\ heap' \subseteq heap
  BY <1>1, ReleaseHolder
<1>3. TypeOK'
  BY <1>1, <1>2 DEF Phase
<1>4. CountIsHolders'
  BY <1>1, ReleaseKeepsCounts DEF Holders
<1>5. RegisteringIsAlone'
  BY <1>1, <1>2 DEF RegisteringIsAlone, Usable
<1>6. AssigningIsBacked'
  BY <1>1 DEF AssigningIsBacked, Usable
<1>7. IpcIsUncounted'
  BY <1>1, <1>2 DEF IpcIsUncounted
<1>8. QED
  BY <1>2, <1>3, <1>4, <1>5, <1>6, <1>7 DEF IInv

(* The second half of operator=.                                           *)
LEMMA AssignCountIInv ==
  ASSUME IInv, NEW h \in Handle, AssignCount(h)
  PROVE  IInv'
<1> USE DEF IInv, TypeOK
<1> DEFINE b == col[h]
<1>1. /\ op[h] = "assigning" /\ col' = col /\ ipc' = ipc
      /\ op' = [op EXCEPT ![h] = "idle"] /\ src' = [src EXCEPT ![h] = Null]
      /\ stale' = stale
  BY DEF AssignCount
<1>2. /\ heap' = heap /\ keys' = keys
      /\ count' = IF b \in keys /\ count[b] # 0
                    THEN [count EXCEPT ![b] = count[b] + 1] ELSE count
  BY NullOutside DEF AssignCount, increment, counter
<1>3. \A a \in Address : h \notin Holders(a)
  BY <1>1 DEF Holders
<1>4. \A a \in Address \ {b} : Holders(a)' = Holders(a)
  BY <1>1 DEF Holders
<1>5. \A a \in keys : a = b => Holders(a)' = Holders(a) \cup {h}
  BY <1>1 DEF Holders, IpcIsUncounted
<1>6. TypeOK'
  BY <1>1, <1>2 DEF Phase
<1>7. CountedIsAllocated'
  BY <1>2 DEF CountedIsAllocated
<1>8. CountIsHolders'
  <2>1. ASSUME NEW a \in keys, count'[a] > 0, a = b
        PROVE  count'[a] + stale'[a] = Cardinality(Holders(a)')
    <3>1. a \in Address /\ b \in Address
      BY <2>1
    <3>2. Holders(a)' = Holders(a) \cup {h}
      BY <2>1, <1>1, <1>5
    <3>3. Cardinality(Holders(a)') = Cardinality(Holders(a)) + 1
      BY <3>1, <3>2, <1>3, MoreHolders
    <3>4. count[a] > 0 /\ count'[a] = count[a] + 1
      BY <2>1, <3>1, <1>2
    <3>5. count[a] + stale[a] = Cardinality(Holders(a))
      BY <2>1, <3>4 DEF CountIsHolders
    <3>6. count[a] \in Nat /\ stale[a] \in Nat /\ stale'[a] = stale[a]
      BY <3>1, <1>1
    <3>7. QED
      BY <3>3, <3>4, <3>5, <3>6
  <2>2. ASSUME NEW a \in keys, count'[a] > 0, a # b
        PROVE  count'[a] + stale'[a] = Cardinality(Holders(a)')
    BY <2>2, <1>1, <1>2, <1>4 DEF CountIsHolders
  <2>3. QED
    BY <2>1, <2>2, <1>2 DEF CountIsHolders
<1>9. RegisteringIsAlone'
  BY <1>1, <1>2 DEF RegisteringIsAlone
<1>10. AssigningIsBacked'
  <2>1. \A k \in Handle \ {h} : op'[k] = op[k] /\ src'[k] = src[k]
    BY <1>1
  <2>2. op'[h] = "idle"
    BY <1>1
  <2>3. ASSUME NEW k \in Handle, op'[k] = "assigning"
        PROVE  /\ src'[k] \in Handle \ {k} /\ op'[src'[k]] = "idle"
               /\ col'[src'[k]] = col'[k] /\ ipc'[src'[k]] = ipc'[k]
    <3>1. k # h /\ op[k] = "assigning" /\ src'[k] = src[k]
      BY <2>1, <2>2, <2>3
    <3>2. /\ src[k] \in Handle \ {k} /\ op[src[k]] = "idle"
          /\ col[src[k]] = col[k] /\ ipc[src[k]] = ipc[k]
      BY <3>1 DEF AssigningIsBacked
    <3>3. op'[src[k]] = "idle"
      BY <2>1, <2>2, <3>2
    <3>4. QED
      BY <3>1, <3>2, <3>3, <1>1
  <2>4. QED
    BY <2>3 DEF AssigningIsBacked
<1>11. IpcIsUncounted'
  BY <1>1, <1>2 DEF IpcIsUncounted
<1>12. QED
  BY <1>6, <1>7, <1>8, <1>9, <1>10, <1>11 DEF IInv

(* create_gdf_column gives up the old structure.                           *)
LEMMA CreateReleaseIInv ==
  ASSUME IInv, NEW h \in Handle, CreateRelease(h)
  PROVE  IInv'
<1> USE DEF IInv, TypeOK
<1>1. /\ Usable(h) /\ DecrementCounter(h, {})
      /\ op' = [op EXCEPT ![h] = "creating"]
      /\ col' = col /\ ipc' = ipc /\ src' = src /\ stale' = stale
  BY DEF CreateRelease
<1>2. /\ heap' \subseteq Address /\ keys' \subseteq keys /\ count' \in [Address -> Nat]
      /\ CountedIsAllocated' /\ heap \ keys \subseteq heap' \ keys'
  BY <1>1, ReleaseHolder
<1>3. TypeOK'
  BY <1>1, <1>2 DEF Phase
<1>4. CountIsHolders'
  BY <1>1, ReleaseKeepsCounts DEF Holders
<1>5. RegisteringIsAlone'
  BY <1>1, <1>2 DEF RegisteringIsAlone
<1>6. AssigningIsBacked'
  BY <1>1 DEF AssigningIsBacked, Usable
<1>7. IpcIsUncounted'
  BY <1>1, <1>2 DEF IpcIsUncounted
<1>8. QED
  BY <1>2, <1>3, <1>4, <1>5, <1>6, <1>7 DEF IInv

(* A handle that is not idle takes a structure nobody knows about: for its *)
(* own allocations and for the memory of another process.                  *)
LEMMA NewStructureIInv ==
  ASSUME IInv, NEW h \in Handle, CreateNew(h) \/ CreateForIpc(h)
  PROVE  IInv'
<1> USE DEF IInv, TypeOK
<1>1. PICK a \in Address :
        /\ Fresh(a) /\ heap' = heap \cup {a} /\ col' = [col EXCEPT ![h] = a]
  BY DEF CreateNew, CreateForIpc
<1>2. /\ keys' = keys /\ count' = count /\ src' = src /\ stale' = stale
      /\ op[h] = "creating"
      /\ \/ op' = [op EXCEPT ![h] = "registering"] /\ ipc' = [ipc EXCEPT ![h] = FALSE]
         \/ op' = [op EXCEPT ![h] = "idle"] /\ ipc' = [ipc EXCEPT ![h] = TRUE]
  BY DEF CreateNew, CreateForIpc
<1>3. /\ a \notin heap /\ a \notin keys
      /\ \A g \in Handle : op[g] = "registering" \/ ipc[g] => col[g] # a
  BY <1>1 DEF Fresh, CountedIsAllocated, RegisteringIsAlone, IpcIsUncounted
<1>4. TypeOK'
  BY <1>1, <1>2 DEF Phase
<1>5. CountedIsAllocated'
  BY <1>1, <1>2 DEF CountedIsAllocated
<1>6. \A b \in keys : Holders(b)' = Holders(b)
  BY <1>1, <1>2, <1>3 DEF Holders
<1>7. CountIsHolders'
  BY <1>2, <1>6 DEF CountIsHolders
<1>8. RegisteringIsAlone'
  <2>1. ASSUME NEW k \in Handle \ {h}, op'[k] = "registering"
        PROVE  /\ col'[k] \in heap' \ keys' /\ ~ipc'[k]
               /\ \A g \in Handle \ {k} :
                    op'[g] = "registering" \/ ipc'[g] => col'[g] # col'[k]
    <3>1. op[k] = "registering" /\ col'[k] = col[k] /\ ipc'[k] = ipc[k]
      BY <2>1, <1>1, <1>2
    <3>2. col[k] \in heap \ keys /\ ~ipc[k] /\ col[k] # a
      BY <3>1, <1>3 DEF RegisteringIsAlone
    <3>3. ASSUME NEW g \in Handle \ {k}, op'[g] = "registering" \/ ipc'[g]
          PROVE  col'[g] # col'[k]
      <4>1. CASE g = h
        BY <4>1, <3>1, <3>2, <1>1
      <4>2. CASE g # h
        BY <4>2, <3>1, <3>3, <1>1, <1>2 DEF RegisteringIsAlone
      <4>3. QED
        BY <4>1, <4>2
    <3>4. QED
      BY <3>1, <3>2, <3>3, <1>1, <1>2
  <2>2. ASSUME op'[h] = "registering"
        PROVE  /\ col'[h] \in heap' \ keys' /\ ~ipc'[h]
               /\ \A g \in Handle \ {h} :
                    op'[g] = "registering" \/ ipc'[g] => col'[g] # col'[h]
    BY <2>2, <1>1, <1>2, <1>3
  <2>3. QED
    BY <2>1, <2>2 DEF RegisteringIsAlone
<1>9. AssigningIsBacked'
  BY <1>1, <1>2 DEF AssigningIsBacked
<1>10. IpcIsUncounted'
  BY <1>1, <1>2, <1>3 DEF IpcIsUncounted
<1>11. QED
  BY <1>4, <1>5, <1>7, <1>8, <1>9, <1>10 DEF IInv

(* The registration of the structure a handle was filled with.             *)
LEMMA CreateRegisterIInv ==
  ASSUME IInv, NEW h \in Handle, CreateRegister(h)
  PROVE  IInv'
<1> USE DEF IInv, TypeOK
<1> DEFINE b == col[h]
<1>1. /\ op[h] = "registering" /\ op' = [op EXCEPT ![h] = "idle"]
      /\ heap' = heap /\ keys' = keys \cup {b} /\ col' = col /\ ipc' = ipc /\ src' = src
  BY DEF CreateRegister, register_column
<1>2. /\ b \in heap \ keys /\ b \in Address /\ ~ipc[h]
      /\ \A g \in Handle \ {h} : op[g] = "registering" \/ ipc[g] => col[g] # b
  BY <1>1 DEF RegisteringIsAlone
<1>3. /\ count' = [count EXCEPT ![b] = 1]
      /\ stale' = [stale EXCEPT ![b] = Cardinality(Holders(b))]
  BY <1>2 DEF CreateRegister, register_column
<1>13. Cardinality(Holders(b)) \in Nat
  BY HoldersFinite, FS_CardinalityType
<1>4. TypeOK'
  BY <1>1, <1>2, <1>3, <1>13 DEF Phase
<1>5. CountedIsAllocated'
  BY <1>1, <1>2, <1>3 DEF CountedIsAllocated
<1>6. \A a \in keys : Holders(a)' = Holders(a)
  BY <1>1, <1>2 DEF Holders
<1>7. \A a \in {b} : h \notin Holders(a) /\ Holders(a)' = Holders(a) \cup {h}
  BY <1>1, <1>2 DEF Holders
<1>8. CountIsHolders'
  <2>1. \A a \in keys : count'[a] = count[a] /\ stale'[a] = stale[a]
    BY <1>2, <1>3
  <2>2. \A a \in {b} : Cardinality(Holders(a)') = Cardinality(Holders(a)) + 1
    BY <1>7, MoreHolders
  <2>3. \A a \in {b} : count'[a] = 1 /\ stale'[a] = Cardinality(Holders(a))
    BY <1>2, <1>3
  <2>4. \A a \in {b} : count'[a] + stale'[a] = Cardinality(Holders(a)')
    BY <2>2, <2>3, <1>13
  <2>5. QED
    BY <2>1, <2>4, <1>1, <1>6 DEF CountIsHolders
<1>9. RegisteringIsAlone'
  BY <1>1, <1>2 DEF RegisteringIsAlone
<1>10. AssigningIsBacked'
  <2>1. ASSUME NEW k \in Handle, op'[k] = "assigning"
        PROVE  op[k] = "assigning" /\ src'[k] = src[k]
    BY <2>1, <1>1
  <2>2. \A k \in Handle : op[k] = "idle" => op'[k] = "idle"
    BY <1>1
  <2>3. QED
    BY <2>1, <2>2, <1>1 DEF AssigningIsBacked
<1>11. IpcIsUncounted'
  BY <1>1, <1>2 DEF IpcIsUncounted
<1>12. QED
  BY <1>4, <1>5, <1>8, <1>9, <1>10, <1>11 DEF IInv

(* An allocation that throws leaves the structure out of the counting.     *)
LEMMA CreateThrowsIInv ==
  ASSUME IInv, NEW h \in Handle, CreateThrows(h)
  PROVE  IInv'
<1> USE DEF IInv, TypeOK
<1>1. /\ op[h] = "registering" /\ op' = [op EXCEPT ![h] = "idle"]
      /\ heap' = heap /\ keys' = keys /\ count' = count
      /\ col' = col /\ ipc' = ipc /\ src' = src /\ stale' = stale
  BY DEF CreateThrows
<1>2. col[h] \notin keys
  BY <1>1 DEF RegisteringIsAlone
<1>3. \A a \in keys : Holders(a)' = Holders(a)
  BY <1>1, <1>2 DEF Holders
<1>4. TypeOK' /\ CountedIsAllocated'
  BY <1>1 DEF Phase, CountedIsAllocated
<1>5. CountIsHolders'
  BY <1>1, <1>3 DEF CountIsHolders
<1>6. RegisteringIsAlone'
  BY <1>1 DEF RegisteringIsAlone
<1>7. AssigningIsBacked'
  <2>1. ASSUME NEW k \in Handle, op'[k] = "assigning"
        PROVE  op[k] = "assigning"
    BY <2>1, <1>1
  <2>2. \A k \in Handle : op[k] = "idle" => op'[k] = "idle"
    BY <1>1
  <2>3. QED
    BY <2>1, <2>2, <1>1 DEF AssigningIsBacked
<1>8. IpcIsUncounted'
  BY <1>1 DEF IpcIsUncounted
<1>9. QED
  BY <1>4, <1>5, <1>6, <1>7, <1>8 DEF IInv

(* create_gdf_column of a raw pointer: at the address that the handle      *)
(* points to already, or at another.                                       *)
WrapsSame(h) ==
  \E a \in Address :
    /\ a \notin heap /\ a = col[h]
    /\ heap' = heap \cup {a}
    /\ UNCHANGED <<keys, count, col, ipc, op, src, stale>>

WrapsOther(h) ==
  /\ Usable(h)
  /\ \E a \in Address :
       /\ a \notin heap /\ a # col[h]
       /\ DecrementCounter(h, {a})
       /\ col' = [col EXCEPT ![h] = a]
       /\ ipc' = [ipc EXCEPT ![h] = FALSE]
       /\ op' = [op EXCEPT ![h] = "registering"]
  /\ UNCHANGED <<src, stale>>

LEMMA WrapSplits ==
  ASSUME NEW h \in Handle, Wrap(h)
  PROVE  WrapsSame(h) \/ WrapsOther(h)
  BY DEF Wrap, WrapsSame, WrapsOther, Fresh

LEMMA WrapsSameIInv ==
  ASSUME IInv, NEW h \in Handle, WrapsSame(h)
  PROVE  IInv'
<1> USE DEF IInv, TypeOK
<1>1. PICK a \in Address : a \notin heap /\ heap' = heap \cup {a}
  BY DEF WrapsSame
<1>2. /\ keys' = keys /\ count' = count /\ col' = col /\ ipc' = ipc
      /\ op' = op /\ src' = src /\ stale' = stale
  BY DEF WrapsSame
<1>3. \A b \in Address : Holders(b)' = Holders(b)
  BY <1>2 DEF Holders
<1>4. TypeOK' /\ CountedIsAllocated'
  BY <1>1, <1>2 DEF CountedIsAllocated
<1>5. CountIsHolders'
  BY <1>2, <1>3 DEF CountIsHolders
<1>6. RegisteringIsAlone' /\ AssigningIsBacked' /\ IpcIsUncounted'
  BY <1>1, <1>2 DEF RegisteringIsAlone, AssigningIsBacked, IpcIsUncounted
<1>7. QED
  BY <1>4, <1>5, <1>6 DEF IInv

LEMMA WrapsOtherIInv ==
  ASSUME IInv, NEW h \in Handle, WrapsOther(h)
  PROVE  IInv'
<1> USE DEF IInv, TypeOK
<1>1. PICK a \in Address :
        /\ a \notin heap /\ a # col[h]
        /\ DecrementCounter(h, {a})
        /\ col' = [col EXCEPT ![h] = a] /\ ipc' = [ipc EXCEPT ![h] = FALSE]
        /\ op' = [op EXCEPT ![h] = "registering"]
  BY DEF WrapsOther
<1>2. /\ a \notin keys
      /\ \A g \in Handle : op[g] = "registering" \/ ipc[g] => col[g] # a
  BY <1>1 DEF CountedIsAllocated, RegisteringIsAlone, IpcIsUncounted
<1>3. Usable(h) /\ src' = src /\ stale' = stale
  BY DEF WrapsOther
<1>4. {a} \in SUBSET (Address \ heap)
  BY <1>1
<1>5. /\ heap' \subseteq Address /\ keys' \subseteq keys /\ count' \in [Address -> Nat]
      /\ CountedIsAllocated' /\ heap \ keys \subseteq heap' \ keys'
      /\ {a} \subseteq heap' \ keys'
  BY <1>1, <1>3, <1>4, ReleaseHolder
<1>6. TypeOK'
  BY <1>1, <1>3, <1>5 DEF Phase
<1>7. CountIsHolders'
  BY <1>1, <1>3, <1>4, ReleaseKeepsCounts DEF Holders
<1>8. RegisteringIsAlone'
  <2>1. ASSUME NEW k \in Handle, op'[k] = "registering"
        PROVE  col'[k] \in heap' \ keys' /\ ~ipc'[k]
    BY <2>1, <1>1, <1>3, <1>5 DEF RegisteringIsAlone
  <2>2. ASSUME NEW k \in Handle, op'[k] = "registering", NEW g \in Handle \ {k},
               op'[g] = "registering" \/ ipc'[g]
        PROVE  col'[g] # col'[k]
    <3>1. CASE k = h
      BY <3>1, <2>2, <1>1, <1>2
    <3>2. CASE g = h
      BY <3>2, <2>2, <1>1, <1>2
    <3>3. CASE k # h /\ g # h
      BY <3>3, <2>2, <1>1 DEF RegisteringIsAlone
    <3>4. QED
      BY <3>1, <3>2, <3>3
  <2>3. QED
    BY <2>1, <2>2 DEF RegisteringIsAlone
<1>9. AssigningIsBacked'
  BY <1>1, <1>3 DEF AssigningIsBacked, Usable
<1>10. IpcIsUncounted'
  BY <1>1, <1>3, <1>5 DEF IpcIsUncounted
<1>11. QED
  BY <1>5, <1>6, <1>7, <1>8, <1>9, <1>10 DEF IInv

(* The destructor.                                                         *)
LEMMA DestroyIInv ==
  ASSUME IInv, NEW h \in Handle, Destroy(h)
  PROVE  IInv'
<1> USE DEF IInv, TypeOK
<1>1. /\ Usable(h) /\ DecrementCounter(h, {}) /\ op' = op /\ src' = src /\ stale' = stale
      /\ col' = [col EXCEPT ![h] = Null] /\ ipc' = [ipc EXCEPT ![h] = FALSE]
  BY DEF Destroy
<1>2. /\ heap' \subseteq Address /\ keys' \subseteq keys /\ count' \in [Address -> Nat]
      /\ CountedIsAllocated' /\ heap \ keys \subseteq heap' \ keys'
  BY <1>1, ReleaseHolder
<1>3. TypeOK'
  BY <1>1, <1>2
<1>4. CountIsHolders'
  <2>1. \A a \in keys' : h \notin Holders(a)'
    BY <1>1, <1>2, NullOutside DEF Holders
  <2>2. \A g \in Handle \ {h} : UNCHANGED <<col[g], ipc[g], op[g]>>
    BY <1>1
  <2>3. QED
    BY <1>1, <2>1, <2>2, ReleaseKeepsCounts
<1>5. RegisteringIsAlone'
  BY <1>1, <1>2, NullOutside DEF RegisteringIsAlone, Usable
<1>6. AssigningIsBacked'
  BY <1>1 DEF AssigningIsBacked, Usable
<1>7. IpcIsUncounted'
  BY <1>1, <1>2 DEF IpcIsUncounted
<1>8. QED
  BY <1>2, <1>3, <1>4, <1>5, <1>6, <1>7 DEF IInv

(* Taking a column out of the counting, and freeing it.                    *)
LEMMA GiveAwayIInv ==
  ASSUME IInv, NEW h \in Handle, Deregister(h) \/ FreeColumn(h)
  PROVE  IInv'
<1> USE DEF IInv, TypeOK
<1> DEFINE b == col[h]
<1>1. op' = op /\ src' = src /\ col' = col /\ ipc' = ipc /\ stale' = stale
  BY DEF Deregister, FreeColumn
<1>2. \A a \in Address : Holders(a)' = Holders(a)
  BY <1>1 DEF Holders
<1>3. CASE Deregister(h)
  <2>1. /\ heap' = heap /\ keys' = keys /\ b \in Address
        /\ count' = IF b \in keys THEN [count EXCEPT ![b] = 0] ELSE count
    BY <1>3 DEF Deregister, deregister_column
  <2>2. TypeOK' /\ CountedIsAllocated'
    BY <1>1, <2>1 DEF CountedIsAllocated
  <2>3. \A a \in keys : count'[a] > 0 => count'[a] = count[a]
    BY <2>1
  <2>4. CountIsHolders'
    BY <1>1, <1>2, <2>1, <2>3 DEF CountIsHolders
  <2>5. RegisteringIsAlone' /\ AssigningIsBacked' /\ IpcIsUncounted'
    BY <1>1, <2>1 DEF RegisteringIsAlone, AssigningIsBacked, IpcIsUncounted
  <2>6. QED
    BY <2>2, <2>4, <2>5 DEF IInv
<1>4. CASE FreeColumn(h)
  <2>1. /\ b \in keys /\ keys' = keys \ {b} /\ heap' = heap \ {b}
        /\ count' = [count EXCEPT ![b] = 0]
    BY <1>4 DEF FreeColumn, free, Erase
  <2>2. TypeOK' /\ CountedIsAllocated'
    BY <1>1, <2>1 DEF CountedIsAllocated
  <2>3. \A a \in keys' : count'[a] = count[a]
    BY <2>1
  <2>4. CountIsHolders'
    BY <1>1, <1>2, <2>1, <2>3 DEF CountIsHolders
  <2>5. RegisteringIsAlone' /\ AssigningIsBacked' /\ IpcIsUncounted'
    BY <1>1, <2>1 DEF RegisteringIsAlone, AssigningIsBacked, IpcIsUncounted
  <2>6. QED
    BY <2>2, <2>4, <2>5 DEF IInv
<1>5. QED
  BY <1>3, <1>4

(* IInv is inductive.                                                      *)
LEMMA StepIInv ==
  ASSUME IInv, [Next]_vars
  PROVE  IInv'
<1>1. CASE UNCHANGED vars
  BY <1>1 DEF vars, IInv, TypeOK, CountedIsAllocated, CountIsHolders, Holders,
              RegisteringIsAlone, AssigningIsBacked, IpcIsUncounted
<1>2. CASE Next
  BY <1>2, CopyConstructIInv, AssignReleaseIInv, AssignCountIInv,
     CreateReleaseIInv, NewStructureIInv, CreateRegisterIInv, CreateThrowsIInv,
     WrapSplits, WrapsSameIInv, WrapsOtherIInv, DestroyIInv, GiveAwayIInv DEF Next
<1>3. QED
  BY <1>1, <1>2

LEMMA InitIInv == Init => IInv
<1> SUFFICES ASSUME Init PROVE IInv
  OBVIOUS
<1>1. TypeOK
  BY DEF Init, TypeOK, Phase
<1>2. CountedIsAllocated /\ CountIsHolders
  BY DEF Init, CountedIsAllocated, CountIsHolders
<1>3. RegisteringIsAlone /\ AssigningIsBacked /\ IpcIsUncounted
  BY DEF Init, RegisteringIsAlone, AssigningIsBacked, IpcIsUncounted
<1>4. QED
  BY <1>1, <1>2, <1>3 DEF IInv

(* The invariant of the reference counter holds in every reachable state.  *)
THEOREM Invariance ==
  Spec => []IInv
  BY InitIInv, StepIInv, PTL DEF Spec

(* Every variable of GDFRefCounter and of the handles keeps its type.      *)
THEOREM TypeCorrect ==
  Spec => []TypeOK
<1>1. IInv => TypeOK
  BY DEF IInv
<1>2. QED
  BY Invariance, <1>1, PTL

(* The count of a column is the number of handles that share it, less      *)
(* those that pointed to its address before it was registered.             *)
THEOREM CountsAreExact ==
  Spec => []CountExact
<1>1. IInv => CountExact
  BY DEF IInv, CountExact, CountedIsAllocated, CountIsHolders
<1>2. QED
  BY Invariance, <1>1, PTL

-----------------------------------------------------------------------------
(* Only the release of the last holder and free_result delete a structure. *)
Releases(h) ==
  \/ \E g \in Handle : AssignRelease(h, g)
  \/ CreateRelease(h)
  \/ WrapsOther(h)
  \/ Destroy(h)

(* Every releasing action calls decrement_counter on its handle, with at   *)
(* most one structure just allocated.                                      *)
LEMMA ReleasesDecrement ==
  ASSUME IInv, NEW h \in Handle, Releases(h)
  PROVE  /\ Usable(h) /\ \E S \in SUBSET (Address \ heap) : DecrementCounter(h, S)
         /\ \A k \in Handle \ {h} : UNCHANGED <<col[k], ipc[k], op[k]>>
<1> USE DEF IInv, TypeOK
<1>1. CASE \E g \in Handle : AssignRelease(h, g)
  BY <1>1 DEF AssignRelease
<1>2. CASE CreateRelease(h)
  BY <1>2 DEF CreateRelease
<1>3. CASE Destroy(h)
  BY <1>3 DEF Destroy
<1>4. CASE WrapsOther(h)
  BY <1>4 DEF WrapsOther
<1>5. QED
  BY <1>1, <1>2, <1>3, <1>4 DEF Releases

(* What a release deletes is left by as many handles as were stale when it *)
(* was registered.                                                         *)
LEMMA LeftByStale ==
  ASSUME IInv, NEW h \in Handle, Releases(h), NEW a \in heap \ heap'
  PROVE  Cardinality({k \in Handle : col'[k] = a /\ op'[k] = "idle"}) = stale[a]
<1> USE DEF IInv, TypeOK
<1>1. PICK S \in SUBSET (Address \ heap) : DecrementCounter(h, S)
  BY ReleasesDecrement
<1>2. /\ Usable(h) /\ a = col[h] /\ a \in keys /\ h \in Holders(a)
      /\ Cardinality(Holders(a)) = 1 + stale[a]
  BY <1>1, ReleasesDecrement, ReleaseHolder
<1>3. a \in Address /\ a # Null
  BY <1>2, NullOutside DEF CountedIsAllocated
<1>4. ~(col'[h] = a /\ op'[h] = "idle")
  BY <1>2, <1>3 DEF Releases, AssignRelease, CreateRelease, WrapsOther, Destroy
<1>5. \A k \in Handle \ {h} : col'[k] = col[k] /\ op'[k] = op[k]
  BY ReleasesDecrement
<1>6. \A k \in Handle : col[k] = a => ~ipc[k]
  BY <1>2 DEF IpcIsUncounted
<1>7. {k \in Handle : col'[k] = a /\ op'[k] = "idle"} = Holders(a) \ {h}
  BY <1>4, <1>5, <1>6 DEF Holders
<1>8. Cardinality(Holders(a) \ {h}) = Cardinality(Holders(a)) - 1
  BY <1>2, FewerHolders
<1>9. stale[a] \in Nat
  BY <1>3
<1>10. QED
  <2> HIDE DEF IInv, TypeOK
  <2>1. Cardinality(Holders(a) \ {h}) = stale[a]
    BY ONLY <1>2, <1>8, <1>9
  <2>2. QED
    BY ONLY <2>1, <1>7

(* Nobody but a handle that is being refilled points to what a release     *)
(* deletes, if no handle was stale.                                        *)
LEMMA ReleaseIsSafe ==
  ASSUME IInv, NEW h \in Handle, Releases(h),
         NEW a \in heap \ heap', stale[a] = 0, NEW k \in Handle, col'[k] = a
  PROVE  op'[k] = "creating"
<1> USE DEF IInv, TypeOK
<1>1. PICK S \in SUBSET (Address \ heap) : DecrementCounter(h, S)
  BY ReleasesDecrement
<1>7. /\ Usable(h) /\ a = col[h] /\ a \in keys /\ h \in Holders(a)
      /\ Cardinality(Holders(a)) = 1
  BY <1>1, ReleasesDecrement, ReleaseHolder
<1>2. Usable(h) /\ a = col[h] /\ Holders(a) = {h}
  BY <1>7, OnlyHolder
<1>3. a \in keys /\ a \in Address /\ a # Null
  BY <1>7, NullOutside DEF CountedIsAllocated
<1>4. CASE k # h
  <2>1. col[k] = a /\ op'[k] = op[k] /\ ipc[k] = FALSE
    BY <1>4, <1>3, ReleasesDecrement DEF IpcIsUncounted
  <2>2. op[k] # "idle"
    BY <2>1, <1>2, <1>4 DEF Holders
  <2>3. op[k] # "registering"
    BY <2>1, <1>3 DEF RegisteringIsAlone
  <2>4. op[k] # "assigning"
    <3>1. SUFFICES ASSUME op[k] = "assigning" PROVE FALSE
      OBVIOUS
    <3>2. src[k] \in Holders(a)
      BY <3>1, <2>1 DEF AssigningIsBacked, Holders
    <3>3. QED
      BY <3>1, <3>2, <1>2 DEF Usable
  <2>5. QED
    BY <2>1, <2>2, <2>3, <2>4 DEF Phase
<1>5. CASE k = h
  <2>1. CASE \E g \in Handle : AssignRelease(h, g)
    BY <2>1, <1>2, <1>5 DEF AssignRelease
  <2>2. CASE CreateRelease(h)
    BY <2>2, <1>5 DEF CreateRelease
  <2>3. CASE Destroy(h)
    BY <2>3, <1>2, <1>3, <1>5 DEF Destroy
  <2>4. CASE WrapsOther(h)
    BY <2>4, <1>2, <1>3, <1>5 DEF WrapsOther
  <2>5. QED
    BY <2>1, <2>2, <2>3, <2>4 DEF Releases
<1>6. QED
  BY <1>4, <1>5

(* A counted column is deleted when exactly the handles are left that were *)
(* stale when it was registered; no handle, if none was.                   *)
THEOREM NeverFreedEarly ==
  Spec => NoEarlyFree
<1> DEFINE Safe ==
      \A a \in heap \ heap' : count[a] > 0 =>
        /\ Cardinality({h \in Handle : col'[h] = a /\ op'[h] = "idle"}) = stale[a]
        /\ stale[a] = 0 => \A h \in Handle : col'[h] = a => op'[h] = "creating"
<1>1. ASSUME IInv, [Next]_vars PROVE [Safe]_vars
  <2>1. CASE \E h \in Handle : Releases(h)
    BY <1>1, <2>1, ReleaseIsSafe, LeftByStale
  <2>2. CASE \E h \in Handle : FreeColumn(h)
    BY <2>2 DEF FreeColumn, free, Erase, counter
  <2>3. CASE /\ ~\E h \in Handle : Releases(h)
             /\ ~\E h \in Handle : FreeColumn(h)
             /\ Next
    <3>1. heap \subseteq heap'
      BY <2>3, WrapSplits DEF Next, Releases, CopyConstruct, AssignCount, CreateNew, CreateRegister,
                  CreateThrows, CreateForIpc, Deregister, increment, register_column,
                  deregister_column, counter, WrapsSame
    <3>2. QED
      BY <3>1
  <2>4. QED
    BY <1>1, <2>1, <2>2, <2>3
<1>2. QED
  BY <1>1, Invariance, PTL DEF Spec, NoEarlyFree

-----------------------------------------------------------------------------
(* GDFColumns implements SharedOwnership.                                  *)
LEMMA SameCardinality ==
  ASSUME NEW S
  PROVE  Shared!Cardinality(S) = Cardinality(S)
  BY DEF Shared!Cardinality, Cardinality

LEMMA StutterStep ==
  ASSUME NEW a \in Address,
         (a \in heap') = (a \in heap), (a \in keys') = (a \in keys),
         (count'[a] = 0) = (count[a] = 0),
         a \in keys /\ count[a] # 0 => Holders(a)' = Holders(a) /\ stale'[a] = stale[a]
  PROVE  Shared!Unchanged(a)
  BY DEF Shared!Unchanged, Life

LEMMA JoinStep ==
  ASSUME IInv, NEW a \in Address, NEW h \in Handle, h \notin Holders(a),
         heap' = heap, keys' = keys, a \in keys, count[a] # 0, count'[a] # 0,
         stale'[a] = stale[a],
         Holders(a)' = Holders(a) \cup {h}
  PROVE  Shared!Join(a, h)
  BY DEF Shared!Join, Life, IInv, CountedIsAllocated

(* A releasing action: h leaves the structure it shared, a structure just  *)
(* allocated appears, the others do not change.                            *)
LEMMA ReleaseStep ==
  ASSUME IInv, NEW h \in Handle, Usable(h),
         NEW S \in SUBSET (Address \ heap), DecrementCounter(h, S),
         \A b \in keys : h \notin Holders(b)',
         \A k \in Handle \ {h} : UNCHANGED <<col[k], ipc[k], op[k]>>,
         stale' = stale, NEW a \in Address
  PROVE  Shared!Step(a) \/ Shared!Unchanged(a)
<1> USE DEF IInv, TypeOK
<1>1. \A b \in keys : Holders(b)' = Holders(b) \ {h}
  BY DEF Holders
<1>2. keys \subseteq heap /\ S \subseteq Address \ keys
  BY DEF CountedIsAllocated
<1>3. CASE col[h] = Null \/ ipc[h]
  <2>1. heap' = heap \cup S /\ keys' = keys /\ count' = count
    BY <1>3 DEF DecrementCounter
  <2>2. \A b \in keys : Holders(b)' = Holders(b)
    BY <1>1, <1>3, NullOutside DEF Holders
  <2>3. CASE a \in S /\ a \notin heap
    BY <2>1, <2>3, <1>2 DEF Shared!Step, Shared!Allocate, Shared!Nobody, Life
  <2>4. CASE a \notin S \/ a \in heap
    BY <2>1, <2>2, <2>4, StutterStep
  <2>5. QED
    BY <2>3, <2>4
<1>4. CASE col[h] # Null /\ ~ipc[h]
  <2> DEFINE b == col[h]
  <2>1. b \in Address /\ DecrementAnd(b, S)
    BY <1>4 DEF DecrementCounter
  <2>2. h \in Holders(b)
    BY <1>4 DEF Holders, Usable
  <2>3. \A x \in keys : x # b => Holders(x)' = Holders(x)
    BY <1>1 DEF Holders
  <2>4. CASE b \in keys /\ count[b] = 1
    <3>1. /\ keys' = keys \ {b} /\ heap' = (heap \ {b}) \cup S
          /\ count' = [count EXCEPT ![b] = 0]
      BY <2>1, <2>4 DEF DecrementAnd, Erase
    <3>2. Cardinality(Holders(b)) = stale[b] + 1
      BY <2>1, <2>4 DEF CountIsHolders
    <3>3. CASE a = b
      <4>1. Life(a) = "shared" /\ Life(a)' = "free"
        BY <3>1, <3>3, <2>4, <1>2 DEF Life
      <4>2. Shared!LeaveLast(a, h)
        BY <4>1, <3>2, <3>3, <2>2, SameCardinality DEF Shared!LeaveLast, Shared!Nobody
      <4>3. QED
        BY <4>2 DEF Shared!Step
    <3>4. CASE a \in S
      BY <3>1, <3>4, <1>2, <2>4 DEF Shared!Step, Shared!Allocate, Shared!Nobody, Life
    <3>5. CASE a # b /\ a \notin S
      BY <3>1, <3>5, <2>3, StutterStep
    <3>6. QED
      BY <3>3, <3>4, <3>5
  <2>5. CASE ~(b \in keys /\ count[b] = 1)
    <3>1. /\ count' = IF b \in keys /\ count[b] > 1
                        THEN [count EXCEPT ![b] = count[b] - 1] ELSE count
          /\ heap' = heap \cup S /\ keys' = keys
      BY <2>1, <2>5 DEF DecrementAnd
    <3>2. CASE a = b /\ a \in keys /\ count[a] > 1
      <4>1. count'[a] # 0
        BY <3>1, <3>2, <2>1
      <4>2. Cardinality(Holders(a)) # stale[a] + 1
        BY <3>2, <2>1 DEF CountIsHolders
      <4>3. /\ Life(a) = "shared" /\ Life(a)' = "shared"
            /\ Holders(a)' = Holders(a) \ {h}
        BY <3>1, <3>2, <4>1, <1>1, <1>2 DEF Life
      <4>4. Shared!Leave(a, h)
        BY <4>2, <4>3, <2>2, <3>2, SameCardinality DEF Shared!Leave
      <4>5. QED
        BY <4>4 DEF Shared!Step
    <3>3. CASE a = b /\ a \in keys /\ ~(count[a] > 1)
      <4>1. count[a] = 0 /\ count' = count
        BY <3>1, <3>3, <2>5
      <4>2. QED
        BY <4>1, <3>1, <3>3, <1>2, StutterStep
    <3>4. CASE (a # b \/ a \notin keys) /\ a \in S
      BY <3>1, <3>4, <1>2 DEF Shared!Step, Shared!Allocate, Shared!Nobody, Life
    <3>5. CASE (a # b \/ a \notin keys) /\ a \notin S
      <4>1. count'[a] = count[a]
        BY <3>1, <3>5, <2>1
      <4>2. QED
        BY <4>1, <3>1, <3>5, <2>3, StutterStep
    <3>6. QED
      BY <3>2, <3>3, <3>4, <3>5
  <2>6. QED
    BY <2>4, <2>5
<1>5. QED
  BY <1>3, <1>4

(* Every step is, for each structure, a step of its life or no step.       *)
LEMMA StepImplements ==
  ASSUME IInv, Next, NEW a \in Address
  PROVE  Shared!Step(a) \/ Shared!Unchanged(a)
<1> USE DEF IInv, TypeOK
<1>1. ASSUME NEW h \in Handle, Releases(h)
      PROVE  Shared!Step(a) \/ Shared!Unchanged(a)
  <2>1. PICK S \in SUBSET (Address \ heap) : DecrementCounter(h, S)
    BY <1>1, ReleasesDecrement
  <2>2. Usable(h) /\ \A k \in Handle \ {h} : UNCHANGED <<col[k], ipc[k], op[k]>>
    BY <1>1, ReleasesDecrement
  <2>5. stale' = stale
    BY <1>1 DEF Releases, AssignRelease, CreateRelease, WrapsOther, Destroy
  <2>3. \A b \in keys : h \notin Holders(b)'
    <3>1. CASE \E g \in Handle : AssignRelease(h, g)
      BY <3>1 DEF AssignRelease, Holders
    <3>2. CASE CreateRelease(h)
      BY <3>2 DEF CreateRelease, Holders
    <3>3. CASE Destroy(h)
      BY <3>3, NullOutside DEF Destroy, Holders
    <3>4. CASE WrapsOther(h)
      <4>1. op'[h] # "idle"
        BY <3>4 DEF WrapsOther
      <4>2. QED
        BY <4>1 DEF Holders
    <3>5. QED
      BY <1>1, <3>1, <3>2, <3>3, <3>4 DEF Releases
  <2>4. QED
    BY <2>1, <2>2, <2>3, <2>5, ReleaseStep
<1>2. ASSUME NEW h \in Handle, NEW g \in Handle, CopyConstruct(h, g)
      PROVE  Shared!Step(a) \/ Shared!Unchanged(a)
  <2>1. /\ col[h] = Null /\ h # g /\ heap' = heap /\ keys' = keys /\ op' = op
        /\ stale' = stale
        /\ op[h] = "idle" /\ col[g] \in Address
        /\ col' = [col EXCEPT ![h] = col[g]] /\ ipc' = [ipc EXCEPT ![h] = ipc[g]]
        /\ count' = IF col[g] \in keys /\ count[col[g]] # 0
                      THEN [count EXCEPT ![col[g]] = count[col[g]] + 1] ELSE count
    BY <1>2 DEF CopyConstruct, increment, Usable
  <2>2. h \notin Holders(a)
    BY <2>1, NullOutside DEF Holders
  <2>3. CASE a = col[g] /\ a \in keys /\ count[a] # 0
    <3>1. Holders(a)' = Holders(a) \cup {h}
      BY <2>1, <2>3, NullOutside DEF Holders, IpcIsUncounted
    <3>2. count'[a] # 0
      BY <2>1, <2>3
    <3>3. QED
      BY <2>1, <2>2, <2>3, <3>1, <3>2, JoinStep DEF Shared!Step
  <2>4. CASE ~(a = col[g] /\ a \in keys /\ count[a] # 0)
    <3>1. a \in keys /\ count[a] # 0 => Holders(a)' = Holders(a)
      BY <2>1, <2>4, NullOutside DEF Holders
    <3>2. count'[a] = count[a]
      BY <2>1, <2>4
    <3>3. QED
      BY <2>1, <3>1, <3>2, StutterStep
  <2>5. QED
    BY <2>3, <2>4
<1>3. ASSUME NEW h \in Handle, AssignCount(h)
      PROVE  Shared!Step(a) \/ Shared!Unchanged(a)
  <2>1. /\ op[h] = "assigning" /\ heap' = heap /\ keys' = keys /\ stale' = stale
        /\ op' = [op EXCEPT ![h] = "idle"] /\ col' = col /\ ipc' = ipc
        /\ count' = IF col[h] \in keys /\ count[col[h]] # 0
                      THEN [count EXCEPT ![col[h]] = count[col[h]] + 1] ELSE count
    BY <1>3, NullOutside DEF AssignCount, increment, counter
  <2>2. h \notin Holders(a)
    BY <2>1 DEF Holders
  <2>3. CASE a = col[h] /\ a \in keys /\ count[a] # 0
    <3>1. Holders(a)' = Holders(a) \cup {h}
      BY <2>1, <2>3 DEF Holders, IpcIsUncounted
    <3>2. count'[a] # 0
      BY <2>1, <2>3
    <3>3. QED
      BY <2>1, <2>2, <2>3, <3>1, <3>2, JoinStep DEF Shared!Step
  <2>4. CASE ~(a = col[h] /\ a \in keys /\ count[a] # 0)
    <3>1. a \in keys /\ count[a] # 0 => Holders(a)' = Holders(a)
      BY <2>1, <2>4 DEF Holders
    <3>2. count'[a] = count[a]
      BY <2>1, <2>4
    <3>3. QED
      BY <2>1, <3>1, <3>2, StutterStep
  <2>5. QED
    BY <2>3, <2>4
<1>4. ASSUME NEW h \in Handle, CreateNew(h) \/ CreateForIpc(h)
      PROVE  Shared!Step(a) \/ Shared!Unchanged(a)
  <2>1. PICK b \in Address :
          /\ Fresh(b) /\ heap' = heap \cup {b} /\ col' = [col EXCEPT ![h] = b]
    BY <1>4 DEF CreateNew, CreateForIpc
  <2>2. /\ keys' = keys /\ count' = count /\ stale' = stale /\ op[h] = "creating"
        /\ \A k \in Handle \ {h} : ipc'[k] = ipc[k] /\ op'[k] = op[k]
    BY <1>4 DEF CreateNew, CreateForIpc
  <2>3. b \notin heap /\ b \notin keys
    BY <2>1 DEF Fresh, CountedIsAllocated
  <2>4. CASE a = b
    BY <2>1, <2>2, <2>3, <2>4 DEF Shared!Step, Shared!Allocate, Shared!Nobody, Life
  <2>5. CASE a # b
    <3>1. Holders(a)' = Holders(a)
      BY <2>1, <2>2, <2>5 DEF Holders
    <3>2. QED
      BY <3>1, <2>1, <2>2, <2>5, StutterStep
  <2>6. QED
    BY <2>4, <2>5
<1>5. ASSUME NEW h \in Handle, CreateRegister(h)
      PROVE  Shared!Step(a) \/ Shared!Unchanged(a)
  <2>1. /\ op[h] = "registering" /\ op' = [op EXCEPT ![h] = "idle"]
        /\ col' = col /\ ipc' = ipc /\ heap' = heap /\ keys' = keys \cup {col[h]}
        /\ col[h] \in heap \ keys /\ col[h] \in Address /\ ~ipc[h]
    BY <1>5 DEF CreateRegister, register_column, RegisteringIsAlone
  <2>2. /\ count' = [count EXCEPT ![col[h]] = 1]
        /\ stale' = [stale EXCEPT ![col[h]] = Cardinality(Holders(col[h]))]
    BY <1>5, <2>1 DEF CreateRegister, register_column
  <2>3. CASE a = col[h]
    <3>1. h \notin Holders(a) /\ Holders(a)' = Holders(a) \cup {h}
      BY <2>1, <2>3 DEF Holders
    <3>4. Cardinality(Holders(a)') = Cardinality(Holders(a)) + 1
      BY <3>1, MoreHolders
    <3>5. stale'[a] = Cardinality(Holders(a)) /\ count'[a] = 1
      BY <2>2, <2>3
    <3>2. Shared!Share(a, h)
      BY <2>1, <2>3, <3>1, <3>4, <3>5, SameCardinality DEF Shared!Share, Life
    <3>3. QED
      BY <3>2 DEF Shared!Step
  <2>4. CASE a # col[h]
    <3>1. Holders(a)' = Holders(a)
      BY <2>1, <2>4 DEF Holders
    <3>2. QED
      BY <3>1, <2>1, <2>2, <2>4, StutterStep
  <2>5. QED
    BY <2>3, <2>4
<1>6. ASSUME NEW h \in Handle, CreateThrows(h)
      PROVE  Shared!Step(a) \/ Shared!Unchanged(a)
  <2>1. /\ heap' = heap /\ keys' = keys /\ count' = count /\ col' = col /\ ipc' = ipc
        /\ stale' = stale
        /\ op' = [op EXCEPT ![h] = "idle"] /\ col[h] \notin keys
    BY <1>6 DEF CreateThrows, RegisteringIsAlone
  <2>2. a \in keys => Holders(a)' = Holders(a)
    BY <2>1 DEF Holders
  <2>3. QED
    BY <2>1, <2>2, StutterStep
<1>7. ASSUME NEW h \in Handle, Deregister(h)
      PROVE  Shared!Step(a) \/ Shared!Unchanged(a)
  <2>1. /\ heap' = heap /\ keys' = keys /\ col' = col /\ ipc' = ipc /\ op' = op
        /\ stale' = stale
        /\ col[h] \in Address
        /\ count' = IF col[h] \in keys THEN [count EXCEPT ![col[h]] = 0] ELSE count
    BY <1>7 DEF Deregister, deregister_column
  <2>2. Holders(a)' = Holders(a)
    BY <2>1 DEF Holders
  <2>3. CASE a = col[h] /\ a \in keys /\ count[a] # 0
    BY <2>1, <2>3 DEF Shared!Step, Shared!GiveAway, Shared!Nobody, Life, CountedIsAllocated
  <2>4. CASE ~(a = col[h] /\ a \in keys /\ count[a] # 0)
    BY <2>1, <2>2, <2>4, StutterStep
  <2>5. QED
    BY <2>3, <2>4
<1>8. ASSUME NEW h \in Handle, FreeColumn(h)
      PROVE  Shared!Step(a) \/ Shared!Unchanged(a)
  <2>1. /\ col' = col /\ ipc' = ipc /\ op' = op /\ stale' = stale
        /\ col[h] \in keys /\ count[col[h]] = 0
        /\ keys' = keys \ {col[h]} /\ heap' = heap \ {col[h]}
        /\ count' = [count EXCEPT ![col[h]] = 0]
    BY <1>8 DEF FreeColumn, free, Erase
  <2>2. Holders(a)' = Holders(a)
    BY <2>1 DEF Holders
  <2>3. CASE a = col[h]
    BY <2>1, <2>3 DEF Shared!Step, Shared!Reclaim, Shared!Nobody, Life, CountedIsAllocated
  <2>4. CASE a # col[h]
    BY <2>1, <2>2, <2>4, StutterStep
  <2>5. QED
    BY <2>3, <2>4
<1>10. ASSUME NEW h \in Handle, WrapsSame(h)
       PROVE  Shared!Step(a) \/ Shared!Unchanged(a)
  <2>1. PICK b \in Address : b \notin heap /\ heap' = heap \cup {b}
    BY <1>10 DEF WrapsSame
  <2>2. keys' = keys /\ count' = count /\ stale' = stale /\ Holders(a)' = Holders(a)
    BY <1>10 DEF WrapsSame, Holders
  <2>3. CASE a = b
    BY <2>1, <2>2, <2>3 DEF Shared!Step, Shared!Allocate, Shared!Nobody, Life,
                            CountedIsAllocated
  <2>4. CASE a # b
    BY <2>1, <2>2, <2>4, StutterStep
  <2>5. QED
    BY <2>3, <2>4
<1>9. QED
  BY <1>1, <1>2, <1>3, <1>4, <1>5, <1>6, <1>7, <1>8, <1>10, WrapSplits DEF Next, Releases

(* Every behaviour of the handles and the counter is, structure by         *)
(* structure, one that SharedOwnership allows: deleted exactly once, by    *)
(* the last handle but for those stale at its registration or, when it was *)
(* given away, by free_result.                                             *)
THEOREM ImplementsSharedOwnership ==
  Spec => SharedOwnershipHolds
<1>1. Init => Shared!Init
  BY DEF Init, Shared!Init, Life
<1>2. ASSUME IInv, [Next]_vars PROVE [Shared!Next]_(Shared!vars)
  <2>1. CASE Next
    BY <1>2, <2>1, StepImplements DEF Shared!Next
  <2>2. CASE UNCHANGED vars
    BY <2>2 DEF vars, Shared!vars, Life, Holders
  <2>3. QED
    BY <1>2, <2>1, <2>2
<1>3. QED
  BY <1>1, <1>2, Invariance, PTL DEF Spec, SharedOwnershipHolds, Shared!Spec
=============================================================================
