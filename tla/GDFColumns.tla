----------------------------- MODULE GDFColumns -----------------------------
(***************************************************************************)
(* GDFRefCounter (GDFCounter.cu) and the handles that use it, gdf_column_cpp *)
(* (GDFColumn.cu).  A handle owns, shares or merely points to a gdf_column  *)
(* structure on the heap.  The counter is one std::map guarded by gc_mutex, *)
(* so each of its methods is one atomic step; the constructors and the      *)
(* assignment of a handle call it more than once and are split at every     *)
(* call, because handles of other threads (the detached query threads and   *)
(* the protocol handler) run in between.                                    *)
(***************************************************************************)
EXTENDS Naturals, FiniteSets

CONSTANTS
  Handle,     \* gdf_column_cpp objects, constructed or not
  Address,    \* addresses a gdf_column structure can be allocated at
  Null        \* the null pointer

ASSUME HandleFinite == IsFiniteSet(Handle)
ASSUME NullOutside == Null \notin Address /\ Null \notin Handle

VARIABLES
  heap,   \* addresses of the gdf_column structures that are allocated
  keys,   \* addresses that have an entry in GDFRefCounter::map
  count,  \* the count of that entry (0 where there is no entry)
  col,    \* gdf_column_cpp::column of each handle
  ipc,    \* gdf_column_cpp::is_ipc_column
  op,     \* what the thread that owns the handle is in the middle of
  src,    \* the argument of the operator= in progress on a handle
  stale   \* history: the handles that pointed to an address already when the
          \* structure there was registered, left from one deleted before

counter == <<heap, keys, count>>
vars == <<heap, keys, count, col, ipc, op, src, stale>>

Phase == {"idle", "creating", "registering", "assigning"}

TypeOK ==
  /\ heap \subseteq Address
  /\ keys \subseteq Address
  /\ count \in [Address -> Nat]
  /\ col \in [Handle -> Address \cup {Null}]
  /\ ipc \in [Handle -> BOOLEAN]
  /\ op \in [Handle -> Phase]
  /\ src \in [Handle -> Handle \cup {Null}]
  /\ stale \in [Address -> Nat]

Init ==
  /\ heap = {} /\ keys = {}
  /\ count = [a \in Address |-> 0]
  /\ col = [h \in Handle |-> Null]
  /\ ipc = [h \in Handle |-> FALSE]
  /\ op = [h \in Handle |-> "idle"]
  /\ src = [h \in Handle |-> Null]
  /\ stale = [a \in Address |-> 0]

-----------------------------------------------------------------------------
(* The methods of GDFRefCounter, each under gc_mutex.                      *)

register_column(a) ==
  /\ keys' = keys \cup {a}
  /\ count' = IF a \in keys THEN count ELSE [count EXCEPT ![a] = 1]
  /\ UNCHANGED heap

(* Mutant: a column that was given away is counted again.                  *)
increment_given(a) ==
  /\ count' = IF a \in keys THEN [count EXCEPT ![a] = @ + 1] ELSE count
  /\ UNCHANGED <<heap, keys>>

increment(a) ==
  /\ count' = IF a \in keys /\ count[a] # 0
                THEN [count EXCEPT ![a] = @ + 1] ELSE count
  /\ UNCHANGED <<heap, keys>>

(* Mutant: the structure is deleted, the entry stays.                      *)
EraseKeepingKey(a, allocated) ==
  /\ keys' = keys
  /\ count' = [count EXCEPT ![a] = 0]
  /\ heap' = (heap \ {a}) \cup allocated

(* The entry is erased and the structure deleted, whatever its count is.   *)
Erase(a, allocated) ==
  /\ keys' = keys \ {a}
  /\ count' = [count EXCEPT ![a] = 0]
  /\ heap' = (heap \ {a}) \cup allocated

(* Mutant: a count of 0 is decremented too.                                *)
DecrementGiven(a, allocated) ==
  IF a \in keys /\ count[a] = 1
    THEN Erase(a, allocated)
    ELSE /\ count' = IF a \in keys THEN [count EXCEPT ![a] = @ - 1] ELSE count
         /\ heap' = heap \cup allocated
         /\ UNCHANGED keys

(* "allocated" is what the caller has put on the heap just before.         *)
DecrementAnd(a, allocated) ==
  IF a \in keys /\ count[a] = 1
    THEN Erase(a, allocated)
    ELSE /\ count' = IF a \in keys /\ count[a] > 1
                       THEN [count EXCEPT ![a] = @ - 1] ELSE count
         /\ heap' = heap \cup allocated
         /\ UNCHANGED keys

decrement(a) == DecrementAnd(a, {})

deregister_column(a) ==
  /\ count' = IF a \in keys THEN [count EXCEPT ![a] = 0] ELSE count
  /\ UNCHANGED <<heap, keys>>

(* Mutant: the entry is erased, the structure is not deleted.              *)
free_leaking(a) ==
  /\ keys' = keys \ {a}
  /\ count' = [count EXCEPT ![a] = 0]
  /\ UNCHANGED heap

free(a) ==
  IF a \in keys THEN Erase(a, {}) ELSE UNCHANGED counter

(* gdf_column_cpp::decrement_counter: an IPC column is never counted.      *)
DecrementCounter(h, allocated) ==
  IF col[h] # Null /\ ~ipc[h]
    THEN DecrementAnd(col[h], allocated)
    ELSE heap' = heap \cup allocated /\ UNCHANGED <<keys, count>>

-----------------------------------------------------------------------------
(* A thread may use a handle when none of its calls is in the middle of    *)
(* something with that handle, as the target or as the argument.           *)
Usable(h) ==
  /\ op[h] = "idle"
  /\ \A g \in Handle : (op[g] = "assigning" => src[g] # h)

(* What malloc may return: the address of a deleted structure too, though  *)
(* handles may still point to it.                                          *)
Fresh(a) == a \notin heap

(* The handles that the counter takes for sharing a structure, once it is  *)
(* registered: those that point to its address.                            *)
Holders(a) == {h \in Handle : col[h] = a /\ ~ipc[h] /\ op[h] = "idle"}

(* Mutant: a copy is not counted.                                          *)
CopyUncounted(h, g) ==
  /\ Usable(h) /\ Usable(g)
  /\ col[h] = Null /\ col[g] # Null
  /\ col' = [col EXCEPT ![h] = col[g]]
  /\ ipc' = [ipc EXCEPT ![h] = ipc[g]]
  /\ UNCHANGED <<heap, keys, count, op, src, stale>>

(* The copy constructors: point to the same structure, then increment.     *)
CopyConstruct(h, g) ==
  /\ Usable(h) /\ Usable(g)
  /\ col[h] = Null /\ col[g] # Null
  /\ col' = [col EXCEPT ![h] = col[g]]
  /\ ipc' = [ipc EXCEPT ![h] = ipc[g]]
  /\ increment(col[g])
  /\ UNCHANGED <<op, src, stale>>

(* operator=: nothing if both already point to the same structure,         *)
(* otherwise the old structure is released first ...                       *)
AssignRelease(h, g) ==
  /\ Usable(h) /\ Usable(g)
  /\ col[h] # col[g]
  /\ DecrementCounter(h, {})
  /\ col' = [col EXCEPT ![h] = col[g]]
  /\ ipc' = [ipc EXCEPT ![h] = ipc[g]]
  /\ op' = [op EXCEPT ![h] = "assigning"]
  /\ src' = [src EXCEPT ![h] = g]
  /\ UNCHANGED stale

(* ... and the new one is counted last.                                    *)
AssignCount(h) ==
  /\ op[h] = "assigning"
  /\ IF col[h] # Null THEN increment(col[h]) ELSE UNCHANGED counter
  /\ op' = [op EXCEPT ![h] = "idle"]
  /\ src' = [src EXCEPT ![h] = Null]
  /\ UNCHANGED <<col, ipc, stale>>

(* Every create_gdf_column that allocates its own structure (and clone,    *)
(* which fills a fresh handle) first gives up the structure it had ...     *)
CreateRelease(h) ==
  /\ Usable(h)
  /\ DecrementCounter(h, {})
  /\ op' = [op EXCEPT ![h] = "creating"]
  /\ UNCHANGED <<col, ipc, src, stale>>

(* ... then allocates another one, possibly at the address just freed ...  *)
CreateNew(h) ==
  /\ op[h] = "creating"
  /\ \E a \in Address :
       /\ Fresh(a)
       /\ heap' = heap \cup {a}
       /\ col' = [col EXCEPT ![h] = a]
  /\ ipc' = [ipc EXCEPT ![h] = FALSE]
  /\ op' = [op EXCEPT ![h] = "registering"]
  /\ UNCHANGED <<keys, count, src, stale>>

(* ... and registers it last; a handle that points to the address from     *)
(* before, is now taken for one that shares the structure.                 *)
CreateRegister(h) ==
  /\ op[h] = "registering"
  /\ register_column(col[h])
  /\ stale' = [stale EXCEPT ![col[h]] = Cardinality(Holders(col[h]))]
  /\ op' = [op EXCEPT ![h] = "idle"]
  /\ UNCHANGED <<col, ipc, src>>

(* cuDF::Allocator throws before the registration: the handle keeps a      *)
(* structure the counter knows nothing about.                              *)
CreateThrows(h) ==
  /\ op[h] = "registering"
  /\ op' = [op EXCEPT ![h] = "idle"]
  /\ UNCHANGED <<heap, keys, count, col, ipc, src, stale>>

(* create_gdf_column_for_ipc: memory of another process, never counted.    *)
CreateForIpc(h) ==
  /\ op[h] = "creating"
  /\ \E a \in Address :
       /\ Fresh(a)
       /\ heap' = heap \cup {a}
       /\ col' = [col EXCEPT ![h] = a]
  /\ ipc' = [ipc EXCEPT ![h] = TRUE]
  /\ op' = [op EXCEPT ![h] = "idle"]
  /\ UNCHANGED <<keys, count, src, stale>>

(* create_gdf_column of a raw pointer: callers pass a structure libgdf     *)
(* has just allocated.  Nothing happens when the handle already points to  *)
(* that address; otherwise the registration follows as above.              *)
Wrap(h) ==
  /\ Usable(h)
  /\ \E a \in Address :
       /\ Fresh(a)
       /\ IF a = col[h]
            THEN /\ heap' = heap \cup {a}
                 /\ UNCHANGED <<keys, count, col, ipc, op>>
            ELSE /\ DecrementCounter(h, {a})
                 /\ col' = [col EXCEPT ![h] = a]
                 /\ ipc' = [ipc EXCEPT ![h] = FALSE]
                 /\ op' = [op EXCEPT ![h] = "registering"]
  /\ UNCHANGED <<src, stale>>

(* ~gdf_column_cpp.                                                        *)
Destroy(h) ==
  /\ Usable(h)
  /\ col[h] # Null
  /\ DecrementCounter(h, {})
  /\ col' = [col EXCEPT ![h] = Null]
  /\ ipc' = [ipc EXCEPT ![h] = FALSE]
  /\ UNCHANGED <<op, src, stale>>

(* update_token, get_result and evaluate_query take a column out of the    *)
(* counting: it stays in the map with count 0 until free.                  *)
Deregister(h) ==
  /\ Usable(h)
  /\ col[h] # Null
  /\ deregister_column(col[h])
  /\ UNCHANGED <<col, ipc, op, src, stale>>

(* free_result frees the columns of a result, all deregistered before.     *)
FreeColumn(h) ==
  /\ Usable(h)
  /\ col[h] \in keys /\ count[col[h]] = 0
  /\ free(col[h])
  /\ UNCHANGED <<col, ipc, op, src, stale>>

Next ==
  \/ \E h, g \in Handle : CopyConstruct(h, g)
  \/ \E h, g \in Handle : AssignRelease(h, g)
  \/ \E h \in Handle : AssignCount(h)
  \/ \E h \in Handle : CreateRelease(h)
  \/ \E h \in Handle : CreateNew(h)
  \/ \E h \in Handle : CreateRegister(h)
  \/ \E h \in Handle : CreateThrows(h)
  \/ \E h \in Handle : CreateForIpc(h)
  \/ \E h \in Handle : Wrap(h)
  \/ \E h \in Handle : Destroy(h)
  \/ \E h \in Handle : Deregister(h)
  \/ \E h \in Handle : FreeColumn(h)

Spec == Init /\ [][Next]_vars

-----------------------------------------------------------------------------
(* The strengthening of CountExact that every step preserves.              *)
CountedIsAllocated ==
  /\ keys \subseteq heap
  /\ \A a \in Address \ keys : count[a] = 0

CountIsHolders ==
  \A a \in keys : count[a] > 0 => count[a] + stale[a] = Cardinality(Holders(a))

RegisteringIsAlone ==
  \A h \in Handle : op[h] = "registering" =>
    /\ col[h] \in heap \ keys /\ ~ipc[h]
    /\ \A g \in Handle \ {h} : op[g] = "registering" \/ ipc[g] => col[g] # col[h]

AssigningIsBacked ==
  \A h \in Handle : op[h] = "assigning" =>
    /\ src[h] \in Handle \ {h} /\ op[src[h]] = "idle"
    /\ col[src[h]] = col[h] /\ ipc[src[h]] = ipc[h]

IpcIsUncounted == \A h \in Handle : ipc[h] => col[h] \in heap \ keys

IInv ==
  /\ TypeOK
  /\ CountedIsAllocated
  /\ CountIsHolders
  /\ RegisteringIsAlone
  /\ AssigningIsBacked
  /\ IpcIsUncounted

(* Where the structure at address a is in its life, and who shares it.     *)
Life(a) ==
  IF a \notin heap THEN "free"
  ELSE IF a \notin keys THEN "uncounted"
  ELSE IF count[a] = 0 THEN "given" ELSE "shared"

Shared == INSTANCE SharedOwnership WITH
  life <- [a \in Address |-> Life(a)],
  owners <- [a \in Address |-> IF Life(a) = "shared" THEN Holders(a) ELSE {}],
  strangers <- [a \in Address |-> IF Life(a) = "shared" THEN stale[a] ELSE 0]

(* Whatever the threads do with copies of a column, only allocated         *)
(* structures have an entry in GDFRefCounter::map, so none is deleted      *)
(* twice, and the count of an entry is the number of handles that share    *)
(* the structure, less those that pointed to its address before it was     *)
(* registered, when malloc reused the address of a deleted one             *)
(* (GDFRefCounter and gdf_column_cpp).                                     *)
CountExact ==
  \A a \in keys :
    /\ a \in heap
    /\ count[a] > 0 => count[a] + stale[a] = Cardinality(Holders(a))

(* When a thread leaves a counted structure and that deletes it, as many   *)
(* handles keep a dangling pointer as were stale when the structure was    *)
(* registered; none was: then no handle points to it any more, not even    *)
(* one in the middle of operator= that is not counted yet, only one that   *)
(* create_gdf_column is refilling.                                         *)
NoEarlyFree ==
  [][\A a \in heap \ heap' : count[a] > 0 =>
       /\ Cardinality({h \in Handle : col'[h] = a /\ op'[h] = "idle"}) = stale[a]
       /\ stale[a] = 0 => \A h \in Handle : col'[h] = a => op'[h] = "creating"]_vars

(* Each structure lives as SharedOwnership says: registered once, shared,  *)
(* deleted when only as many are left as had not joined it, or by          *)
(* free_result.                                                            *)
SharedOwnershipHolds == Shared!Spec
=============================================================================
