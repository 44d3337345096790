-------------------------- MODULE SharedOwnership ---------------------------
(***************************************************************************)
(* What reference counting promises for the gdf_column structures: each is *)
(* shared by a set of handles and deleted by the handle that leaves last,  *)
(* never earlier, unless it was given away to the result repository, which *)
(* then deletes it explicitly.  The count goes by address: handles that    *)
(* point to the address when a structure is registered there, are          *)
(* strangers that share it without having joined, and the structure is     *)
(* deleted when one owner leaves and only as many are left as there were   *)
(* strangers.  A step may concern two structures at once (a handle leaves  *)
(* one and takes another), each in a way allowed here.                     *)
(***************************************************************************)
EXTENDS Naturals, FiniteSets

CONSTANTS Handle, Address

VARIABLES
  life,      \* where each structure is in its life
  owners,    \* the handles that share it
  strangers  \* how many of them pointed to its address when it was registered

vars == <<life, owners, strangers>>

TypeOK ==
  /\ life \in [Address -> {"free", "uncounted", "shared", "given"}]
  /\ owners \in [Address -> SUBSET Handle]
  /\ strangers \in [Address -> Nat]

Init ==
  /\ life = [a \in Address |-> "free"]
  /\ owners = [a \in Address |-> {}]
  /\ strangers = [a \in Address |-> 0]

Nobody(a) == owners'[a] = {} /\ strangers'[a] = 0

(* Allocated, but nobody has registered it.                                *)
Allocate(a) ==
  /\ life[a] = "free" /\ life'[a] = "uncounted"
  /\ Nobody(a)

(* The handle that registers the structure is its first owner.             *)
Share(a, h) ==
  /\ life[a] = "uncounted" /\ life'[a] = "shared"
  /\ h \in owners'[a]
  /\ strangers'[a] + 1 = Cardinality(owners'[a])

Join(a, h) ==
  /\ life[a] = "shared" /\ life'[a] = "shared"
  /\ h \notin owners[a]
  /\ owners'[a] = owners[a] \cup {h}
  /\ strangers'[a] = strangers[a]

Leave(a, h) ==
  /\ life[a] = "shared" /\ h \in owners[a]
  /\ Cardinality(owners[a]) # strangers[a] + 1
  /\ life'[a] = "shared"
  /\ owners'[a] = owners[a] \ {h}
  /\ strangers'[a] = strangers[a]

(* The last owner to leave, but for the strangers, deletes the structure.  *)
LeaveLast(a, h) ==
  /\ life[a] = "shared" /\ h \in owners[a]
  /\ Cardinality(owners[a]) = strangers[a] + 1
  /\ life'[a] = "free"
  /\ Nobody(a)

GiveAway(a) ==
  /\ life[a] = "shared" /\ life'[a] = "given"
  /\ Nobody(a)

Reclaim(a) ==
  /\ life[a] = "given" /\ life'[a] = "free"
  /\ Nobody(a)

Unchanged(a) ==
  /\ life'[a] = life[a] /\ owners'[a] = owners[a]
  /\ strangers'[a] = strangers[a]

Step(a) ==
  \/ Allocate(a)
  \/ \E h \in Handle : Share(a, h)
  \/ \E h \in Handle : Join(a, h)
  \/ \E h \in Handle : Leave(a, h) \/ LeaveLast(a, h)
  \/ GiveAway(a)
  \/ Reclaim(a)

Next == \A a \in Address : Step(a) \/ Unchanged(a)

Spec == Init /\ [][Next]_vars
=============================================================================
