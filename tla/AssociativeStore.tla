-------------------------- MODULE AssociativeStore --------------------------
(***************************************************************************)
(* What a component store promises the ECS: a map from entities to         *)
(* components.                                                             *)
(***************************************************************************)
CONSTANTS EntityId, Component

VARIABLE store   \* a function whose domain is a set of entities

Init == store = [e \in {} |-> {}]

Insert(e, c) ==
  /\ e \notin DOMAIN store
  /\ store' = [x \in DOMAIN store \cup {e} |-> IF x = e THEN c ELSE store[x]]

Remove(e) == store' = [x \in DOMAIN store \ {e} |-> store[x]]

Next == \E e \in EntityId : Remove(e) \/ \E c \in Component : Insert(e, c)

Spec == Init /\ [][Next]_store
====
