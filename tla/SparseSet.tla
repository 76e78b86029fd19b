----------------------------- MODULE SparseSet -----------------------------
(***************************************************************************)
(* SparseSet, the structure behind every component store: the components   *)
(* side by side in a vector, and an index from entities to positions.      *)
(* Removal moves the last component into the hole and looks for the entry  *)
(* of the index that has to follow it.  Positions start at 1 here.         *)
(***************************************************************************)
EXTENDS Naturals, Sequences

CONSTANTS EntityId, Component

VARIABLES
  dense,    \* m_dense
  sparse    \* m_sparse: a function from the entities present to positions

vars == <<dense, sparse>>

hasComponent(e) == e \in DOMAIN sparse

get(e) == dense[sparse[e]]

Init == dense = <<>> /\ sparse = [e \in {} |-> 0]

(* Mutant: insert without the check its caller makes.                      *)
Insert_Unchecked(e, c) ==
  /\ sparse' = [x \in DOMAIN sparse \cup {e} |->
                  IF x = e THEN Len(dense) + 1 ELSE sparse[x]]
  /\ dense' = Append(dense, c)

(* insert, as addComponentToEntity calls it: never over an entry.          *)
Insert(e, c) ==
  /\ ~hasComponent(e)
  /\ sparse' = [x \in DOMAIN sparse \cup {e} |->
                  IF x = e THEN Len(dense) + 1 ELSE sparse[x]]
  /\ dense' = Append(dense, c)

(* Mutant: the index of the component that moved is not corrected.         *)
Reindexed_Forgotten(e, moved) == [x \in DOMAIN sparse \ {e} |-> sparse[x]]

(* The index once e is gone and the component of `moved' is in its place.  *)
Reindexed(e, moved) ==
  [x \in DOMAIN sparse \ {e} |-> IF x = moved THEN sparse[e] ELSE sparse[x]]

(* Mutant: the last component goes, and nothing takes e's place.           *)
WithLastMovedTo_Forgotten(i) == SubSeq(dense, 1, Len(dense) - 1)

(* The vector once its last component has moved to position i.             *)
WithLastMovedTo(i) ==
  SubSeq([dense EXCEPT ![i] = dense[Len(dense)]], 1, Len(dense) - 1)

(* remove.  `moved' is the first entry found at the last position; nothing *)
(* moves when that position is e's own.                                    *)
Remove(e) ==
  /\ hasComponent(e)
  /\ LET last == Len(dense) IN
       \/ /\ sparse[e] # last
          /\ dense' = WithLastMovedTo(sparse[e])
          /\ \E moved \in DOMAIN sparse :
               /\ sparse[moved] = last
               /\ sparse' = Reindexed(e, moved)
       \/ /\ sparse[e] = last
          /\ dense' = SubSeq(dense, 1, last - 1)
          /\ sparse' = [x \in DOMAIN sparse \ {e} |-> sparse[x]]

Next == \E e \in EntityId : Remove(e) \/ \E c \in Component : Insert(e, c)

Spec == Init /\ [][Next]_vars

-----------------------------------------------------------------------------
(* Every variable has its type, and no entry points past the vector.       *)
TypeOK ==
  /\ dense \in Seq(Component)
  /\ DOMAIN sparse \subseteq EntityId
  /\ sparse \in [DOMAIN sparse -> 1 .. Len(dense)]

(* The index is one-to-one onto the positions: no component is shared by   *)
(* two entities, none is in the vector without an owner.                   *)
OneToOne ==
  /\ \A d, e \in DOMAIN sparse : sparse[d] = sparse[e] => d = e
  /\ \A i \in 1 .. Len(dense) : \E e \in DOMAIN sparse : sparse[e] = i

IInv == TypeOK /\ OneToOne

Contents == [e \in DOMAIN sparse |-> get(e)]

Map == INSTANCE AssociativeStore WITH store <- Contents

(* The store behaves as a map: an entity's component is the one that was   *)
(* inserted for it, whatever was removed since.                            *)
ImplementsMap == Map!Spec
====
