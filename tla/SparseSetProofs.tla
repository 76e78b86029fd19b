-------------------------- MODULE SparseSetProofs --------------------------
(***************************************************************************)
(* SparseSet implements AssociativeStore, for any entities and components. *)
(***************************************************************************)
EXTENDS SparseSet, SequenceTheorems, TLAPS

(* What is left of a sequence without its last element.                    *)
LEMMA Shortened ==
  ASSUME NEW S, NEW s \in Seq(S), s # <<>>
  PROVE  /\ SubSeq(s, 1, Len(s) - 1) \in Seq(S)
         /\ Len(SubSeq(s, 1, Len(s) - 1)) = Len(s) - 1
         /\ \A j \in 1 .. Len(s) - 1 : SubSeq(s, 1, Len(s) - 1)[j] = s[j]
<1>1. Len(s) \in Nat \ {0} /\ \A i \in 1 .. Len(s) : s[i] \in S
  BY EmptySeq, LenProperties, ElementOfSeq
<1> DEFINE n == Len(s) - 1
<1>2. n \in Nat /\ \A i \in 1 .. n : s[i] \in S
  BY <1>1
<1> HIDE DEF n
<1>3. /\ SubSeq(s, 1, n) \in Seq(S)
      /\ Len(SubSeq(s, 1, n)) = IF 1 <= n THEN n - 1 + 1 ELSE 0
      /\ \A i \in 1 .. n - 1 + 1 : SubSeq(s, 1, n)[i] = s[1 + i - 1]
  BY <1>2, SubSeqProperties
<1>4. \A j \in 1 .. n : j \in 1 .. n - 1 + 1 /\ 1 + j - 1 = j
  BY <1>2
<1>5. \A j \in 1 .. n : SubSeq(s, 1, n)[j] = s[j]
  BY <1>3, <1>4
<1>6. Len(SubSeq(s, 1, n)) = n
  BY <1>2, <1>3
<1> QED
  BY <1>3, <1>5, <1>6 DEF n

(* The same after the last element has taken another's place.              *)
LEMMA MovedAndShortened ==
  ASSUME dense \in Seq(Component), NEW i \in 1 .. Len(dense)
  PROVE  /\ WithLastMovedTo(i) \in Seq(Component)
         /\ Len(WithLastMovedTo(i)) = Len(dense) - 1
         /\ \A j \in 1 .. Len(dense) - 1 :
              WithLastMovedTo(i)[j] =
                IF j = i THEN dense[Len(dense)] ELSE dense[j]
<1> DEFINE d == [dense EXCEPT ![i] = dense[Len(dense)]]
<1>1. Len(dense) \in Nat /\ dense[Len(dense)] \in Component
  BY LenProperties, ElementOfSeq
<1>2. d \in Seq(Component) /\ Len(d) = Len(dense)
  BY <1>1, ExceptSeq
<1>3. d # <<>>
  BY <1>1, <1>2
<1>4. \A j \in 1 .. Len(dense) : d[j] = IF j = i THEN dense[Len(dense)] ELSE dense[j]
  BY <1>1, LenProperties
<1> HIDE DEF d
<1>5. WithLastMovedTo(i) = SubSeq(d, 1, Len(d) - 1)
  BY <1>2 DEF WithLastMovedTo, d
<1> QED
  BY <1>1, <1>2, <1>3, <1>4, <1>5, Shortened

LEMMA InitEstablishes == Init => IInv /\ Map!Init
  BY DEF Init, IInv, TypeOK, OneToOne, Map!Init, Contents

(* insert keeps the index one-to-one and adds the entry to the map.        *)
LEMMA InsertStep ==
  ASSUME IInv, NEW e \in EntityId, NEW c \in Component, Insert(e, c)
  PROVE  IInv' /\ Map!Insert(e, c)
<1> USE DEF IInv, TypeOK, OneToOne, Insert, hasComponent
<1>1. /\ dense' \in Seq(Component)
      /\ Len(dense') = Len(dense) + 1
      /\ \A i \in 1 .. Len(dense) : dense'[i] = dense[i]
      /\ dense'[Len(dense) + 1] = c
  BY AppendProperties
<1>2. Len(dense) \in Nat
  BY LenProperties
<1>3. DOMAIN sparse' = DOMAIN sparse \cup {e}
  OBVIOUS
<1>4. sparse'[e] = Len(dense) + 1 /\ \A x \in DOMAIN sparse : sparse'[x] = sparse[x]
  OBVIOUS
<1>5. TypeOK'
  BY <1>1, <1>2, <1>3, <1>4
<1>6. OneToOne'
  <2>1. \A x, y \in DOMAIN sparse' : sparse'[x] = sparse'[y] => x = y
    BY <1>2, <1>3, <1>4
  <2>2. ASSUME NEW i \in 1 .. Len(dense')
        PROVE  \E x \in DOMAIN sparse' : sparse'[x] = i
    <3>1. CASE i = Len(dense) + 1
      BY <1>3, <1>4, <3>1
    <3>2. CASE i \in 1 .. Len(dense)
      BY <1>3, <1>4, <3>2
    <3> QED BY <1>1, <1>2, <3>1, <3>2
  <2> QED BY <2>1, <2>2
<1>7. Map!Insert(e, c)
  BY <1>1, <1>2, <1>3, <1>4 DEF Map!Insert, Contents, get
<1> QED BY <1>5, <1>6, <1>7

(* remove keeps the index one-to-one and drops the entry from the map.     *)
LEMMA RemoveStep ==
  ASSUME IInv, NEW e \in EntityId, Remove(e)
  PROVE  IInv' /\ Map!Remove(e)
<1> USE DEF IInv, TypeOK, OneToOne, hasComponent
<1>1. /\ e \in DOMAIN sparse
      /\ sparse[e] \in 1 .. Len(dense)
      /\ Len(dense) \in Nat \ {0}
      /\ dense # <<>>
  BY LenProperties, EmptySeq DEF Remove
<1>2. CASE sparse[e] # Len(dense)
  <2>1. /\ dense' \in Seq(Component)
        /\ Len(dense') = Len(dense) - 1
        /\ \A j \in 1 .. Len(dense) - 1 :
             dense'[j] = IF j = sparse[e] THEN dense[Len(dense)] ELSE dense[j]
    BY <1>1, <1>2, MovedAndShortened DEF Remove
  <2>2. PICK moved \in DOMAIN sparse :
          sparse[moved] = Len(dense) /\ sparse' = Reindexed(e, moved)
    BY <1>2 DEF Remove
  <2>3. DOMAIN sparse' = DOMAIN sparse \ {e} /\ moved \in DOMAIN sparse'
    BY <1>2, <2>2 DEF Reindexed
  <2>4. \A x \in DOMAIN sparse' :
          sparse'[x] = IF x = moved THEN sparse[e] ELSE sparse[x]
    BY <2>2, <2>3 DEF Reindexed
  <2>5. \A x \in DOMAIN sparse' : x # moved => sparse[x] \in 1 .. Len(dense) - 1
    BY <1>1, <2>2, <2>3
  <2>6. TypeOK'
    BY <1>1, <1>2, <2>1, <2>2, <2>3, <2>4, <2>5 DEF Reindexed
  <2>7. OneToOne'
    <3>1. \A x, y \in DOMAIN sparse' : sparse'[x] = sparse'[y] => x = y
      BY <2>2, <2>3, <2>4, <1>1
    <3>2. ASSUME NEW i \in 1 .. Len(dense')
          PROVE  \E x \in DOMAIN sparse' : sparse'[x] = i
      <4>1. CASE i = sparse[e]
        BY <2>3, <2>4, <4>1
      <4>2. CASE i # sparse[e]
        <5>1. PICK x \in DOMAIN sparse : sparse[x] = i
          BY <1>1, <2>1
        <5>2. x # e /\ x # moved
          BY <1>1, <2>1, <2>2, <4>2, <5>1
        <5> QED BY <2>3, <2>4, <5>1, <5>2
      <4> QED BY <4>1, <4>2
    <3> QED BY <3>1, <3>2
  <2>8. Map!Remove(e)
    <3>1. \A x \in DOMAIN sparse' : dense'[sparse'[x]] = dense[sparse[x]]
      <4> TAKE x \in DOMAIN sparse'
      <4>1. CASE x = moved
        BY <1>1, <1>2, <2>1, <2>2, <2>4, <4>1
      <4>2. CASE x # moved
        BY <1>1, <2>1, <2>3, <2>4, <2>5, <4>2
      <4> QED BY <4>1, <4>2
    <3> QED BY <2>3, <3>1 DEF Map!Remove, Contents, get
  <2> QED BY <2>6, <2>7, <2>8
<1>3. CASE sparse[e] = Len(dense)
  <2>1. /\ dense' = SubSeq(dense, 1, Len(dense) - 1)
        /\ sparse' = [x \in DOMAIN sparse \ {e} |-> sparse[x]]
    BY <1>3 DEF Remove
  <2>2. /\ dense' \in Seq(Component)
        /\ Len(dense') = Len(dense) - 1
        /\ \A j \in 1 .. Len(dense) - 1 : dense'[j] = dense[j]
    BY <1>1, <2>1, Shortened
  <2>3. \A x \in DOMAIN sparse' : sparse[x] \in 1 .. Len(dense) - 1
    BY <1>1, <1>3, <2>1
  <2>4. TypeOK'
    BY <1>1, <2>1, <2>2, <2>3
  <2>5. OneToOne'
    <3>1. \A x, y \in DOMAIN sparse' : sparse'[x] = sparse'[y] => x = y
      BY <2>1
    <3>2. ASSUME NEW i \in 1 .. Len(dense')
          PROVE  \E x \in DOMAIN sparse' : sparse'[x] = i
      <4>1. PICK x \in DOMAIN sparse : sparse[x] = i
        BY <1>1, <2>2
      <4> QED BY <1>1, <1>3, <2>1, <2>2, <4>1
    <3> QED BY <3>1, <3>2
  <2>6. Map!Remove(e)
    BY <2>1, <2>2, <2>3 DEF Map!Remove, Contents, get
  <2> QED BY <2>4, <2>5, <2>6
<1> QED BY <1>2, <1>3

(* The index of a store stays one-to-one onto its vector.                  *)
THEOREM StoreInvariant == Spec => []IInv
<1>1. Init => IInv
  BY InitEstablishes
<1>2. IInv /\ [Next]_vars => IInv'
  <2>1. IInv /\ Next => IInv'
    BY InsertStep, RemoveStep DEF Next
  <2>2. IInv /\ UNCHANGED vars => IInv'
    BY DEF IInv, TypeOK, OneToOne, vars
  <2> QED BY <2>1, <2>2
<1> QED BY <1>1, <1>2, PTL DEF Spec

(* No entry of the index points past the vector.                           *)
THEOREM StoreTypeCorrect == Spec => []TypeOK
<1>1. IInv => TypeOK
  BY DEF IInv
<1> QED BY <1>1, StoreInvariant, PTL

(* No component is shared by two entities or left without an owner.        *)
THEOREM IndexIsOneToOne == Spec => []OneToOne
<1>1. IInv => OneToOne
  BY DEF IInv
<1> QED BY <1>1, StoreInvariant, PTL

(* A component store is a map from entities to components.                 *)
THEOREM StoreIsMap == Spec => ImplementsMap
<1>1. Init => Map!Init
  BY InitEstablishes
<1>2. IInv /\ [Next]_vars => [Map!Next]_Contents
  <2>1. IInv /\ Next => Map!Next
    BY InsertStep, RemoveStep DEF Next, Map!Next
  <2>2. UNCHANGED vars => UNCHANGED Contents
    BY DEF vars, Contents, get
  <2> QED BY <2>1, <2>2
<1> QED BY <1>1, <1>2, StoreInvariant, PTL DEF Spec, ImplementsMap, Map!Spec
====
