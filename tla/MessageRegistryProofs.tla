------------------------ MODULE MessageRegistryProofs ------------------------
(***************************************************************************)
(* For any programs, types, fields and hashes: whatever order the static   *)
(* members are initialized in, every type with an id of its own ends up    *)
(* with exactly its fields, and two programs that share it agree on them;  *)
(* a message of it arrives with all its values, and one of a type that the *)
(* reader does not have is refused.                                        *)
(***************************************************************************)
EXTENDS MessageRegistry, ByteEncodingProofs

(* A type's id is its hash once its first member is initialized.           *)
IdsInitialized ==
  \A p \in Program, t \in Type :
    progress[p][t] > 0 => MESSAGE_TYPE_ID[p][t] = TypeHash[t]

(* A creator is found only under the hash of its type.                     *)
CreatorsFit ==
  \A p \in Program, i \in Id :
    m_registry[p][i] # NoType => /\ m_registry[p][i] \in Declared[p]
                                 /\ TypeHash[m_registry[p][i]] = i

RInv == TypeOK /\ IdsInitialized /\ CreatorsFit /\ TypesAreWhole

LEMMA HashIsId == \A t \in Type : TypeHash[t] \in Id
  BY DEF Id

LEMMA InitRInv == Init => RInv
<1> SUFFICES ASSUME Init PROVE RInv
  OBVIOUS
<1> USE DEF Init
<1>1. TypeOK
  BY DEF TypeOK, Id
<1>2. IdsInitialized
  BY DEF IdsInitialized
<1>3. TypesAreWhole
  BY HashIsId, DeclaredAssumption, FieldsAssumption, NoTypeAssumption
     DEF TypesAreWhole, InOrder, FieldsDone, Registered, CreatorPlace
<1>4. CreatorsFit
  BY DEF CreatorsFit
<1> QED BY <1>1, <1>2, <1>3, <1>4 DEF RInv

(* Every step keeps the types: an id that is written under is one of Id.   *)
LEMMA TypeOKStep ==
  ASSUME RInv, [Next]_vars
  PROVE  TypeOK'
<1> USE HashIsId, FieldsAssumption, DeclaredAssumption DEF RInv, TypeOK
<1>1. CASE UNCHANGED vars
  BY <1>1 DEF vars
<1>2. ASSUME NEW p \in Program, NEW t \in Type, InitId(p, t) PROVE TypeOK'
  BY <1>2 DEF InitId, Initializes, IdPlace
<1>3. ASSUME NEW p \in Program, NEW t \in Type,
             NEW i \in 1 .. Len(Fields[t]), RegisterField(p, t, i)
      PROVE  TypeOK'
  <2>1. <<t, i>> \in Field /\ IdOf(p, t) \in Id
    BY DEF Field, IdOf
  <2> HIDE DEF Field, IdOf
  <2>2. /\ serializers' \in [Program -> [Id -> Seq(Field)]]
        /\ deserializers' \in [Program -> [Id -> Seq(Field)]]
    BY <1>3, <2>1 DEF RegisterField
  <2>3. progress' \in [Program -> [Type -> Nat]]
    BY <1>3 DEF RegisterField, Initializes, FieldPlace
  <2> QED BY <1>3, <2>2, <2>3 DEF RegisterField
<1>4. ASSUME NEW p \in Program, NEW t \in Type, RegisterMessage(p, t)
      PROVE  TypeOK'
  <2>1. progress' \in [Program -> [Type -> Nat]]
    BY <1>4 DEF RegisterMessage, Initializes, CreatorPlace
  <2>2. m_registry' \in [Program -> [Id -> Type \cup {NoType}]]
    BY <1>4 DEF RegisterMessage, IdOf
  <2> QED BY <1>4, <2>1, <2>2 DEF RegisterMessage
<1> QED BY <1>1, <1>2, <1>3, <1>4 DEF Next

LEMMA IdsStep ==
  ASSUME RInv, [Next]_vars
  PROVE  IdsInitialized'
<1> USE HashIsId, FieldsAssumption DEF RInv, TypeOK, IdsInitialized
<1>1. CASE UNCHANGED vars
  BY <1>1 DEF vars
<1>2. ASSUME NEW p \in Program, NEW t \in Type, InitId(p, t)
      PROVE  IdsInitialized'
  BY <1>2 DEF InitId, Initializes, IdPlace
<1>3. ASSUME NEW p \in Program, NEW t \in Type,
             NEW i \in 1 .. Len(Fields[t]), RegisterField(p, t, i)
      PROVE  IdsInitialized'
  BY <1>3 DEF RegisterField, Initializes, FieldPlace
<1>4. ASSUME NEW p \in Program, NEW t \in Type, RegisterMessage(p, t)
      PROVE  IdsInitialized'
  BY <1>4 DEF RegisterMessage, Initializes, CreatorPlace
<1> QED BY <1>1, <1>2, <1>3, <1>4 DEF Next

LEMMA CreatorsStep ==
  ASSUME RInv, [Next]_vars
  PROVE  CreatorsFit'
<1> USE HashIsId, DeclaredAssumption DEF RInv, TypeOK, CreatorsFit
<1>1. CASE UNCHANGED vars
  BY <1>1 DEF vars
<1>2. ASSUME NEW p \in Program, NEW t \in Type, InitId(p, t)
      PROVE  CreatorsFit'
  BY <1>2 DEF InitId
<1>3. ASSUME NEW p \in Program, NEW t \in Type,
             NEW i \in 1 .. Len(Fields[t]), RegisterField(p, t, i)
      PROVE  CreatorsFit'
  BY <1>3 DEF RegisterField
<1>4. ASSUME NEW p \in Program, NEW t \in Type, RegisterMessage(p, t)
      PROVE  CreatorsFit'
  <2>1. t \in Declared[p] /\ progress[p][t] > 0
    BY <1>4, FieldsAssumption DEF RegisterMessage, Initializes, CreatorPlace
  <2>2. IdOf(p, t) = TypeHash[t]
    BY <2>1 DEF IdsInitialized, IdOf
  <2>3. m_registry' = [m_registry EXCEPT ![p][TypeHash[t]] = t]
    BY <1>4, <2>2 DEF RegisterMessage
  <2> QED BY <2>1, <2>3
<1> QED BY <1>1, <1>2, <1>3, <1>4 DEF Next

(* TypesAreWhole, for one type of one program.                             *)
Whole(p, t) ==
  HasOwnId(p, t) =>
    /\ InOrder(serializers[p][TypeHash[t]], t, FieldsDone(p, t))
    /\ InOrder(deserializers[p][TypeHash[t]], t, FieldsDone(p, t))
    /\ Registered(p, t) <=> m_registry[p][TypeHash[t]] = t

(* The step of one type leaves every other type with an id of its own as   *)
(* it was: it writes under an id that is not theirs.                       *)
LEMMA OthersUntouched ==
  ASSUME NEW p \in Program, NEW t \in Declared[p], HasOwnId(p, t),
         NEW q \in Program, NEW u \in Type, <<q, u>> # <<p, t>>,
         RInv, \/ InitId(q, u)
               \/ \E i \in 1 .. Len(Fields[u]) : RegisterField(q, u, i)
               \/ RegisterMessage(q, u)
  PROVE  /\ serializers'[p][TypeHash[t]] = serializers[p][TypeHash[t]]
         /\ deserializers'[p][TypeHash[t]] = deserializers[p][TypeHash[t]]
         /\ m_registry'[p][TypeHash[t]] = m_registry[p][TypeHash[t]]
         /\ progress'[p][t] = progress[p][t]
<1> USE HashIsId, FieldsAssumption, DeclaredAssumption DEF RInv, TypeOK
<1>1. t \in Type
  OBVIOUS
<1>2. CASE InitId(q, u)
  BY <1>1, <1>2 DEF InitId, Initializes, IdPlace
<1>3. ASSUME progress[q][u] > 0, u \in Declared[q]
      PROVE  q # p \/ IdOf(q, u) # TypeHash[t]
  BY <1>3 DEF IdsInitialized, HasOwnId, IdOf
<1>4. ASSUME NEW i \in 1 .. Len(Fields[u]), RegisterField(q, u, i)
      PROVE  /\ serializers'[p][TypeHash[t]] = serializers[p][TypeHash[t]]
             /\ deserializers'[p][TypeHash[t]] = deserializers[p][TypeHash[t]]
             /\ m_registry'[p][TypeHash[t]] = m_registry[p][TypeHash[t]]
             /\ progress'[p][t] = progress[p][t]
  <2>1. q # p \/ IdOf(q, u) # TypeHash[t]
    BY <1>3, <1>4 DEF RegisterField, Initializes, FieldPlace
  <2> QED BY <1>1, <1>4, <2>1 DEF RegisterField, Initializes, FieldPlace
<1>5. CASE RegisterMessage(q, u)
  <2>1. progress[q][u] > 0
    BY <1>5 DEF RegisterMessage, Initializes, CreatorPlace
  <2>2. q # p \/ IdOf(q, u) # TypeHash[t]
    BY <1>3, <1>5, <2>1 DEF RegisterMessage, Initializes
  <2> QED BY <1>1, <1>5, <2>2 DEF RegisterMessage, Initializes, CreatorPlace
<1> QED BY <1>2, <1>4, <1>5

(* A sequence in order stays so when the next field is appended.           *)
LEMMA NextInOrder ==
  ASSUME NEW s \in Seq(Field), NEW t \in Type, NEW n \in Nat,
         InOrder(s, t, n)
  PROVE  InOrder(Append(s, <<t, n + 1>>), t, n + 1)
<1> <<t, n + 1>> \in Field
  BY DEF Field
<1> HIDE DEF Field
<1>1. Len(Append(s, <<t, n + 1>>)) = n + 1
  BY DEF InOrder
<1>2. \A i \in 1 .. n : Append(s, <<t, n + 1>>)[i] = s[i]
  BY DEF InOrder
<1>3. Append(s, <<t, n + 1>>)[n + 1] = <<t, n + 1>>
  BY DEF InOrder
<1> QED BY <1>1, <1>2, <1>3 DEF InOrder

(* A step of the type's own initialization.                                *)
LEMMA OwnStep ==
  ASSUME NEW p \in Program, NEW t \in Declared[p], HasOwnId(p, t), RInv,
         \/ InitId(p, t)
         \/ \E i \in 1 .. Len(Fields[t]) : RegisterField(p, t, i)
         \/ RegisterMessage(p, t)
  PROVE  Whole(p, t)'
<1> USE HashIsId, FieldsAssumption, DeclaredAssumption, NoTypeAssumption
    DEF RInv, TypeOK
<1>1. /\ t \in Type
      /\ Len(Fields[t]) \in Nat
      /\ progress[p][t] \in Nat
      /\ TypeHash[t] \in Id
  OBVIOUS
<1>2. /\ InOrder(serializers[p][TypeHash[t]], t, FieldsDone(p, t))
      /\ InOrder(deserializers[p][TypeHash[t]], t, FieldsDone(p, t))
      /\ Registered(p, t) <=> m_registry[p][TypeHash[t]] = t
  BY DEF TypesAreWhole
<1>3. progress[p][t] > 0 => IdOf(p, t) = TypeHash[t]
  BY <1>1 DEF IdsInitialized, IdOf
<1>4. CASE InitId(p, t)
  <2>1. /\ progress[p][t] = 0 /\ progress'[p][t] = 1
        /\ UNCHANGED <<serializers, deserializers, m_registry>>
    BY <1>1, <1>4 DEF InitId, Initializes, IdPlace
  <2>2. /\ FieldsDone(p, t) = 0 /\ FieldsDone(p, t)' = 0
        /\ ~Registered(p, t) /\ ~Registered(p, t)'
    BY <1>1, <2>1 DEF FieldsDone, Registered, CreatorPlace
  <2> QED BY <1>2, <2>1, <2>2 DEF Whole, InOrder
<1>5. ASSUME NEW i \in 1 .. Len(Fields[t]), RegisterField(p, t, i)
      PROVE  Whole(p, t)'
  <2>1. /\ progress[p][t] = i /\ progress'[p][t] = i + 1
        /\ UNCHANGED m_registry
    BY <1>1, <1>5 DEF RegisterField, Initializes, FieldPlace
  <2>2. /\ FieldsDone(p, t) = i - 1 /\ FieldsDone(p, t)' = i
        /\ ~Registered(p, t) /\ ~Registered(p, t)'
    BY <1>1, <2>1 DEF FieldsDone, Registered, CreatorPlace
  <2>3. IdOf(p, t) = TypeHash[t]
    BY <1>1, <1>3, <2>1
  <2>4. /\ serializers'[p][TypeHash[t]] =
             Append(serializers[p][TypeHash[t]], <<t, i>>)
        /\ deserializers'[p][TypeHash[t]] =
             Append(deserializers[p][TypeHash[t]], <<t, i>>)
    BY <1>1, <1>5, <2>3 DEF RegisterField
  <2>5. i - 1 \in Nat /\ i - 1 + 1 = i
    BY <1>1
  <2>6. /\ serializers[p][TypeHash[t]] \in Seq(Field)
        /\ deserializers[p][TypeHash[t]] \in Seq(Field)
    BY <1>1
  <2>7. /\ InOrder(serializers'[p][TypeHash[t]], t, i)
        /\ InOrder(deserializers'[p][TypeHash[t]], t, i)
    <3>1. \A s \in Seq(Field) : InOrder(s, t, i - 1) =>
                                   InOrder(Append(s, <<t, i>>), t, i)
      BY <1>1, <2>5, NextInOrder
    <3> QED BY <1>2, <2>2, <2>4, <2>6, <3>1
  <2> QED BY <1>2, <2>1, <2>2, <2>7 DEF Whole, InOrder
<1>6. CASE RegisterMessage(p, t)
  <2>1. /\ progress[p][t] = Len(Fields[t]) + 1
        /\ progress'[p][t] = Len(Fields[t]) + 2
        /\ UNCHANGED <<serializers, deserializers>>
    BY <1>1, <1>6 DEF RegisterMessage, Initializes, CreatorPlace
  <2>2. /\ FieldsDone(p, t) = Len(Fields[t])
        /\ FieldsDone(p, t)' = Len(Fields[t])
        /\ Registered(p, t)'
    BY <1>1, <2>1 DEF FieldsDone, Registered, CreatorPlace
  <2>3. IdOf(p, t) = TypeHash[t]
    BY <1>1, <1>3, <2>1
  <2>4. m_registry'[p][TypeHash[t]] = t
    BY <1>1, <1>6, <2>3 DEF RegisterMessage
  <2> QED BY <1>2, <2>1, <2>2, <2>4 DEF Whole, InOrder
<1> QED BY <1>4, <1>5, <1>6

LEMMA WholeStep ==
  ASSUME RInv, [Next]_vars
  PROVE  TypesAreWhole'
<1>1. CASE UNCHANGED vars
  BY <1>1 DEF RInv, TypesAreWhole, InOrder, FieldsDone, Registered, vars
<1>2. ASSUME NEW q \in Program, NEW u \in Type,
             \/ InitId(q, u)
             \/ \E i \in 1 .. Len(Fields[u]) : RegisterField(q, u, i)
             \/ RegisterMessage(q, u)
      PROVE  TypesAreWhole'
  <2> SUFFICES ASSUME NEW p \in Program, NEW t \in Declared[p], HasOwnId(p, t)
               PROVE  Whole(p, t)'
    BY DEF TypesAreWhole, Whole, HasOwnId
  <2>1. CASE <<q, u>> = <<p, t>>
    BY <1>2, <2>1, OwnStep
  <2>2. CASE <<q, u>> # <<p, t>>
    <3>1. /\ serializers'[p][TypeHash[t]] = serializers[p][TypeHash[t]]
          /\ deserializers'[p][TypeHash[t]] = deserializers[p][TypeHash[t]]
          /\ m_registry'[p][TypeHash[t]] = m_registry[p][TypeHash[t]]
          /\ progress'[p][t] = progress[p][t]
      BY <1>2, <2>2, OthersUntouched
    <3>2. Whole(p, t)
      BY DEF RInv, TypesAreWhole, Whole
    <3> QED BY <3>1, <3>2
           DEF Whole, InOrder, FieldsDone, Registered
  <2> QED BY <2>1, <2>2
<1> QED BY <1>1, <1>2 DEF Next

(* RInv is an invariant: ids, registries and types in step.                *)
THEOREM RegistryInvariant == Spec => []RInv
<1>1. Init => RInv
  BY InitRInv
<1>2. RInv /\ [Next]_vars => RInv'
  BY TypeOKStep, IdsStep, CreatorsStep, WholeStep DEF RInv
<1> QED BY <1>1, <1>2, PTL DEF Spec

(* The registries hold nothing but fields and types that were declared.    *)
THEOREM RegistryTypeCorrect == Spec => []TypeOK
<1>1. RInv => TypeOK
  BY DEF RInv
<1> QED BY <1>1, RegistryInvariant, PTL

(* A type with an id of its own has exactly its own fields there, in their *)
(* order, whatever else the program registers and when.                    *)
THEOREM TypesStayWhole == Spec => []TypesAreWhole
<1>1. RInv => TypesAreWhole
  BY DEF RInv
<1> QED BY <1>1, RegistryInvariant, PTL

(* What one program writes for a type is, field by field, what the other   *)
(* reads: the two need not initialize, or even declare, the same types.    *)
LayoutsAgree ==
  \A p, q \in Program : Connected(p, q) =>
    \A t \in Declared[p] \cap Declared[q] :
      HasOwnId(p, t) /\ HasOwnId(q, t) =>
        serializers[p][TypeHash[t]] = deserializers[q][TypeHash[t]]

(* Two programs agree on every type they share under an id of its own.     *)
THEOREM ProgramsAgree == Spec => []LayoutsAgree
<1>1. RInv => LayoutsAgree
  <2> SUFFICES ASSUME RInv, NEW p \in Program, NEW q \in Program,
                      Connected(p, q), NEW t \in Declared[p] \cap Declared[q],
                      HasOwnId(p, t), HasOwnId(q, t)
               PROVE  serializers[p][TypeHash[t]] = deserializers[q][TypeHash[t]]
    BY DEF LayoutsAgree
  <2> DEFINE s == serializers[p][TypeHash[t]]
             d == deserializers[q][TypeHash[t]]
             n == Len(Fields[t])
  <2>1. s \in Seq(Field) /\ d \in Seq(Field) /\ t \in Type /\ n \in Nat
    <3>1. t \in Type
      BY DeclaredAssumption
    <3>2. TypeHash[t] \in Id
      BY <3>1, HashIsId
    <3>3. s \in Seq(Field) /\ d \in Seq(Field)
      BY <3>2 DEF RInv, TypeOK
    <3>4. n \in Nat
      BY <3>1, FieldsAssumption
    <3> QED BY <3>1, <3>3, <3>4
  <2>2. FieldsDone(p, t) = n /\ FieldsDone(q, t) = n
    <3>1. Registered(p, t) /\ Registered(q, t)
      BY DEF Connected, InMain
    <3>2. progress[p][t] = n + 2 /\ progress[q][t] = n + 2
      BY <2>1, <3>1 DEF Registered, CreatorPlace
    <3>3. progress[p][t] # 0 /\ progress[q][t] # 0
      BY <2>1, <3>2
    <3> QED BY <3>1, <3>3 DEF FieldsDone
  <2>3. InOrder(s, t, n) /\ InOrder(d, t, n)
    BY <2>2 DEF RInv, TypesAreWhole
  <2> HIDE DEF s, d, n
  <2>4. Len(s) = Len(d) /\ \A i \in 1 .. Len(s) : s[i] = d[i]
    BY <2>3 DEF InOrder
  <2>5. s = d
    BY <2>1, <2>4, SeqEqual
  <2> QED BY <2>5 DEF s, d
<1> QED BY <1>1, RegistryInvariant, PTL

-----------------------------------------------------------------------------
(* Payloads.  The bytes of a message's fields, one after the other.        *)
Parts(m) == [k \in 1 .. Len(Fields[m.type]) |->
               FieldBytes(Fields[m.type][k], m.values[k])]

LEMMA OwnMessageType ==
  ASSUME NEW p \in Program, NEW m \in OwnMessages(p)
  PROVE  /\ m.type \in Declared[p] /\ m.type \in Type /\ HasOwnId(p, m.type)
         /\ Len(Fields[m.type]) \in Nat
         /\ m.values \in [1 .. Len(Fields[m.type]) -> Word \cup String]
         /\ \A k \in 1 .. Len(Fields[m.type]) :
              m.values[k] \in ValuesOf(Fields[m.type][k])
<1>1. PICK t \in Declared[p] : HasOwnId(p, t) /\ m \in Messages(t)
  BY DEF OwnMessages
<1>2. m.type = t
  BY <1>1 DEF Messages
<1>3. t \in Type
  BY DeclaredAssumption
<1>4. Len(Fields[t]) \in Nat
  BY <1>3, FieldsAssumption
<1>5. /\ m.values \in [1 .. Len(Fields[t]) -> Word \cup String]
      /\ \A k \in 1 .. Len(Fields[t]) : m.values[k] \in ValuesOf(Fields[t][k])
  BY <1>1 DEF Messages
<1> QED BY <1>1, <1>2, <1>3, <1>4, <1>5

(* What the bytes of a field are.                                          *)
LEMMA FieldBytesType ==
  ASSUME NEW kind, NEW v \in ValuesOf(kind)
  PROVE  /\ v \in Seq(Byte) /\ Len(v) \in Nat
         /\ FieldBytes(kind, v) \in Seq(Byte)
         /\ kind = "string" => /\ FitsUint32(Len(v))
                               /\ Uint32(Len(v)) \in Seq(Byte)
                               /\ Len(Uint32(Len(v))) = WordSize
                               /\ FieldBytes(kind, v) = Uint32(Len(v)) \o v
         /\ kind # "string" => Len(v) = WordSize /\ FieldBytes(kind, v) = v
         /\ FieldBytes(kind, v) # <<>>
<1>1. CASE kind = "string"
  <2> DEFINE u == Uint32(Len(v))
  <2>1. v \in Seq(Byte) /\ FitsUint32(Len(v)) /\ Len(v) \in Nat
    BY <1>1, StringAssumption, LenProperties DEF ValuesOf
  <2>2. u \in Seq(Byte) /\ Len(u) = 4
    BY <2>1, Uint32Bytes
  <2>3. FieldBytes(kind, v) = u \o v
    BY <1>1 DEF FieldBytes
  <2> HIDE DEF u
  <2>4. u \o v \in Seq(Byte) /\ Len(u \o v) = 4 + Len(v)
    BY <2>1, <2>2, BytesConcat
  <2>5. u \o v # <<>>
    BY <2>1, <2>4, EmptySeq
  <2> QED BY <1>1, <2>1, <2>2, <2>3, <2>4, <2>5 DEF u, WordSize
<1>2. CASE kind # "string"
  <2>1. v \in Seq(Byte) /\ Len(v) = 4 /\ FieldBytes(kind, v) = v
    BY <1>2, WordAssumption DEF ValuesOf, FieldBytes
  <2>2. v # <<>>
    BY <2>1, EmptySeq
  <2> QED BY <1>2, <2>1, <2>2 DEF WordSize
<1> QED BY <1>1, <1>2

LEMMA PartsType ==
  ASSUME NEW p \in Program, NEW m \in OwnMessages(p)
  PROVE  /\ Parts(m) \in Seq(Seq(Byte)) /\ Len(Parts(m)) = Len(Fields[m.type])
         /\ \A k \in 1 .. Len(Parts(m)) : Parts(m)[k] \in Seq(Byte) \ {<<>>}
<1>1. \A k \in 1 .. Len(Fields[m.type]) :
        FieldBytes(Fields[m.type][k], m.values[k]) \in Seq(Byte) \ {<<>>}
  BY OwnMessageType, FieldBytesType
<1> HIDE DEF Byte
<1>2. Parts(m) \in Seq(Seq(Byte)) /\ Len(Parts(m)) = Len(Fields[m.type])
  BY <1>1, OwnMessageType, IsASeq DEF Parts
<1> QED BY <1>1, <1>2 DEF Parts

(* Once main runs, a type with an id of its own has that id, its creator   *)
(* and its fields.                                                         *)
LEMMA InMainWhole ==
  ASSUME RInv, NEW p \in Program, InMain(p), NEW t \in Declared[p], HasOwnId(p, t)
  PROVE  /\ MESSAGE_TYPE_ID[p][t] = TypeHash[t] /\ TypeHash[t] \in Id
         /\ InOrder(serializers[p][TypeHash[t]], t, Len(Fields[t]))
         /\ InOrder(deserializers[p][TypeHash[t]], t, Len(Fields[t]))
         /\ deserializers[p][TypeHash[t]] \in Seq(Field)
         /\ m_registry[p][TypeHash[t]] = t
<1>1. t \in Type /\ Len(Fields[t]) \in Nat
  BY DeclaredAssumption, FieldsAssumption
<1>2. Registered(p, t) /\ progress[p][t] = Len(Fields[t]) + 2
  BY <1>1 DEF InMain, Registered, CreatorPlace
<1>3. FieldsDone(p, t) = Len(Fields[t]) /\ progress[p][t] > 0
  BY <1>1, <1>2 DEF FieldsDone
<1>4. /\ InOrder(serializers[p][TypeHash[t]], t, FieldsDone(p, t))
      /\ InOrder(deserializers[p][TypeHash[t]], t, FieldsDone(p, t))
      /\ Registered(p, t) <=> m_registry[p][TypeHash[t]] = t
  BY DEF RInv, TypesAreWhole
<1>5. MESSAGE_TYPE_ID[p][t] = TypeHash[t] /\ TypeHash[t] \in Id
  BY <1>1, <1>3, HashIsId DEF RInv, IdsInitialized
<1>6. deserializers[p][TypeHash[t]] \in Seq(Field)
  BY <1>5 DEF RInv, TypeOK
<1> QED BY <1>2, <1>3, <1>4, <1>5, <1>6

LEMMA PayloadIs ==
  ASSUME RInv, NEW p \in Program, InMain(p), NEW m \in OwnMessages(p)
  PROVE  Serialize(p, m) = Uint32(TypeHash[m.type]) \o FlattenSeq(Parts(m))
<1> DEFINE t == m.type  s == serializers[p][TypeHash[t]]
           parts == [k \in 1 .. Len(s) |-> FieldBytes(Fields[s[k][1]][s[k][2]],
                                                      m.values[s[k][2]])]
<1>1. t \in Declared[p] /\ HasOwnId(p, t) /\ Len(Fields[t]) \in Nat
  BY OwnMessageType
<1>2. MESSAGE_TYPE_ID[p][t] = TypeHash[t] /\ InOrder(s, t, Len(Fields[t]))
  BY <1>1, InMainWhole
<1>3. Serialize(p, m) = Uint32(TypeHash[t]) \o FlattenSeq(parts)
  BY <1>2, Zenon DEF Serialize
<1>4. Len(s) = Len(Fields[t]) /\ \A k \in 1 .. Len(s) : s[k] = <<t, k>>
  BY <1>2 DEF InOrder
<1>5. parts = Parts(m)
  <2>1. \A k \in 1 .. Len(s) : s[k][1] = t /\ s[k][2] = k
    BY <1>4
  <2> HIDE DEF s
  <2> QED BY <1>4, <2>1 DEF Parts
<1> QED BY <1>3, <1>5

LEMMA PayloadId ==
  ASSUME NEW p \in Program, NEW m \in OwnMessages(p)
  PROVE  LET payload == Uint32(TypeHash[m.type]) \o FlattenSeq(Parts(m))
         IN  /\ payload \in Seq(Byte)
             /\ Len(payload) \in Nat /\ Len(payload) >= WordSize
             /\ AsUint32(payload) = TypeHash[m.type]
<1> DEFINE h == TypeHash[m.type]  f == FlattenSeq(Parts(m))
<1>1. FitsUint32(h) /\ h \in Nat
  BY OwnMessageType, HashAssumption
<1>2. f \in Seq(Byte)
  BY PartsType, FlattenType
<1>3. Uint32(h) \in Seq(Byte) /\ Len(Uint32(h)) = 4
  BY <1>1, Uint32Bytes
<1> HIDE DEF h, f
<1>4. AsUint32(Uint32(h) \o f) = h
  BY <1>1, <1>2, Uint32RoundTrip
<1>5. /\ Uint32(h) \o f \in Seq(Byte)
      /\ Len(Uint32(h) \o f) = 4 + Len(f) /\ Len(f) \in Nat
  BY <1>2, <1>3, BytesConcat
<1> QED BY <1>4, <1>5 DEF h, f, WordSize

(* A message of a type the other program does not have never reaches a     *)
(* reader of another type: the id it starts with finds no creator.         *)
THEOREM UnknownTypesAreThrown == Spec => []UnknownTypesThrow
<1>1. RInv => UnknownTypesThrow
  <2> SUFFICES ASSUME RInv, NEW p \in Program, NEW q \in Program,
                      Connected(p, q), NEW m \in OwnMessages(p),
                      \A t \in Declared[q] : TypeHash[t] # TypeHash[m.type]
               PROVE  Throws(q, Serialize(p, m))
    BY DEF UnknownTypesThrow
  <2> DEFINE payload == Serialize(p, m)
  <2>1. AsUint32(payload) = TypeHash[m.type]
    BY PayloadIs, PayloadId DEF Connected
  <2>2. CreatorOf(q, TypeHash[m.type]) = NoType
    BY DEF CreatorOf, RInv, CreatorsFit
  <2> QED BY <2>1, <2>2 DEF Throws
<1> QED BY <1>1, RegistryInvariant, PTL
-----------------------------------------------------------------------------
(* Reading.  createFromBytes folds over the fields; the fold unfolds, field *)
(* by field.                                                               *)
NothingRead ==
  [values |-> <<>>, offset |-> FieldsStart, starts |-> <<>>, inRange |-> TRUE]

ReadNext(payload, fields, k, read) ==
  ReadField(payload, Fields[fields[k][1]][fields[k][2]], read)

Folds(payload, fields, f, places) ==
  f = [s \in SUBSET places |->
         IF s = {} THEN NothingRead
         ELSE ReadNext(payload, fields, Max(s), f[s \ {Max(s)}])]

LEMMA LastPlace ==
  ASSUME NEW n \in Nat, NEW s, s \subseteq 1 .. n + 1, n + 1 \in s
  PROVE  Max(s) = n + 1
<1>1. \A y \in s : n + 1 >= y
  OBVIOUS
<1>2. \A x \in s : (\A y \in s : x >= y) => x = n + 1
  BY <1>1
<1> QED BY <1>1, <1>2 DEF Max

LEMMA FoldsExists ==
  ASSUME NEW payload, NEW fields, NEW n \in Nat
  PROVE  \E f : Folds(payload, fields, f, 1 .. n)
<1> DEFINE T == {k \in Nat : \E f : Folds(payload, fields, f, 1 .. k)}
<1>1. 0 \in T
  <2> DEFINE g == [s \in SUBSET (1 .. 0) |-> NothingRead]
  <2>1. \A s \in SUBSET (1 .. 0) : s = {}
    OBVIOUS
  <2>2. g = [s \in SUBSET (1 .. 0) |->
               IF s = {} THEN NothingRead
               ELSE ReadNext(payload, fields, Max(s), g[s \ {Max(s)}])]
    BY <2>1
  <2> HIDE DEF g
  <2> QED BY <2>2 DEF Folds
<1>2. ASSUME NEW k \in Nat, k \in T PROVE k + 1 \in T
  <2>1. PICK f : Folds(payload, fields, f, 1 .. k)
    BY <1>2
  <2> DEFINE j == k + 1
             Read(h, s) == IF s = {} THEN NothingRead
                           ELSE ReadNext(payload, fields, Max(s), h[s \ {Max(s)}])
             g == [s \in SUBSET (1 .. j) |->
                     IF j \in s THEN ReadNext(payload, fields, j, f[s \ {j}])
                     ELSE f[s]]
  <2>2. \A s \in SUBSET (1 .. k) : f[s] = Read(f, s)
    BY <2>1, Zenon DEF Folds
  <2>3. ASSUME NEW s \in SUBSET (1 .. j) PROVE g[s] = Read(g, s)
    <3>1. CASE j \in s
      <4>1. Max(s) = j /\ s # {}
        BY <3>1, LastPlace
      <4>2. s \ {j} \in SUBSET (1 .. j) /\ j \notin s \ {j}
        OBVIOUS
      <4>3. g[s \ {j}] = f[s \ {j}]
        BY <4>2
      <4> QED BY <3>1, <4>1, <4>3
    <3>2. CASE j \notin s
      <4> DEFINE r == s \ {Max(s)}
      <4>1. s \in SUBSET (1 .. k)
        BY <3>2
      <4>2. r \in SUBSET (1 .. j) /\ j \notin r
        BY <3>2
      <4>3. g[s] = f[s] /\ g[r] = f[r]
        BY <3>2, <4>2
      <4>4. f[s] = Read(f, s)
        BY <2>2, <4>1
      <4> QED BY <4>3, <4>4
    <3> QED BY <3>1, <3>2
  <2>4. g = [s \in SUBSET (1 .. j) |-> g[s]]
    OBVIOUS
  <2> HIDE DEF g
  <2>5. g = [s \in SUBSET (1 .. j) |-> Read(g, s)]
    BY <2>3, <2>4
  <2>6. Folds(payload, fields, g, 1 .. j)
    BY <2>5 DEF Folds
  <2> QED BY <2>6
<1> HIDE DEF T
<1>3. n \in T
  BY <1>1, <1>2, NumberInduction
<1> QED BY <1>3 DEF T

(* What has been read after each field.                                    *)
Reads(payload, fields, read, n) ==
  /\ read[0] = NothingRead
  /\ \A k \in 1 .. n : read[k] = ReadNext(payload, fields, k, read[k - 1])

LEMMA CreateReads ==
  ASSUME NEW p, NEW t, NEW payload, NEW fields, NEW n \in Nat,
         fields = deserializers[p][MESSAGE_TYPE_ID[p][t]], DOMAIN fields = 1 .. n
  PROVE  \E read : /\ Reads(payload, fields, read, n)
                   /\ CreateFromBytes(p, t, payload) = read[n]
<1> DEFINE f == CHOOSE g : Folds(payload, fields, g, DOMAIN fields)
<1>1. Folds(payload, fields, f, 1 .. n)
  BY FoldsExists, Zenon
<1>2. CreateFromBytes(p, t, payload) = f[1 .. n]
  BY Zenon DEF CreateFromBytes, FoldLeft, MapThenFoldSet, Folds, ReadNext,
               NothingRead
<1> HIDE DEF f
<1> DEFINE read == [k \in 0 .. n |-> f[1 .. k]]
<1>3. read[0] = NothingRead
  <2>1. 1 .. 0 = {} /\ {} \in SUBSET (1 .. n)
    OBVIOUS
  <2>2. f[{}] = NothingRead
    BY <1>1, <2>1, Zenon DEF Folds
  <2> QED BY <2>1, <2>2
<1>4. ASSUME NEW k \in 1 .. n
      PROVE  read[k] = ReadNext(payload, fields, k, read[k - 1])
  <2> DEFINE s == 1 .. k
  <2>1. s \in SUBSET (1 .. n) /\ s # {}
    <3>1. k \in s /\ \A i \in s : i \in 1 .. n
      OBVIOUS
    <3> HIDE DEF s
    <3> QED BY <3>1
  <2>2. Max(s) = k
    <3>1. k - 1 \in Nat /\ s \subseteq 1 .. (k - 1) + 1 /\ (k - 1) + 1 \in s
      OBVIOUS
    <3>2. Max(s) = (k - 1) + 1
      BY <3>1, LastPlace
    <3> QED BY <3>2
  <2>3. s \ {k} = 1 .. k - 1
    OBVIOUS
  <2>4. f[s] = ReadNext(payload, fields, Max(s), f[s \ {Max(s)}])
    <3> HIDE DEF s
    <3> QED BY <1>1, <2>1, Zenon DEF Folds
  <2>5. f[s] = ReadNext(payload, fields, k, f[1 .. k - 1])
    BY <2>2, <2>3, <2>4, Zenon
  <2>6. read[k] = f[s] /\ read[k - 1] = f[1 .. k - 1]
    OBVIOUS
  <2> QED BY <2>5, <2>6, Zenon
<1>5. read[n] = f[1 .. n]
  OBVIOUS
<1> HIDE DEF read
<1> QED BY <1>2, <1>3, <1>4, <1>5, Zenon DEF Reads

(* The bytes x lie in the payload between pre and post.                    *)
Holds(payload, pre, x, post) == payload = (pre \o x) \o post

(* The bytes that lie in a payload at an offset are read there.            *)
LEMMA BytesAt ==
  ASSUME NEW pre \in Seq(Byte), NEW x \in Seq(Byte), NEW post \in Seq(Byte),
         NEW payload, Holds(payload, pre, x, post)
  PROVE  Bytes(payload, Len(pre), Len(x)) = x
<1> DEFINE px == pre \o x
<1>1. px \in Seq(Byte) /\ Len(px) = Len(pre) + Len(x)
      /\ Len(pre) \in Nat /\ Len(x) \in Nat /\ Len(post) \in Nat
  BY BytesConcat
<1>2. Joins(px, pre, x)
  BY <1>1, JoinsIsConcat
<1> HIDE DEF px
<1>3. payload = px \o post /\ Len(payload) = Len(px) + Len(post)
  <2>1. payload = px \o post
    BY Zenon DEF Holds, px
  <2> QED BY <1>1, <2>1, BytesConcat
<1>4. ASSUME NEW i \in 1 .. Len(x) PROVE payload[Len(pre) + i] = x[i]
  <2>1. Len(pre) + i \in 1 .. Len(px)
    BY <1>1
  <2>2. payload[Len(pre) + i] = px[Len(pre) + i]
    <3>1. (px \o post)[Len(pre) + i] = px[Len(pre) + i]
      BY <1>1, <2>1, ConcatFirst
    <3> QED BY <1>3, <3>1, Zenon
  <2>3. px[Len(pre) + i] = x[i]
    BY <1>2 DEF Joins
  <2> QED BY <2>2, <2>3
<1>5. Bytes(payload, Len(pre), Len(x)) = [i \in 1 .. Len(x) |-> x[i]]
  <2>1. \A i \in 1 .. Len(x) : Len(pre) + i <= Len(payload)
    BY <1>1, <1>3
  <2> QED BY <1>4, <2>1 DEF Bytes
<1>6. x = [i \in 1 .. Len(x) |-> x[i]]
  OBVIOUS
<1> QED BY <1>5, <1>6, Zenon

(* A field with the value v is read, up to an offset with post behind it:  *)
(* no byte on the way lies outside the payload, and the value is found at  *)
(* a subscript of the payload, or just past the end if it is an empty      *)
(* string with nothing behind it.                                          *)
ReadsValue(read, next, v, end, post, payload) ==
  /\ next.values = Append(read.values, v)
  /\ next.offset = end
  /\ read.inRange => next.inRange
  /\ \E start \in Nat :
       /\ next.starts = Append(read.starts, start)
       /\ \/ start < Len(payload)
          \/ start = Len(payload) /\ v = <<>> /\ post = <<>>

(* A field is read as it was written.                                      *)
LEMMA FieldIsRead ==
  ASSUME NEW kind, NEW v \in ValuesOf(kind), NEW pre \in Seq(Byte),
         NEW post \in Seq(Byte), NEW read, read.offset = Len(pre)
  PROVE  LET payload == (pre \o FieldBytes(kind, v)) \o post
             next == ReadField(payload, kind, read)
         IN  ReadsValue(read, next, v, Len(pre \o FieldBytes(kind, v)),
                        post, payload)
<1> DEFINE b == FieldBytes(kind, v)  pb == pre \o b  payload == pb \o post
           next == ReadField(payload, kind, read)  o == Len(pre)
<1>1. v \in Seq(Byte) /\ b \in Seq(Byte) /\ Len(v) \in Nat
  BY FieldBytesType
<1>2. Len(pb) = o + Len(b) /\ o \in Nat /\ Len(post) \in Nat /\ pb \in Seq(Byte)
  BY <1>1, BytesConcat, LenProperties
<1>3. Len(payload) = Len(pb) + Len(post)
  <2> HIDE DEF pb
  <2> QED BY <1>2, BytesConcat
<1>4. CASE kind # "string"
  <2>1. Len(v) = 4 /\ b = v
    BY <1>4, FieldBytesType DEF WordSize
  <2>2. Bytes(payload, o, 4) = v
    <3>1. Holds(payload, pre, v, post)
      BY <2>1, Zenon DEF Holds
    <3> HIDE DEF payload
    <3>2. Bytes(payload, Len(pre), Len(v)) = v
      BY <1>1, <3>1, BytesAt
    <3> QED BY <2>1, <3>2, Zenon
  <2> HIDE DEF b, pb, payload
  <2>3. /\ next.values = Append(read.values, v) /\ next.offset = o + 4
        /\ next.starts = Append(read.starts, o)
        /\ next.inRange = (read.inRange /\ o + 4 <= Len(payload))
    BY <1>4, <2>2 DEF ReadField, WordSize
  <2>4. /\ o + 4 <= Len(payload) /\ Len(pb) = o + 4
        /\ o \in Nat /\ o < Len(payload)
    <3>1. Len(b) = 4
      BY <2>1, Zenon
    <3> HIDE DEF o
    <3> QED BY <1>2, <1>3, <3>1
  <2> QED BY <2>3, <2>4 DEF ReadsValue, b, pb, payload
<1>5. CASE kind = "string"
  <2> DEFINE u == Uint32(Len(v))  pu == pre \o u
  <2>1. FitsUint32(Len(v)) /\ u \in Seq(Byte) /\ Len(u) = 4 /\ b = u \o v
    BY <1>5, FieldBytesType DEF WordSize
  <2>2. pu \in Seq(Byte) /\ Len(pu) = o + 4
    <3> HIDE DEF u
    <3> QED BY <2>1, BytesConcat
  <2> HIDE DEF u, b
  <2>3. pb = pu \o v
    <3>1. u \in Seq(Byte) /\ v \in Seq(Byte)
      BY <1>1, <2>1, Zenon
    <3>2. (pre \o u) \o v = pre \o (u \o v)
      BY <3>1, BytesAssociative
    <3> QED BY <2>1, <3>2, Zenon
  <2>4. payload = pu \o (v \o post) /\ v \o post \in Seq(Byte)
    <3> HIDE DEF pu, pb
    <3>1. (pu \o v) \o post = pu \o (v \o post)
      BY <1>1, <2>2, BytesAssociative
    <3> QED BY <1>1, <2>3, <3>1, BytesConcat
  <2>5. Bytes(payload, o, 4) = u
    <3> DEFINE vp == v \o post
    <3>1. vp \in Seq(Byte) /\ Holds(payload, pre, u, vp)
      BY <2>4, Zenon DEF Holds
    <3> HIDE DEF vp, payload
    <3>2. Bytes(payload, Len(pre), Len(u)) = u
      BY <2>1, <3>1, BytesAt
    <3> QED BY <2>1, <3>2, Zenon
  <2>6. AsUint32(u) = Len(v)
    <3>1. <<>> \in Seq(Byte)
      BY EmptySeq
    <3>2. u \o <<>> = u
      BY <2>1, ConcatEmptySeq
    <3>3. AsUint32(u \o <<>>) = Len(v)
      BY <2>1, <3>1, Uint32RoundTrip DEF u
    <3> QED BY <3>2, <3>3
  <2>7. Bytes(payload, o + 4, Len(v)) = v
    <3>1. Holds(payload, pu, v, post)
      BY <2>3, Zenon DEF Holds
    <3> HIDE DEF pu, payload
    <3>2. Bytes(payload, Len(pu), Len(v)) = v
      BY <1>1, <2>2, <3>1, BytesAt
    <3> QED BY <2>2, <3>2, Zenon
  <2> HIDE DEF payload, pb, pu
  <2>8. /\ next.values = Append(read.values, v)
        /\ next.offset = o + 4 + Len(v)
        /\ next.starts = Append(read.starts, o + 4)
        /\ next.inRange = (read.inRange /\ o + 4 + Len(v) <= Len(payload))
    BY <1>5, <2>5, <2>6, <2>7 DEF ReadField, WordSize, StringEnd
  <2>9. Len(pb) = o + 4 + Len(v)
    BY <1>1, <2>2, <2>3, BytesConcat
  <2>10. (v = <<>> /\ post = <<>>) \/ Len(v) + Len(post) > 0
    BY <1>1, <1>2, EmptySeq
  <2>11. /\ o + 4 \in Nat /\ o + 4 + Len(v) <= Len(payload)
         /\ o + 4 < Len(payload) \/ (o + 4 = Len(payload) /\ Len(v) + Len(post) = 0)
    BY <1>1, <1>2, <1>3, <2>9
  <2>12. \/ o + 4 < Len(payload)
         \/ o + 4 = Len(payload) /\ v = <<>> /\ post = <<>>
    BY <2>10, <2>11
  <2> QED BY <2>8, <2>9, <2>11, <2>12 DEF ReadsValue, payload, pb, b
<1> QED BY <1>4, <1>5

(* A message's payload before and after a place between two of its fields. *)
Before(m, k) == Uint32(TypeHash[m.type]) \o FlattenSeq(SubSeq(Parts(m), 1, k))
After(m, k) == FlattenSeq(SubSeq(Parts(m), k + 1, Len(Parts(m))))

LEMMA CutAtField ==
  ASSUME NEW p \in Program, NEW m \in OwnMessages(p),
         NEW k \in 1 .. Len(Parts(m))
  PROVE  /\ Before(m, k) = Before(m, k - 1) \o Parts(m)[k]
         /\ Before(m, k - 1) \in Seq(Byte) /\ Before(m, k) \in Seq(Byte)
         /\ Parts(m)[k] \in Seq(Byte) /\ After(m, k) \in Seq(Byte)
         /\ Uint32(TypeHash[m.type]) \o FlattenSeq(Parts(m))
              = Before(m, k) \o After(m, k)
         /\ k < Len(Parts(m)) => After(m, k) # <<>>
<1> DEFINE S == Seq(Byte)  parts == Parts(m)  n == Len(parts)
           u == Uint32(TypeHash[m.type])
           x == SubSeq(parts, 1, k - 1)  y == SubSeq(parts, 1, k)
           z == SubSeq(parts, k + 1, n)
<1>1. parts \in Seq(S) /\ n \in Nat
      /\ \A i \in 1 .. n : parts[i] \in S /\ parts[i] # <<>>
  BY PartsType, LenProperties
<1>2. u \in S
  <2>1. TypeHash[m.type] \in Nat
    BY OwnMessageType, HashAssumption
  <2> QED BY <2>1, Uint32Bytes
<1> HIDE DEF S, parts
<1>3. x \in Seq(S) /\ y \in Seq(S) /\ z \in Seq(S)
  <2>1. k - 1 \in 0 .. n /\ k \in 0 .. n
    BY <1>1 DEF parts
  <2>2. x \in Seq(S)
    BY <1>1, <2>1, SubSeqAt
  <2>3. y \in Seq(S) /\ z \in Seq(S)
    BY <1>1, <2>1, SubSeqAt
  <2> QED BY <2>2, <2>3
<1>4. y = Append(x, parts[k]) /\ parts[k] \in S
  <2>1. k \in 1 .. Len(parts) /\ 1 \in 1 .. Len(parts) /\ k \in 1 .. Len(parts)
        /\ k \in 1 .. n
    BY <1>1 DEF parts
  <2>2. y = x \o <<parts[k]>>
    BY <1>1, <2>1, SubSeqRecursiveSecond
  <2>3. parts[k] \in S
    BY <1>1, <2>1
  <2> QED BY <1>3, <2>2, <2>3, AppendIsConcat
<1>5. parts = y \o z
  <2>1. k \in 0 .. Len(parts)
    BY <1>1 DEF parts
  <2> QED BY <1>1, <2>1, SplitAt
<1> HIDE DEF x, y, z
<1> USE DEF S
<1>6. /\ FlattenSeq(x) \in S /\ FlattenSeq(y) \in S /\ FlattenSeq(z) \in S
      /\ FlattenSeq(y) = FlattenSeq(x) \o parts[k]
      /\ FlattenSeq(parts) = FlattenSeq(y) \o FlattenSeq(z)
  <2>1. FlattenSeq(x) \in S /\ FlattenSeq(y) \in S /\ FlattenSeq(z) \in S
    BY <1>3, FlattenType
  <2>2. FlattenSeq(y) = FlattenSeq(x) \o parts[k]
    BY <1>3, <1>4, FlattenAppend
  <2>3. FlattenSeq(parts) = FlattenSeq(y) \o FlattenSeq(z)
    BY <1>3, <1>5, FlattenConcat
  <2> QED BY <2>1, <2>2, <2>3
<1> DEFINE fx == FlattenSeq(x)  fy == FlattenSeq(y)  fz == FlattenSeq(z)
           b == parts[k]
<1>7. /\ fx \in Seq(Byte) /\ fy \in Seq(Byte) /\ fz \in Seq(Byte)
      /\ b \in Seq(Byte) /\ u \in Seq(Byte)
      /\ u \o fx \in Seq(Byte) /\ u \o fy \in Seq(Byte)
  <2>1. /\ fx \in Seq(Byte) /\ fy \in Seq(Byte) /\ fz \in Seq(Byte)
        /\ b \in Seq(Byte) /\ u \in Seq(Byte)
    BY <1>2, <1>4, <1>6
  <2> HIDE DEF fx, fy, fz, b, u
  <2> QED BY <2>1, BytesConcat
<1>8. (u \o fx) \o b = u \o (fx \o b) /\ (u \o fy) \o fz = u \o (fy \o fz)
  <2> HIDE DEF fx, fy, fz, b, u, S
  <2>1. fx \in Seq(Byte) /\ b \in Seq(Byte) /\ u \in Seq(Byte)
    BY <1>7
  <2>2. (u \o fx) \o b = u \o (fx \o b)
    BY <2>1, BytesAssociative
  <2>3. fy \in Seq(Byte) /\ fz \in Seq(Byte)
    BY <1>7
  <2>4. (u \o fy) \o fz = u \o (fy \o fz)
    BY <2>1, <2>3, BytesAssociative
  <2> QED BY <2>2, <2>4
<1>9. Before(m, k) = u \o fy /\ Before(m, k - 1) = u \o fx /\ After(m, k) = fz
  BY DEF Before, After, parts, x, y, z
<1>10. k < n => fz # <<>>
  <2> SUFFICES ASSUME k < n PROVE fz # <<>>
    OBVIOUS
  <2>1. k + 1 \in 1 .. n /\ n \in k + 1 .. n
    BY <1>1 DEF parts
  <2> DEFINE c == parts[k + 1]  r == SubSeq(parts, k + 2, n)
  <2>2. c \in S /\ c # <<>>
    BY <1>1, <2>1
  <2>3. z = <<c>> \o r
    <3> HIDE DEF S, n
    <3>1. z = <<c>> \o SubSeq(parts, (k + 1) + 1, n)
      BY <1>1, <2>1, SubSeqRecursiveFirst DEF n, z
    <3>2. (k + 1) + 1 = k + 2
      BY <2>1
    <3> QED BY <3>1, <3>2
  <2>4. r \in Seq(S)
    <3>1. k + 1 \in 0 .. Len(parts)
      BY <1>1, <2>1
    <3>2. SubSeq(parts, (k + 1) + 1, Len(parts)) \in Seq(S)
      <4> HIDE DEF S
      <4> QED BY <1>1, <3>1, SubSeqAt
    <3>3. (k + 1) + 1 = k + 2
      BY <2>1
    <3> QED BY <3>2, <3>3
  <2> HIDE DEF c, r
  <2>5. fz = FlattenSeq(<<c>>) \o FlattenSeq(r)
    <3>1. <<c>> \in Seq(S)
      <4> HIDE DEF S
      <4> QED BY <2>2
    <3> QED BY <2>3, <2>4, <3>1, FlattenConcat
  <2>6. fz = c \o FlattenSeq(r) /\ FlattenSeq(r) \in Seq(Byte)
    BY <2>2, <2>4, <2>5, FlattenOne, FlattenType
  <2> HIDE DEF fz
  <2> QED BY <2>2, <2>6, ConcatEqualIffEmpty
<1> HIDE DEF fx, fy, fz, u, b
<1>11. Before(m, k) = Before(m, k - 1) \o b
  BY <1>6, <1>8, <1>9, Zenon DEF fx, fy, b
<1>12. u \o FlattenSeq(parts) = Before(m, k) \o After(m, k)
  BY <1>6, <1>8, <1>9, Zenon DEF fy, fz
<1> QED BY <1>7, <1>9, <1>10, <1>11, <1>12, Zenon DEF b, u, parts

(* After k fields of a message the first k values are read, the offset is  *)
(* where the field k + 1 begins, no byte outside the payload was read, and *)
(* each value was found at a subscript that it may use.                    *)
ReadSoFar(m, payload, k, read) ==
  /\ read.values = SubSeq(m.values, 1, k)
  /\ read.offset = Len(Before(m, k))
  /\ read.inRange
  /\ read.starts \in Seq(Nat) /\ Len(read.starts) = k
  /\ \A i \in 1 .. k : StartAllowed(m, payload, i, read.starts[i])

LEMMA ValuesType ==
  ASSUME NEW p \in Program, NEW m \in OwnMessages(p)
  PROVE  /\ m.values \in Seq(Word \cup String)
         /\ Len(m.values) = Len(Parts(m))
<1> DEFINE V == Word \cup String  n == Len(Parts(m))  s == m.values
<1>1. n \in Nat /\ s \in [1 .. n -> V]
  BY PartsType, OwnMessageType
<1> HIDE DEF V, n, s
<1>2. s \in Seq(V) /\ Len(s) = n
  BY <1>1
<1> QED BY <1>2 DEF V, n, s

LEMMA ReadStarts ==
  ASSUME NEW p \in Program, NEW m \in OwnMessages(p), NEW payload
  PROVE  ReadSoFar(m, payload, 0, NothingRead)
<1> DEFINE u == Uint32(TypeHash[m.type])
<1>1. u \in Seq(Byte) /\ Len(u) = 4
  <2>1. TypeHash[m.type] \in Nat
    BY OwnMessageType, HashAssumption
  <2> QED BY <2>1, Uint32Bytes
<1>2. SubSeq(Parts(m), 1, 0) = <<>> /\ SubSeq(m.values, 1, 0) = <<>>
  BY SubSeqEmpty
<1> HIDE DEF u
<1>3. u \o <<>> = u
  BY <1>1, ConcatEmptySeq
<1>4. Before(m, 0) = u
  BY <1>2, <1>3, FlattenEmpty, Zenon DEF Before, u
<1>5. <<>> \in Seq(Nat) /\ Len(<<>>) = 0
  BY EmptySeq
<1>6. \A i \in 1 .. 0 : FALSE
  OBVIOUS
<1> QED BY <1>1, <1>2, <1>4, <1>5, <1>6
        DEF ReadSoFar, NothingRead, FieldsStart, WordSize

LEMMA ReadContinues ==
  ASSUME NEW p \in Program, NEW m \in OwnMessages(p),
         NEW k \in 1 .. Len(Parts(m)), NEW read, NEW payload,
         ReadSoFar(m, payload, k - 1, read),
         payload = Uint32(TypeHash[m.type]) \o FlattenSeq(Parts(m))
  PROVE  ReadSoFar(m, payload, k, ReadField(payload, Fields[m.type][k], read))
<1> DEFINE n == Len(Parts(m))  kind == Fields[m.type][k]  v == m.values[k]
           pre == Before(m, k - 1)  post == After(m, k)
           next == ReadField(payload, kind, read)
<1>1. /\ n = Len(Fields[m.type]) /\ n \in Nat /\ v \in ValuesOf(kind)
      /\ Parts(m)[k] = FieldBytes(kind, v)
  <2>1. n = Len(Fields[m.type]) /\ n \in Nat
    BY PartsType, OwnMessageType
  <2>2. k \in 1 .. Len(Fields[m.type])
    BY <2>1
  <2> QED BY <2>1, <2>2, OwnMessageType DEF Parts
<1>2. /\ pre \in Seq(Byte) /\ post \in Seq(Byte)
      /\ Before(m, k) = pre \o FieldBytes(kind, v)
      /\ payload = Before(m, k) \o post
      /\ k < n => post # <<>>
  BY <1>1, CutAtField, Zenon
<1>3. read.offset = Len(pre) /\ read.inRange
  BY DEF ReadSoFar
<1> HIDE DEF n, kind, v, pre, post
<1>4. ReadsValue(read, next, v, Len(Before(m, k)), post, payload)
  <2>1. payload = (pre \o FieldBytes(kind, v)) \o post
    BY <1>2, Zenon
  <2>2. LET pl == (pre \o FieldBytes(kind, v)) \o post
        IN  ReadsValue(read, ReadField(pl, kind, read), v,
                       Len(pre \o FieldBytes(kind, v)), post, pl)
    BY <1>1, <1>2, <1>3, FieldIsRead
  <2> QED BY <1>2, <2>1, <2>2, Zenon DEF next
<1>5. Append(SubSeq(m.values, 1, k - 1), v) = SubSeq(m.values, 1, k)
  <2> DEFINE V == Word \cup String  s == m.values  r == SubSeq(s, 1, k - 1)
  <2>1. s \in Seq(V) /\ Len(s) = n
    BY ValuesType DEF n
  <2>2. 1 \in 1 .. Len(s) /\ k \in 1 .. Len(s) /\ k - 1 \in 0 .. Len(s)
    BY <1>1, <2>1 DEF n
  <2>3. v \in V /\ v = s[k]
    <3>1. s[k] \in V
      BY <1>1, <2>2, OwnMessageType DEF n
    <3> QED BY <3>1 DEF v
  <2> HIDE DEF V, s
  <2>4. SubSeq(s, 1, k) = r \o <<s[k]>>
    BY <2>1, <2>2, SubSeqRecursiveSecond
  <2>5. r \in Seq(V)
    BY <2>1, <2>2, SubSeqAt
  <2> HIDE DEF r
  <2>6. Append(r, v) = r \o <<v>>
    BY <2>3, <2>5, AppendIsConcat
  <2> QED BY <2>3, <2>4, <2>6, Zenon DEF s, r
<1>6. next.values = SubSeq(m.values, 1, k)
  BY <1>4, <1>5, Zenon DEF ReadSoFar, ReadsValue
<1>7. next.offset = Len(Before(m, k))
  BY <1>4, Zenon DEF ReadsValue
<1>8. next.inRange
  BY <1>3, <1>4, Zenon DEF ReadsValue
<1>9. PICK start \in Nat : /\ next.starts = Append(read.starts, start)
                          /\ \/ start < Len(payload)
                             \/ start = Len(payload) /\ v = <<>> /\ post = <<>>
  BY <1>4, Zenon DEF ReadsValue
<1>10. StartAllowed(m, payload, k, start)
  <2>1. k < n \/ k = n
    BY <1>1 DEF n
  <2>2. Len(m.values) = n
    BY ValuesType DEF n
  <2> QED BY <1>2, <1>9, <2>1, <2>2, Zenon DEF StartAllowed, v
<1>11. read.starts \in Seq(Nat) /\ Len(read.starts) = k - 1
       /\ \A i \in 1 .. k - 1 : StartAllowed(m, payload, i, read.starts[i])
  BY Zenon DEF ReadSoFar
<1>12. /\ next.starts \in Seq(Nat) /\ Len(next.starts) = k
       /\ next.starts[k] = start
       /\ \A i \in 1 .. k - 1 : next.starts[i] = read.starts[i]
  <2> DEFINE s == read.starts
  <2>1. k \in Nat /\ s \in Seq(Nat) /\ Len(s) = k - 1
    BY <1>1, <1>11 DEF n
  <2> HIDE DEF s
  <2>2. /\ Append(s, start) \in Seq(Nat) /\ Len(Append(s, start)) = k
        /\ Append(s, start)[k] = start
        /\ \A i \in 1 .. k - 1 : Append(s, start)[i] = s[i]
    BY <2>1, <1>9
  <2> QED BY <1>9, <2>2, Zenon DEF s
<1>13. \A i \in 1 .. k : StartAllowed(m, payload, i, next.starts[i])
  <2> SUFFICES ASSUME NEW i \in 1 .. k
               PROVE  StartAllowed(m, payload, i, next.starts[i])
    OBVIOUS
  <2>1. i = k \/ i \in 1 .. k - 1
    BY <1>1 DEF n
  <2> QED BY <1>10, <1>11, <1>12, <2>1, Zenon
<1> QED BY <1>6, <1>7, <1>8, <1>12, <1>13, Zenon DEF ReadSoFar, kind

(* What one program serialized, another with the type reads whole.         *)
LEMMA MessageIsRead ==
  ASSUME RInv, NEW p \in Program, NEW q \in Program, Connected(p, q),
         NEW m \in OwnMessages(p) \cap OwnMessages(q)
  PROVE  LET payload == Serialize(p, m)
         IN  /\ ~Throws(q, payload)
             /\ Deserialize(q, payload).type = m.type
             /\ ReadSoFar(m, payload, Len(Parts(m)),
                          Deserialize(q, payload).read)
<1> DEFINE t == m.type  n == Len(Parts(m))  payload == Serialize(p, m)
           h == TypeHash[t]  fields == deserializers[q][MESSAGE_TYPE_ID[q][t]]
<1>1. /\ InMain(p) /\ InMain(q)
      /\ payload = Uint32(h) \o FlattenSeq(Parts(m))
  BY PayloadIs DEF Connected
<1>2. AsUint32(payload) = h /\ Len(payload) \in Nat /\ Len(payload) >= WordSize
  BY <1>1, PayloadId
<1>3. /\ t \in Declared[q] /\ t \in Type /\ HasOwnId(q, t)
      /\ n = Len(Fields[t]) /\ n \in Nat
  BY OwnMessageType, PartsType
<1>4. /\ h \in Id /\ m_registry[q][h] = t /\ fields \in Seq(Field)
      /\ InOrder(fields, t, n)
  BY <1>1, <1>3, InMainWhole
<1>5. CreatorOf(q, AsUint32(payload)) = t
  BY <1>2, <1>4 DEF CreatorOf
<1>6. ~Throws(q, payload)
  BY <1>2, <1>3, <1>5, NoTypeAssumption DEF Throws, WordSize
<1>7. /\ Deserialize(q, payload).type = t
      /\ Deserialize(q, payload).read = CreateFromBytes(q, t, payload)
  BY <1>5 DEF Deserialize
<1>8. DOMAIN fields = 1 .. n /\ \A k \in 1 .. n : fields[k] = <<t, k>>
  BY <1>4 DEF InOrder
<1> HIDE DEF payload, fields, n
<1>9. PICK read : /\ Reads(payload, fields, read, n)
                  /\ CreateFromBytes(q, t, payload) = read[n]
  <2>1. fields = deserializers[q][MESSAGE_TYPE_ID[q][t]]
    BY DEF fields
  <2> HIDE DEF t
  <2> QED BY <1>3, <1>8, <2>1, CreateReads
<1> DEFINE T == {k \in Nat : k <= n => ReadSoFar(m, payload, k, read[k])}
<1>10. 0 \in T
  BY <1>9, ReadStarts, Zenon DEF Reads
<1>11. ASSUME NEW j \in Nat, j \in T PROVE j + 1 \in T
  <2> DEFINE k == j + 1
  <2> SUFFICES ASSUME k <= n PROVE ReadSoFar(m, payload, k, read[k])
    OBVIOUS
  <2>1. k \in 1 .. n /\ k - 1 = j /\ j <= n
    BY <1>3
  <2>2. ReadSoFar(m, payload, k - 1, read[k - 1])
    BY <1>11, <2>1
  <2> HIDE DEF k
  <2>3. read[k] = ReadNext(payload, fields, k, read[k - 1])
    BY <1>9, <2>1, Zenon DEF Reads
  <2>4. fields[k][1] = t /\ fields[k][2] = k
    BY <1>8, <2>1
  <2>5. read[k] = ReadField(payload, Fields[t][k], read[k - 1])
    BY <2>3, <2>4, Zenon DEF ReadNext
  <2>6. ReadSoFar(m, payload, k, ReadField(payload, Fields[t][k], read[k - 1]))
    <3>1. k \in 1 .. Len(Parts(m))
      BY <2>1 DEF n
    <3> QED BY <1>1, <2>2, <3>1, ReadContinues
  <2> QED BY <2>5, <2>6, Zenon
<1> HIDE DEF T
<1>12. n \in T
  BY <1>3, <1>10, <1>11, NumberInduction
<1>13. ReadSoFar(m, payload, n, read[n])
  BY <1>3, <1>12 DEF T
<1> QED BY <1>6, <1>7, <1>9, <1>13, Zenon DEF payload, n

(* Whatever two connected programs declare and in whatever order they      *)
(* registered it, a message of a type that both have under an id of its    *)
(* own arrives with its type and all its values.                           *)
THEOREM SharedMessagesSurvive == Spec => []MessagesSurvive
<1>1. RInv => MessagesSurvive
  <2> SUFFICES ASSUME RInv, NEW p \in Program, NEW q \in Program,
                      Connected(p, q), NEW m \in OwnMessages(p) \cap OwnMessages(q)
               PROVE  /\ ~Throws(q, Serialize(p, m))
                      /\ Deserialize(q, Serialize(p, m)).type = m.type
                      /\ Deserialize(q, Serialize(p, m)).read.values = m.values
    BY Zenon DEF MessagesSurvive
  <2>1. SubSeq(m.values, 1, Len(Parts(m))) = m.values
    <3>1. m.values \in Seq(Word \cup String) /\ Len(m.values) = Len(Parts(m))
      BY ValuesType
    <3> QED BY <3>1, SubSeqFull
  <2>2. Deserialize(q, Serialize(p, m)).read.values = m.values
    BY <2>1, MessageIsRead, Zenon DEF ReadSoFar
  <2> QED BY <2>2, MessageIsRead, Zenon
<1> QED BY <1>1, RegistryInvariant, PTL

(* Reading such a message, whatever its values, reads no byte outside its  *)
(* payload and takes no address outside it but, for an empty string that   *)
(* is the last value, the one just past the end.                           *)
THEOREM ReadingStaysInside == Spec => []ReadsStayInside
<1>1. RInv => ReadsStayInside
  <2> SUFFICES ASSUME RInv, NEW p \in Program, NEW q \in Program,
                      Connected(p, q), NEW m \in OwnMessages(p) \cap OwnMessages(q)
               PROVE  LET payload == Serialize(p, m)
                          read == Deserialize(q, payload).read
                      IN  /\ read.inRange
                          /\ \A k \in 1 .. Len(m.values) :
                                StartAllowed(m, payload, k, read.starts[k])
    BY Zenon DEF ReadsStayInside
  <2>1. Len(m.values) = Len(Parts(m))
    BY ValuesType
  <2> QED BY <2>1, MessageIsRead, Zenon DEF ReadSoFar
<1> QED BY <1>1, RegistryInvariant, PTL
====
