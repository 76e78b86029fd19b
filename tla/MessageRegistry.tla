--------------------------- MODULE MessageRegistry ---------------------------
(***************************************************************************)
(* The message types of the programs on the two ends of a connection: the  *)
(* static initialization that registers the types each of them declares,   *)
(* in an order of its own, and the payloads they then make and read.       *)
(*                                                                         *)
(* A message is its type and the values of its fields; an int or a float   *)
(* is the four bytes it has in memory, a string is its bytes.              *)
(***************************************************************************)
EXTENDS ByteEncoding, SequencesExt

CONSTANTS
  Program,
  Type,       \* message types
  NoType,
  Declared,   \* the types each program declares
  Fields,     \* the kinds of a type's fields, in the order of its FIELDs
  TypeHash,   \* hashTypeName of each type's name
  Word,       \* values of ints and floats
  String      \* values of strings

Kind == {"int", "float", "string"}

ASSUME DeclaredAssumption == Declared \in [Program -> SUBSET Type]
ASSUME FieldsAssumption == Fields \in [Type -> Seq(Kind)]
ASSUME HashAssumption ==
  TypeHash \in [Type -> Nat] /\ \A t \in Type : FitsUint32(TypeHash[t])
ASSUME NoTypeAssumption == NoType \notin Type
ASSUME WordAssumption == \A w \in Word : w \in Seq(Byte) /\ Len(w) = 4
ASSUME StringAssumption ==
  \A s \in String : s \in Seq(Byte) /\ FitsUint32(Len(s))

VARIABLES
  progress,         \* how many of a type's static members are initialized
  MESSAGE_TYPE_ID,  \* of each type, zero until it is initialized
  serializers,      \* the fields under each id, a field as <<type, place>>
  deserializers,
  m_registry        \* MessageFactory: the type whose creator an id has

vars == <<progress, MESSAGE_TYPE_ID, serializers, deserializers, m_registry>>

Id == {0} \cup {TypeHash[t] : t \in Type}

Field == Type \X (Nat \ {0})

Init ==
  /\ progress = [p \in Program |-> [t \in Type |-> 0]]
  /\ MESSAGE_TYPE_ID = [p \in Program |-> [t \in Type |-> 0]]
  /\ serializers = [p \in Program |-> [i \in Id |-> <<>>]]
  /\ deserializers = [p \in Program |-> [i \in Id |-> <<>>]]
  /\ m_registry = [p \in Program |-> [i \in Id |-> NoType]]

-----------------------------------------------------------------------------
(* Static initialization.  The members of one type are initialized in the  *)
(* order it declares them; nothing orders those of two types.              *)

(* The place of each kind of member: the id, the fields, the creator.      *)
IdPlace == 0
FieldPlace(i) == i
CreatorPlace(t) == Len(Fields[t]) + 1

(* Mutant: the id is a member declared after the others.                   *)
IdOf_Late(p, t) == 0

IdOf(p, t) == MESSAGE_TYPE_ID[p][t]

Initializes(p, t, place) ==
  /\ t \in Declared[p]
  /\ progress[p][t] = place
  /\ progress' = [progress EXCEPT ![p][t] = place + 1]

InitId(p, t) ==
  /\ Initializes(p, t, IdPlace)
  /\ MESSAGE_TYPE_ID' = [MESSAGE_TYPE_ID EXCEPT ![p][t] = TypeHash[t]]
  /\ UNCHANGED <<serializers, deserializers, m_registry>>

(* Mutant: places count from zero.                                         *)
RegisterField_FromZero(p, t, i) ==
  /\ Initializes(p, t, FieldPlace(i))
  /\ serializers' = [serializers EXCEPT ![p][IdOf(p, t)] = Append(@, <<t, i - 1>>)]
  /\ deserializers' = [deserializers EXCEPT ![p][IdOf(p, t)] = Append(@, <<t, i - 1>>)]
  /\ UNCHANGED <<MESSAGE_TYPE_ID, m_registry>>

(* A field's registrar: registerSerializer and registerDeserializer.       *)
RegisterField(p, t, i) ==
  /\ Initializes(p, t, FieldPlace(i))
  /\ serializers' = [serializers EXCEPT ![p][IdOf(p, t)] = Append(@, <<t, i>>)]
  /\ deserializers' = [deserializers EXCEPT ![p][IdOf(p, t)] = Append(@, <<t, i>>)]
  /\ UNCHANGED <<MESSAGE_TYPE_ID, m_registry>>

(* registerMessageType: the last type with an id has it.                   *)
RegisterMessage(p, t) ==
  /\ Initializes(p, t, CreatorPlace(t))
  /\ m_registry' = [m_registry EXCEPT ![p][IdOf(p, t)] = t]
  /\ UNCHANGED <<MESSAGE_TYPE_ID, serializers, deserializers>>

Next ==
  \E p \in Program, t \in Type :
    \/ InitId(p, t)
    \/ \E i \in 1 .. Len(Fields[t]) : RegisterField(p, t, i)
    \/ RegisterMessage(p, t)

Spec == Init /\ [][Next]_vars

(* main starts once every static member is initialized.                    *)
Registered(p, t) == progress[p][t] = CreatorPlace(t) + 1
InMain(p) == \A t \in Declared[p] : Registered(p, t)

-----------------------------------------------------------------------------
(* Payloads.                                                               *)

WordSize == 4

(* The n bytes from an offset on, whatever they are outside the payload.   *)
Bytes(payload, offset, n) ==
  [i \in 1 .. n |-> IF offset + i <= Len(payload) THEN payload[offset + i] ELSE 0]

(* serializeField.                                                         *)
FieldBytes(kind, value) ==
  IF kind = "string" THEN Uint32(Len(value)) \o value ELSE value

Serialize(p, m) ==
  LET id == MESSAGE_TYPE_ID[p][m.type]
      fields == serializers[p][id]
  IN  Uint32(id) \o
      FlattenSeq([k \in 1 .. Len(fields) |->
                    FieldBytes(Fields[fields[k][1]][fields[k][2]],
                               m.values[fields[k][2]])])

(* Mutant: the characters are not counted.                                 *)
StringEnd_Start(start, size) == start

StringEnd(start, size) == start + size

(* deserializeField: the field's value, the offset behind it, the          *)
(* subscript the value's address is taken from, and whether every byte     *)
(* read on the way, a string's length included, was one of the payload.    *)
ReadField(payload, kind, read) ==
  LET o == read.offset
      size == AsUint32(Bytes(payload, o, WordSize))
      start == o + WordSize
  IN  IF kind = "string"
      THEN [values  |-> Append(read.values, Bytes(payload, start, size)),
            offset  |-> StringEnd(start, size),
            starts  |-> Append(read.starts, start),
            inRange |-> read.inRange /\ start + size <= Len(payload)]
      ELSE [values  |-> Append(read.values, Bytes(payload, o, WordSize)),
            offset  |-> start,
            starts  |-> Append(read.starts, o),
            inRange |-> read.inRange /\ start <= Len(payload)]

(* Mutant: the header, already taken off, is skipped once more.            *)
FieldsStart_SkipsHeader == 2 * WordSize

FieldsStart == WordSize

(* createFromBytes.                                                        *)
CreateFromBytes(p, t, payload) ==
  FoldLeft(LAMBDA read, f : ReadField(payload, Fields[f[1]][f[2]], read),
           [values |-> <<>>, offset |-> FieldsStart, starts |-> <<>>,
            inRange |-> TRUE],
           deserializers[p][MESSAGE_TYPE_ID[p][t]])

(* Mutant: an id that is not found is taken for the first type registered. *)
CreatorOf_First(p, id) ==
  IF id \in Id /\ m_registry[p][id] # NoType
  THEN m_registry[p][id]
  ELSE CHOOSE t \in Declared[p] : TRUE

CreatorOf(p, id) == IF id \in Id THEN m_registry[p][id] ELSE NoType

(* MessageFactory::deserialize.                                            *)
Throws(p, payload) ==
  \/ Len(payload) < WordSize
  \/ CreatorOf(p, AsUint32(payload)) = NoType

Deserialize(p, payload) ==
  LET t == CreatorOf(p, AsUint32(payload))
  IN  [type |-> t, read |-> CreateFromBytes(p, t, payload)]

-----------------------------------------------------------------------------
(* No other type that the program declares has the same id.                *)
HasOwnId(p, t) == \A u \in Declared[p] : TypeHash[u] = TypeHash[t] => u = t

ValuesOf(kind) == IF kind = "string" THEN String ELSE Word

Messages(t) ==
  [type : {t},
   values : {v \in [1 .. Len(Fields[t]) -> Word \cup String] :
               \A i \in 1 .. Len(Fields[t]) : v[i] \in ValuesOf(Fields[t][i])}]

(* The messages of the types the program declares under ids of their own.  *)
OwnMessages(p) == UNION {Messages(t) : t \in {u \in Declared[p] : HasOwnId(p, u)}}

(* Both ends of the connection are in main.                                *)
Connected(p, q) == InMain(p) /\ InMain(q)

-----------------------------------------------------------------------------
(* Every variable has its type.                                            *)
TypeOK ==
  /\ progress \in [Program -> [Type -> Nat]]
  /\ MESSAGE_TYPE_ID \in [Program -> [Type -> Id]]
  /\ serializers \in [Program -> [Id -> Seq(Field)]]
  /\ deserializers \in [Program -> [Id -> Seq(Field)]]
  /\ m_registry \in [Program -> [Id -> Type \cup {NoType}]]

(* Whatever order the types are initialized in, a type with an id of its   *)
(* own has exactly its own fields there, in the order of its declaration,  *)
(* for writing and for reading alike, and its creator from the end of its  *)
(* initialization on: both programs lay a message out in the same way.     *)
InOrder(fields, t, n) ==
  /\ Len(fields) = n
  /\ \A i \in 1 .. n : fields[i] = <<t, i>>

FieldsDone(p, t) ==
  IF progress[p][t] = 0 THEN 0
  ELSE IF Registered(p, t) THEN Len(Fields[t]) ELSE progress[p][t] - 1

TypesAreWhole ==
  \A p \in Program : \A t \in Declared[p] :
    HasOwnId(p, t) =>
      /\ InOrder(serializers[p][TypeHash[t]], t, FieldsDone(p, t))
      /\ InOrder(deserializers[p][TypeHash[t]], t, FieldsDone(p, t))
      /\ Registered(p, t) <=> m_registry[p][TypeHash[t]] = t

(* A message one program serialized, the other, if it declares the type    *)
(* under an id of its own, deserializes to the same message, whatever else *)
(* the two declare and in whatever order they registered it.               *)
MessagesSurvive ==
  \A p, q \in Program : Connected(p, q) =>
    \A m \in OwnMessages(p) \cap OwnMessages(q) :
      LET payload == Serialize(p, m)
      IN  /\ ~Throws(q, payload)
          /\ Deserialize(q, payload).type = m.type
          /\ Deserialize(q, payload).read.values = m.values

(* Reading such a message reads no byte outside its payload, whatever its  *)
(* values are, and takes the address of each value from a subscript of the *)
(* payload.  One may be the subscript just past the end, and only if it is *)
(* that of the last value and that value is an empty string.               *)
StartAllowed(m, payload, k, start) ==
  \/ start < Len(payload)
  \/ start = Len(payload) /\ k = Len(m.values) /\ m.values[k] = <<>>

ReadsStayInside ==
  \A p, q \in Program : Connected(p, q) =>
    \A m \in OwnMessages(p) \cap OwnMessages(q) :
      LET payload == Serialize(p, m)
          read == Deserialize(q, payload).read
      IN  /\ read.inRange
          /\ \A k \in 1 .. Len(m.values) :
                StartAllowed(m, payload, k, read.starts[k])

(* A message of a type the other program does not have is thrown out; it   *)
(* is never taken for one of another type.                                 *)
UnknownTypesThrow ==
  \A p, q \in Program : Connected(p, q) =>
    \A m \in OwnMessages(p) :
      (\A t \in Declared[q] : TypeHash[t] # TypeHash[m.type])
        => Throws(q, Serialize(p, m))
====
