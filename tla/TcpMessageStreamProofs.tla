----------------------- MODULE TcpMessageStreamProofs -----------------------
(***************************************************************************)
(* For any payloads and limits, and however send and recv cut the bytes:   *)
(* everything that is framed, cut and buffered stays bytes, no update      *)
(* delivers more than its limit, no byte is lost, repeated or reordered    *)
(* while the offset belongs to its frame, and the stream implements        *)
(* MessageChannel.                                                         *)
(***************************************************************************)
EXTENDS TcpMessageStream, ByteEncodingProofs

LEMMA MessagesAssociative ==
  \A a, b, c \in Seq(Payload) : (a \o b) \o c = a \o (b \o c)
  BY ConcatAssociative

(* A part of a sequence, wherever it starts and ends, is one.              *)
LEMMA PartIsSeq ==
  ASSUME NEW S, NEW s \in Seq(S), NEW m \in Nat \ {0}, NEW n \in Int, n <= Len(s)
  PROVE  SubSeq(s, m, n) \in Seq(S)
  OBVIOUS

(* A frame is bytes.                                                       *)
LEMMA FrameIsBytes ==
  ASSUME NEW p \in Payload
  PROVE  serializeForNetwork(p) \in Seq(Byte)
<1>1. p \in Seq(Byte)
  BY PayloadAssumption
<1>2. Uint32(Len(p)) \in Seq(Byte)
  BY <1>1, Uint32Bytes, LenProperties
<1> HIDE DEF Byte
<1> QED BY <1>1, <1>2 DEF serializeForNetwork

LEMMA SerializedType ==
  ASSUME NEW ms \in Seq(Payload)
  PROVE  Serialized(ms) \in Seq(Seq(Byte)) /\ Len(Serialized(ms)) = Len(ms)
<1>1. \A i \in 1 .. Len(ms) : serializeForNetwork(ms[i]) \in Seq(Byte)
  BY FrameIsBytes
<1> HIDE DEF Byte
<1> QED BY <1>1, IsASeq DEF Serialized

(* Four bytes are a size.                                                  *)
LEMMA SizeIsNat ==
  ASSUME NEW s \in Seq(Byte), Len(s) >= 4
  PROVE  ConsumedBytes(s) \in Nat
<1> DEFINE a == s[1]  b == s[2]  c == s[3]  d == s[4]
<1>1. a \in Byte /\ b \in Byte /\ c \in Byte /\ d \in Byte
  OBVIOUS
<1>2. ConsumedBytes(s) = 4 + (a + 256 * b + 65536 * c + 16777216 * d)
  BY DEF ConsumedBytes, HeaderSize, PayloadSize, AsUint32
<1> HIDE DEF a, b, c, d
<1>3. a \in Nat /\ b \in Nat /\ c \in Nat /\ d \in Nat
  BY <1>1 DEF Byte
<1>4. 4 + (a + 256 * b + 65536 * c + 16777216 * d) \in Nat
  BY <1>3
<1> QED BY <1>2, <1>4

LEMMA SendingTypes ==
  ASSUME TypeOK, \/ \E m \in Payload : SendTcpMessage(m)
                 \/ SendUpdate \/ Sending \/ SenderCloses
  PROVE  TypeOK'
<1> USE DEF TypeOK
<1>1. ASSUME NEW m \in Payload, SendTcpMessage(m) PROVE TypeOK'
  BY <1>1 DEF SendTcpMessage, receiveVars
<1>2. CASE SendUpdate
  <2>1. Serialized(m_messagesToSend) \in Seq(Seq(Byte))
    BY SerializedType
  <2>2. m_serializedToSend' \in Seq(Seq(Byte))
    BY <1>2, <2>1 DEF SendUpdate
  <2> QED BY <1>2, <2>2 DEF SendUpdate, receiveVars
<1>3. CASE Sending
  <2>1. m_serializedToSend # <<>> =>
          /\ m_serializedToSend[1] \in Seq(Byte)
          /\ Rest \in Seq(Byte)
    BY DEF Rest
  <2>2. CASE SendWhole
    BY <2>1, <2>2 DEF SendWhole, receiveVars
  <2>3. CASE SendPartial
    <3>1. PICK n \in 1 .. Len(Rest) - 1 :
            /\ wire' = wire \o SubSeq(Rest, 1, n)
            /\ m_lastMessageByteSent' = n
      BY <2>3 DEF SendPartial, OffsetAfter
    <3>2. Rest \in Seq(Byte) /\ Len(Rest) \in Nat
      BY <2>1, <2>3 DEF SendPartial
    <3>3. SubSeq(Rest, 1, n) \in Seq(Byte) /\ n \in Nat
      BY <3>1, <3>2, PartIsSeq
    <3>4. wire' \in Seq(Byte) /\ m_lastMessageByteSent' \in Nat
      BY <3>1, <3>3
    <3>5. partials' \in 0 .. MaxPartial /\ disturbed' \in BOOLEAN
      BY <2>3, BoundsAssumption DEF SendPartial
    <3> QED BY <2>3, <3>4, <3>5 DEF SendPartial, receiveVars
  <2>4. CASE SendFails
    BY <2>4 DEF SendFails, receiveVars
  <2>5. CASE SendDone
    BY <2>5 DEF SendDone, receiveVars
  <2> QED BY <1>3, <2>2, <2>3, <2>4, <2>5 DEF Sending
<1>4. CASE SenderCloses
  BY <1>4 DEF SenderCloses, receiveVars
<1> QED BY <1>1, <1>2, <1>3, <1>4

LEMMA ReceivingTypes ==
  ASSUME TypeOK,
         \/ \E n \in 0 .. Len(wire) : ReceiveUpdate(n)
         \/ ReceiveEnd \/ Parsing \/ ReceiverCloses
  PROVE  TypeOK'
<1> USE ReceiveAssumption DEF TypeOK, NotParsing
<1>1. ASSUME NEW n \in 0 .. Len(wire), ReceiveUpdate(n) PROVE TypeOK'
  <2>1. /\ SubSeq(wire, 1, n) \in Seq(Byte)
        /\ SubSeq(wire, n + 1, Len(wire)) \in Seq(Byte)
    BY PartIsSeq
  <2>2. m_receivedBuffer' \in Seq(Byte) /\ wire' \in Seq(Byte)
    <3>1. /\ m_receivedBuffer' = m_receivedBuffer \o SubSeq(wire, 1, n)
          /\ wire' = SubSeq(wire, n + 1, Len(wire))
      BY <1>1 DEF ReceiveUpdate
    <3>2. m_receivedBuffer \in Seq(Byte)
      OBVIOUS
    <3> HIDE DEF TypeOK, Byte
    <3> QED BY <2>1, <3>1, <3>2
  <2>3. /\ m_receivedMessages' \in Seq(Payload)
        /\ messagesReceived' \in NotParsing .. MaxReceive
    BY <1>1 DEF ReceiveUpdate
  <2> HIDE DEF Byte
  <2> QED BY <1>1, <2>2, <2>3 DEF ReceiveUpdate, sendVars
<1>2. CASE ReceiveEnd
  BY <1>2 DEF ReceiveEnd, sendVars
<1>3. CASE ParseNext
  <2>1. HasFrame(m_receivedBuffer) /\ messagesReceived < MaxReceive
    BY <1>3 DEF ParseNext, MayParse
  <2>2. Len(m_receivedBuffer) >= 4
    BY <2>1 DEF HasFrame, HeaderSize
  <2>3. ConsumedBytes(m_receivedBuffer) \in Nat
    BY <2>2, SizeIsNat
  <2>4. m_receivedBuffer' \in Seq(Byte)
    <3>1. m_receivedBuffer' =
            SubSeq(m_receivedBuffer, ConsumedBytes(m_receivedBuffer) + 1,
                   Len(m_receivedBuffer))
      BY <1>3 DEF ParseNext
    <3>2. m_receivedBuffer \in Seq(Byte) /\ Len(m_receivedBuffer) \in Nat
      OBVIOUS
    <3> HIDE DEF TypeOK, Byte
    <3> QED BY <2>3, <3>1, <3>2, PartIsSeq
  <2>5. /\ m_receivedMessages' \in Seq(Payload)
        /\ delivered' \in Seq(Payload)
    <3> DEFINE p == PayloadOf(m_receivedBuffer)
    <3>1. \/ /\ p \in Payload
             /\ m_receivedMessages' = Append(m_receivedMessages, p)
             /\ delivered' = Append(delivered, p)
          \/ UNCHANGED <<m_receivedMessages, delivered>>
      BY <1>3 DEF ParseNext
    <3> HIDE DEF p
    <3>2. CASE UNCHANGED <<m_receivedMessages, delivered>>
      BY <3>2
    <3>3. CASE /\ p \in Payload
               /\ m_receivedMessages' = Append(m_receivedMessages, p)
               /\ delivered' = Append(delivered, p)
      BY <3>3, AppendProperties
    <3> QED BY <3>1, <3>2, <3>3
  <2>6. messagesReceived' \in NotParsing .. MaxReceive
    <3>1. messagesReceived' \in {NotParsing, messagesReceived + 1}
      BY <1>3 DEF ParseNext
    <3>2. messagesReceived \in NotParsing .. MaxReceive
      OBVIOUS
    <3> QED BY <2>1, <3>1, <3>2
  <2> QED BY <1>3, <2>4, <2>5, <2>6 DEF ParseNext, sendVars
<1>4. CASE ParseDone
  BY <1>4 DEF ParseDone, sendVars
<1>5. CASE ReceiverCloses
  BY <1>5 DEF ReceiverCloses, sendVars
<1> QED BY <1>1, <1>2, <1>3, <1>4, <1>5 DEF Parsing

LEMMA InitTypes == Init => TypeOK
<1> SUFFICES ASSUME Init PROVE TypeOK
  OBVIOUS
<1>1. /\ m_lastMessageByteSent \in Nat
      /\ messagesReceived \in NotParsing .. MaxReceive
      /\ partials \in 0 .. MaxPartial
  BY ReceiveAssumption, BoundsAssumption DEF Init, NotParsing
<1>2. /\ m_messagesToSend \in Seq(Payload)
      /\ m_serializedToSend \in Seq(Seq(Byte))
      /\ wire \in Seq(Byte) /\ m_receivedBuffer \in Seq(Byte)
      /\ m_receivedMessages \in Seq(Payload)
      /\ sent \in Seq(Payload) /\ delivered \in Seq(Payload)
  <2> HIDE DEF Byte
  <2> QED BY EmptySeq DEF Init
<1>3. /\ sender \in {"up", "pending", "down"}
      /\ receiver \in {"up", "pending", "down"}
      /\ sending \in BOOLEAN /\ disturbed \in BOOLEAN
  BY DEF Init
<1> QED BY <1>1, <1>2, <1>3 DEF TypeOK

LEMMA StepTypes == TypeOK /\ [Next]_vars => TypeOK'
<1> SUFFICES ASSUME TypeOK, [Next]_vars PROVE TypeOK'
  OBVIOUS
<1>1. CASE UNCHANGED vars
  BY <1>1 DEF TypeOK, vars, sendVars, receiveVars
<1>2. CASE \/ \E m \in Payload : SendTcpMessage(m)
           \/ SendUpdate \/ Sending \/ SenderCloses
  BY <1>2, SendingTypes
<1>3. CASE \/ \E n \in 0 .. Len(wire) : ReceiveUpdate(n)
           \/ ReceiveEnd \/ Parsing \/ ReceiverCloses
  BY <1>3, ReceivingTypes
<1> QED BY <1>1, <1>2, <1>3 DEF Next

(* The types of the stream; among them, that what the application is given *)
(* are payloads it registered, and that the parse loop's counter stays     *)
(* within its limit.                                                       *)
THEOREM StreamTypeCorrect == Spec => []TypeOK
  BY InitTypes, StepTypes, PTL DEF Spec

-----------------------------------------------------------------------------
(* The frames of messages: bytes, and those of two sequences of messages   *)
(* one after the other.                                                    *)
LEMMA FramesType ==
  ASSUME NEW ms \in Seq(Payload)
  PROVE  Frames(ms) \in Seq(Byte)
  BY SerializedType, FlattenType DEF Frames

LEMMA NoFrames == Frames(<<>>) = <<>>
<1>1. Len(Serialized(<<>>)) = 0 /\ Serialized(<<>>) \in Seq(Seq(Byte))
  <2>1. <<>> \in Seq(Payload)
    BY EmptySeq
  <2> QED BY <2>1, SerializedType, EmptySeq
<1>2. Serialized(<<>>) = <<>>
  <2> DEFINE x == Serialized(<<>>)  S == Seq(Byte)
  <2>1. x \in Seq(S) /\ Len(x) = 0
    BY <1>1
  <2> HIDE DEF x, S
  <2>2. x = <<>>
    BY <2>1, EmptySeq
  <2> QED BY <2>2 DEF x
<1> QED BY <1>2, FlattenEmpty DEF Frames

LEMMA OneFrame ==
  ASSUME NEW p \in Payload
  PROVE  Frames(<<p>>) = serializeForNetwork(p)
<1>1. Serialized(<<p>>) = <<serializeForNetwork(p)>>
  BY DEF Serialized
<1> QED BY <1>1, FrameIsBytes, FlattenOne DEF Frames

LEMMA FramesConcat ==
  ASSUME NEW ms \in Seq(Payload), NEW ns \in Seq(Payload)
  PROVE  Frames(ms \o ns) = Frames(ms) \o Frames(ns)
<1> DEFINE all == ms \o ns
           s == Serialized(all)  x == Serialized(ms)  y == Serialized(ns)
<1>1. all \in Seq(Payload) /\ Len(all) = Len(ms) + Len(ns)
  BY ConcatProperties
<1>2. /\ \A i \in 1 .. Len(ms) : all[i] = ms[i]
      /\ \A i \in 1 .. Len(ns) : all[Len(ms) + i] = ns[i]
  OBVIOUS
<1> HIDE DEF all
<1>3. /\ s \in Seq(Seq(Byte)) /\ x \in Seq(Seq(Byte)) /\ y \in Seq(Seq(Byte))
      /\ Len(s) = Len(all) /\ Len(x) = Len(ms) /\ Len(y) = Len(ns)
  BY <1>1, SerializedType
<1>4. /\ \A i \in 1 .. Len(ms) : s[i] = x[i]
      /\ \A i \in 1 .. Len(ns) : s[Len(ms) + i] = y[i]
  <2>1. ASSUME NEW i \in 1 .. Len(ms) PROVE s[i] = x[i]
    <3>1. i \in 1 .. Len(all)
      BY <1>1, LenProperties
    <3> QED BY <1>2, <3>1 DEF Serialized
  <2>2. ASSUME NEW i \in 1 .. Len(ns) PROVE s[Len(ms) + i] = y[i]
    <3>1. Len(ms) + i \in 1 .. Len(all)
      BY <1>1, LenProperties
    <3> QED BY <1>2, <3>1 DEF Serialized
  <2> QED BY <2>1, <2>2
<1> HIDE DEF s, x, y
<1>5. Joins(s, x, y)
  BY <1>1, <1>3, <1>4 DEF Joins
<1>6. s = x \o y
  BY <1>3, <1>5, JoinsIsConcat
<1> QED BY <1>3, <1>6, FlattenConcat DEF Frames, s, x, y, all

(* A header says how long its frame is, whatever follows it.               *)
LEMMA FrameHeader ==
  ASSUME NEW p \in Payload, NEW s \in Seq(Byte)
  PROVE  /\ Len(serializeForNetwork(p)) = HeaderSize + Len(p)
         /\ PayloadSize(serializeForNetwork(p) \o s) = Len(p)
         /\ PayloadOf(serializeForNetwork(p) \o s) = p
<1> DEFINE u == Uint32(Len(p))  f == serializeForNetwork(p)
<1>1. p \in Seq(Byte) /\ FitsUint32(Len(p)) /\ Len(p) \in Nat
  BY PayloadAssumption, LenProperties
<1>2. u \in Seq(Byte) /\ Len(u) = 4
  BY <1>1, Uint32Bytes
<1>3. f = u \o p /\ f \in Seq(Byte)
  BY FrameIsBytes DEF serializeForNetwork
<1>4. Joins(f, u, p)
  <2> HIDE DEF f, u
  <2> QED BY <1>1, <1>2, <1>3, JoinsIsConcat
<1>5. Len(f) = HeaderSize + Len(p)
  BY <1>2, <1>4 DEF Joins, HeaderSize
<1>6. PayloadSize(f \o s) = Len(p)
  <2>1. f \o s = u \o (p \o s)
    <3> HIDE DEF u, f
    <3> QED BY <1>1, <1>2, <1>3, BytesAssociative
  <2>2. p \o s \in Seq(Byte)
    BY <1>1, ConcatProperties
  <2> HIDE DEF f
  <2> QED BY <1>1, <2>1, <2>2, Uint32RoundTrip DEF PayloadSize
<1>7. PayloadOf(f \o s) = p
  <2>1. PayloadOf(f \o s) = SubSeq(f \o s, HeaderSize + 1, Len(f))
    BY <1>5, <1>6 DEF PayloadOf
  <2> HIDE DEF f, u
  <2>2. SubSeq(f \o s, 5, Len(f)) = p
    <3> DEFINE x == SubSeq(f \o s, 5, Len(f))
    <3>1. Len(f) = 4 + Len(p) /\ f \o s \in Seq(Byte)
          /\ Len(f \o s) = Len(f) + Len(s)
      BY <1>3, <1>5, ConcatProperties DEF HeaderSize
    <3>2. \A i \in 1 .. Len(p) : (f \o s)[4 + i] = p[i]
      <4>1. ASSUME NEW i \in 1 .. Len(p) PROVE (f \o s)[4 + i] = p[i]
        <5>1. 4 + i \in 1 .. Len(f)
          BY <1>1, <3>1
        <5>2. (f \o s)[4 + i] = f[4 + i]
          BY <1>3, <5>1, ConcatFirst
        <5>3. f[4 + i] = p[i]
          BY <1>2, <1>4 DEF Joins
        <5> QED BY <5>2, <5>3
      <4> QED BY <4>1
    <3>3. x \in Seq(Byte) /\ Len(x) = Len(p)
          /\ \A i \in 1 .. Len(p) : x[i] = (f \o s)[4 + i]
      <4> DEFINE t == f \o s
      <4>1. Len(f) \in Nat /\ Len(f) <= Len(t) /\ t \in Seq(Byte)
        BY <1>1, <3>1, LenProperties
      <4> HIDE DEF t, Byte
      <4>2. LET y == SubSeq(t, 5, Len(f))
            IN  y \in Seq(Byte) /\ Len(y) = Len(p)
                /\ \A i \in 1 .. Len(p) : y[i] = t[4 + i]
        BY <1>1, <3>1, <4>1
      <4> QED BY <4>2 DEF t
    <3> HIDE DEF x
    <3>4. x = p
      BY <1>1, <3>2, <3>3, SeqEqual
    <3> QED BY <3>4 DEF x
  <2> QED BY <2>1, <2>2 DEF HeaderSize
<1> QED BY <1>5, <1>6, <1>7

-----------------------------------------------------------------------------
(* What the sender has taken and the kernel not: the rest of the frames    *)
(* from the offset on, and what is queued.                                 *)
Unsent == LET frames == FlattenSeq(m_serializedToSend)
          IN  SubSeq(frames, m_lastMessageByteSent + 1, Len(frames))

StillToSend == Unsent \o Frames(m_messagesToSend)

(* The offset lies in the frame it is used on.                             *)
OffsetInFrame ==
  m_lastMessageByteSent # 0 =>
    /\ m_serializedToSend # <<>>
    /\ m_lastMessageByteSent < Len(m_serializedToSend[1])

LEMMA FirstFrame ==
  ASSUME TypeOK, m_serializedToSend # <<>>
  PROVE  /\ m_serializedToSend[1] \in Seq(Byte)
         /\ Tail(m_serializedToSend) \in Seq(Seq(Byte))
         /\ FlattenSeq(m_serializedToSend)
              = m_serializedToSend[1] \o FlattenSeq(Tail(m_serializedToSend))
<1> DEFINE S == Seq(Byte)  f == m_serializedToSend[1]
           r == Tail(m_serializedToSend)
<1>1. m_serializedToSend \in Seq(S)
  BY DEF TypeOK
<1> HIDE DEF S
<1>2. f \in S /\ r \in Seq(S) /\ m_serializedToSend = <<f>> \o r
  BY <1>1, FirstAndRest
<1> HIDE DEF f, r
<1>3. <<f>> \in Seq(S)
  BY <1>2
<1> USE DEF S
<1>4. FlattenSeq(m_serializedToSend) = FlattenSeq(<<f>>) \o FlattenSeq(r)
  BY <1>2, <1>3, FlattenConcat
<1> QED BY <1>2, <1>4, FlattenOne DEF f, r

LEMMA UnsentType ==
  ASSUME TypeOK, OffsetInFrame
  PROVE  /\ FlattenSeq(m_serializedToSend) \in Seq(Byte)
         /\ m_lastMessageByteSent \in 0 .. Len(FlattenSeq(m_serializedToSend))
         /\ Unsent \in Seq(Byte)
         /\ Frames(m_messagesToSend) \in Seq(Byte)
         /\ StillToSend \in Seq(Byte)
<1> DEFINE F == FlattenSeq(m_serializedToSend)
<1>1. F \in Seq(Byte) /\ Len(F) \in Nat
  BY FlattenType, LenProperties DEF TypeOK
<1>2. m_lastMessageByteSent \in 0 .. Len(F)
  <2>1. CASE m_lastMessageByteSent = 0
    BY <1>1, <2>1
  <2>2. CASE m_lastMessageByteSent # 0
    <3>1. /\ m_serializedToSend # <<>>
          /\ m_lastMessageByteSent < Len(m_serializedToSend[1])
      BY <2>2 DEF OffsetInFrame
    <3> DEFINE f == m_serializedToSend[1]
               g == FlattenSeq(Tail(m_serializedToSend))
    <3>2. f \in Seq(Byte) /\ g \in Seq(Byte) /\ F = f \o g
      BY <3>1, FirstFrame, FlattenType
    <3> HIDE DEF f, g, F
    <3>3. Len(F) = Len(f) + Len(g) /\ Len(f) \in Nat /\ Len(g) \in Nat
      BY <3>2, ConcatProperties, LenProperties
    <3>4. m_lastMessageByteSent \in Nat /\ m_lastMessageByteSent < Len(f)
      BY <3>1 DEF TypeOK, f
    <3> QED BY <3>3, <3>4
  <2> QED BY <2>1, <2>2
<1>3. Unsent \in Seq(Byte)
  BY <1>1, <1>2, SubSeqAt DEF Unsent
<1>4. Frames(m_messagesToSend) \in Seq(Byte)
  BY FramesType DEF TypeOK
<1> HIDE DEF F
<1>5. StillToSend \in Seq(Byte)
  BY <1>3, <1>4, ConcatProperties DEF StillToSend
<1> QED BY <1>1, <1>2, <1>3, <1>4, <1>5 DEF F

(* A message is queued behind what is still to send.                       *)
LEMMA QueueAddsFrame ==
  ASSUME TypeOK, OffsetInFrame, NEW m \in Payload, SendTcpMessage(m)
  PROVE  /\ OffsetInFrame'
         /\ StillToSend' = StillToSend \o serializeForNetwork(m)
<1> DEFINE q == m_messagesToSend  b == serializeForNetwork(m)
           U == Unsent  Q == Frames(q)
<1>1. m_messagesToSend' = Append(q, m) /\ Unsent' = U /\ OffsetInFrame'
  BY DEF SendTcpMessage, Unsent, OffsetInFrame
<1>2. Append(q, m) = q \o <<m>> /\ q \in Seq(Payload) /\ <<m>> \in Seq(Payload)
  BY AppendIsConcat DEF TypeOK
<1>3. Frames(Append(q, m)) = Q \o b
  BY <1>2, FramesConcat, OneFrame
<1>4. U \in Seq(Byte) /\ Q \in Seq(Byte) /\ b \in Seq(Byte)
  BY UnsentType, FrameIsBytes
<1> HIDE DEF U, Q, b
<1>5. (U \o Q) \o b = U \o (Q \o b)
  BY <1>4, BytesAssociative
<1>6. StillToSend = U \o Q /\ StillToSend' = Unsent' \o Frames(m_messagesToSend')
  BY DEF StillToSend, U, Q, Frames, Serialized
<1> QED BY <1>1, <1>3, <1>5, <1>6, Zenon DEF q, b

(* Making frames of what is queued changes nothing in it.                  *)
LEMMA UpdateKeepsBytes ==
  ASSUME TypeOK, OffsetInFrame, SendUpdate
  PROVE  OffsetInFrame' /\ StillToSend' = StillToSend
<1> DEFINE ss == m_serializedToSend  tt == Serialized(m_messagesToSend)
           F == FlattenSeq(ss)  Q == Frames(m_messagesToSend)
           n == m_lastMessageByteSent
<1>1. /\ m_serializedToSend' = ss \o tt /\ m_messagesToSend' = <<>>
      /\ m_lastMessageByteSent' = n
  BY DEF SendUpdate
<1>2. ss \in Seq(Seq(Byte)) /\ tt \in Seq(Seq(Byte))
  BY SerializedType DEF TypeOK
<1>3. FlattenSeq(ss \o tt) = F \o Q
  BY <1>2, FlattenConcat DEF Frames
<1>4. F \in Seq(Byte) /\ Q \in Seq(Byte) /\ n \in 0 .. Len(F)
      /\ Unsent \in Seq(Byte)
  BY UnsentType
<1> HIDE DEF F, Q
<1>5. SubSeq(F \o Q, n + 1, Len(F \o Q)) = SubSeq(F, n + 1, Len(F)) \o Q
  BY <1>4, DropFromConcat
<1>6. Unsent' = Unsent \o Q
  BY <1>1, <1>3, <1>5, Zenon DEF Unsent, F
<1>7. Frames(m_messagesToSend') = <<>>
  BY <1>1, NoFrames
<1>8. StillToSend = Unsent \o Q /\ StillToSend' = Unsent' \o <<>>
  BY <1>7 DEF StillToSend, Q, Frames, Serialized
<1>9. (Unsent \o Q) \o <<>> = Unsent \o Q
  BY <1>4, ConcatProperties, ConcatEmptySeq
<1>10. OffsetInFrame'
  <2> SUFFICES ASSUME n # 0
               PROVE  ss \o tt # <<>> /\ n < Len((ss \o tt)[1])
    BY <1>1 DEF OffsetInFrame
  <2> DEFINE S == Seq(Byte)
  <2> HIDE DEF S
  <2>1. ss # <<>> /\ n < Len(ss[1]) /\ ss \in Seq(S) /\ tt \in Seq(S)
    BY <1>2 DEF OffsetInFrame, S
  <2> HIDE DEF ss, tt
  <2>2. 1 \in 1 .. Len(ss)
    BY <2>1
  <2>3. (ss \o tt)[1] = ss[1] /\ ss \o tt # <<>>
    BY <2>1, <2>2, ConcatFirst
  <2> QED BY <2>1, <2>3
<1> QED BY <1>6, <1>8, <1>9, <1>10

(* As long as the offset belongs to its frame, what send takes is the next *)
(* of what is still to send, and it goes to the kernel.                    *)
LEMMA SendMovesBytes ==
  ASSUME TypeOK, OffsetInFrame, SendWhole \/ SendPartial, ~disturbed'
  PROVE  /\ OffsetInFrame'
         /\ \E x \in Seq(Byte) :
              wire' = wire \o x /\ StillToSend = x \o StillToSend'
         /\ StillToSend' \in Seq(Byte)
<1> DEFINE f == m_serializedToSend[1]  g == FlattenSeq(Tail(m_serializedToSend))
           F == FlattenSeq(m_serializedToSend)  Q == Frames(m_messagesToSend)
<1>1. m_serializedToSend # <<>> /\ m_lastMessageByteSent = 0
  BY DEF SendWhole, SendPartial, TypeOK
<1>2. f \in Seq(Byte) /\ g \in Seq(Byte) /\ F = f \o g
  BY <1>1, FirstFrame, FlattenType
<1>3. Rest = f
  <2>1. Rest = SubSeq(f, 1, Len(f))
    BY <1>1 DEF Rest
  <2> QED BY <1>2, <2>1, SubSeqFull
<1>4. F \in Seq(Byte) /\ Q \in Seq(Byte) /\ Unsent = F
  <2>1. F \in Seq(Byte) /\ Q \in Seq(Byte) /\ Unsent = SubSeq(F, 1, Len(F))
    BY <1>1, UnsentType DEF Unsent
  <2> QED BY <2>1, SubSeqFull
<1>5. Frames(m_messagesToSend)' = Q
  BY DEF SendWhole, SendPartial, Frames, Serialized
<1>6. StillToSend = F \o Q /\ StillToSend' = Unsent' \o Q
  BY <1>4, <1>5 DEF StillToSend
<1>7. ASSUME NEW x \in Seq(Byte), NEW u \in Seq(Byte)
      PROVE  (x \o u) \o Q = x \o (u \o Q)
  <2>1. Q \in Seq(Byte)
    BY <1>4
  <2> HIDE DEF Q
  <2> QED BY <2>1, BytesAssociative
<1>8. SUFFICES /\ OffsetInFrame'
               /\ \E x \in Seq(Byte) :
                    /\ wire' = wire \o x /\ F = x \o Unsent'
                    /\ Unsent' \in Seq(Byte)
  <2>1. Q \in Seq(Byte)
    BY <1>4
  <2>2. Unsent' \in Seq(Byte) => StillToSend' \in Seq(Byte)
    BY <1>6, <2>1, ConcatProperties
  <2> QED BY <1>6, <1>7, <2>2, Zenon
<1>9. CASE SendWhole
  <2>1. /\ wire' = wire \o f /\ m_lastMessageByteSent' = 0
        /\ m_serializedToSend' = Tail(m_serializedToSend)
    BY <1>1, <1>3, <1>9 DEF SendWhole
  <2>2. Unsent' = SubSeq(g, 1, Len(g))
    BY <2>1 DEF Unsent
  <2>3. Unsent' = g
    BY <1>2, <2>2, SubSeqFull
  <2>4. OffsetInFrame'
    BY <2>1 DEF OffsetInFrame
  <2> QED BY <1>2, <2>1, <2>3, <2>4
<1>10. CASE SendPartial
  <2>1. PICK n \in 1 .. Len(f) - 1 :
          /\ wire' = wire \o SubSeq(f, 1, n)
          /\ m_lastMessageByteSent' = n
    BY <1>3, <1>10 DEF SendPartial, OffsetAfter
  <2>2. m_serializedToSend' = m_serializedToSend
    BY <1>10 DEF SendPartial
  <2>3. n \in 0 .. Len(f) /\ n < Len(f)
    BY <1>2, LenProperties
  <2>4. OffsetInFrame'
    BY <1>1, <2>1, <2>2, <2>3 DEF OffsetInFrame
  <2>5. Unsent' = SubSeq(F, n + 1, Len(F))
    BY <2>1, <2>2 DEF Unsent
  <2>6. n \in 0 .. Len(F)
    <3> HIDE DEF f, g, F
    <3>1. Len(F) = Len(f) + Len(g) /\ Len(f) \in Nat /\ Len(g) \in Nat
      BY <1>2, ConcatProperties, LenProperties
    <3> QED BY <2>3, <3>1
  <2> DEFINE x == SubSeq(f, 1, n)  U == SubSeq(F, n + 1, Len(F))
  <2>7. x = SubSeq(F, 1, n)
    BY <1>2, <2>3, TakeFromConcat
  <2>8. F = x \o U
    BY <1>4, <2>6, <2>7, SplitAt
  <2>9. x \in Seq(Byte) /\ U \in Seq(Byte)
    <3>1. x \in Seq(Byte)
      BY <1>2, <2>3, SubSeqAt
    <3>2. U \in Seq(Byte)
      BY <1>4, <2>6, SubSeqAt
    <3> QED BY <3>1, <3>2
  <2> HIDE DEF F, f
  <2> QED BY <2>1, <2>4, <2>5, <2>8, <2>9
<1> QED BY <1>9, <1>10

-----------------------------------------------------------------------------
(* The messages not delivered yet are rest: their frames are what has      *)
(* arrived, what is on the way and what follows, which is all the sender   *)
(* still has to send as long as it is there.                               *)
OnTheWay(rest) ==
  \E after \in Seq(Byte) :
    /\ Frames(rest) = (m_receivedBuffer \o wire) \o after
    /\ sender # "down" => after = StillToSend

Undelivered(rest) ==
  /\ sent = delivered \o rest
  /\ receiver = "up" => OnTheWay(rest)

StreamInv ==
  /\ TypeOK
  /\ sending => sender = "up"
  /\ messagesReceived # NotParsing => receiver = "up"
  /\ ~disturbed => OffsetInFrame /\ \E rest \in Seq(Payload) : Undelivered(rest)

LEMMA InFlightType ==
  ASSUME TypeOK
  PROVE  /\ wire \in Seq(Byte) /\ m_receivedBuffer \in Seq(Byte)
         /\ m_receivedBuffer \o wire \in Seq(Byte)
<1>1. wire \in Seq(Byte) /\ m_receivedBuffer \in Seq(Byte)
  BY DEF TypeOK
<1> QED BY <1>1, ConcatProperties

LEMMA QueueAccounts ==
  ASSUME TypeOK, OffsetInFrame, NEW m \in Payload, SendTcpMessage(m),
         NEW rest \in Seq(Payload), Undelivered(rest)
  PROVE  rest \o <<m>> \in Seq(Payload) /\ Undelivered(rest \o <<m>>)'
<1> DEFINE b == serializeForNetwork(m)  one == <<m>>
<1>1. one \in Seq(Payload) /\ rest \o one \in Seq(Payload) /\ b \in Seq(Byte)
  BY FrameIsBytes, ConcatProperties
<1>2. sent' = delivered' \o (rest \o one)
  <2>1. sent' = Append(sent, m) /\ delivered' = delivered
    BY DEF SendTcpMessage, receiveVars
  <2>2. sent \in Seq(Payload) /\ delivered \in Seq(Payload)
    BY DEF TypeOK
  <2>3. Append(sent, m) = sent \o one
    BY <2>2, AppendIsConcat
  <2>4. sent = delivered \o rest
    BY DEF Undelivered
  <2> HIDE DEF one
  <2>5. (delivered \o rest) \o one = delivered \o (rest \o one)
    BY <1>1, <2>2, MessagesAssociative
  <2> QED BY <2>1, <2>3, <2>4, <2>5, Zenon
<1>3. ASSUME receiver' = "up" PROVE OnTheWay(rest \o one)'
  <2> DEFINE w == m_receivedBuffer \o wire
  <2>1. receiver = "up" /\ (m_receivedBuffer \o wire)' = w /\ sender' = sender
    BY <1>3 DEF SendTcpMessage, receiveVars
  <2>2. PICK after \in Seq(Byte) :
          Frames(rest) = w \o after /\ (sender # "down" => after = StillToSend)
    BY <2>1 DEF Undelivered, OnTheWay
  <2>3. Frames(rest \o one) = Frames(rest) \o b
    BY <1>1, FramesConcat, OneFrame
  <2>4. w \in Seq(Byte) /\ after \o b \in Seq(Byte)
    BY <1>1, InFlightType, ConcatProperties
  <2>5. StillToSend' = StillToSend \o b
    BY QueueAddsFrame
  <2> HIDE DEF w, b, one
  <2>6. (w \o after) \o b = w \o (after \o b)
    BY <1>1, <2>4, BytesAssociative, Zenon
  <2>7. Frames(rest \o one)' = w \o (after \o b)
    BY <2>2, <2>3, <2>6, Zenon
  <2>8. sender' # "down" => after \o b = StillToSend'
    BY <2>1, <2>2, <2>5, Zenon
  <2> QED BY <2>1, <2>4, <2>7, <2>8, Zenon DEF OnTheWay
<1> QED BY <1>1, <1>2, <1>3 DEF Undelivered

LEMMA SendAccounts ==
  ASSUME TypeOK, OffsetInFrame, SendWhole \/ SendPartial, ~disturbed',
         sender = "up", NEW rest \in Seq(Payload), Undelivered(rest)
  PROVE  Undelivered(rest)'
<1>1. sent' = sent /\ delivered' = delivered /\ receiver' = receiver
      /\ m_receivedBuffer' = m_receivedBuffer
  BY DEF SendWhole, SendPartial, receiveVars
<1>2. ASSUME receiver = "up" PROVE OnTheWay(rest)'
  <2> DEFINE w == m_receivedBuffer \o wire  rem == StillToSend'
  <2>1. Frames(rest) = w \o StillToSend
    BY <1>2 DEF Undelivered, OnTheWay
  <2>2. rem \in Seq(Byte)
    BY SendMovesBytes
  <2>3. PICK x \in Seq(Byte) : wire' = wire \o x /\ StillToSend = x \o rem
    BY SendMovesBytes
  <2>4. wire \in Seq(Byte) /\ m_receivedBuffer \in Seq(Byte) /\ w \in Seq(Byte)
    BY InFlightType
  <2> HIDE DEF rem
  <2>5. m_receivedBuffer \o (wire \o x) = w \o x
    BY <2>4, BytesAssociative, Zenon
  <2> HIDE DEF w
  <2>6. (w \o x) \o rem = w \o (x \o rem)
    <3>1. w \in Seq(Byte)
      BY <2>4
    <3> QED BY <2>2, <3>1, BytesAssociative
  <2>7. Frames(rest)' = (m_receivedBuffer \o wire)' \o rem
    BY <1>1, <2>1, <2>3, <2>5, <2>6, Zenon
  <2> QED BY <2>2, <2>7, Zenon DEF OnTheWay, rem
<1> QED BY <1>1, <1>2 DEF Undelivered

LEMMA ReceiveAccounts ==
  ASSUME TypeOK, NEW n \in 0 .. Len(wire), ReceiveUpdate(n),
         NEW rest \in Seq(Payload), Undelivered(rest)
  PROVE  Undelivered(rest)'
<1> DEFINE x == SubSeq(wire, 1, n)  y == SubSeq(wire, n + 1, Len(wire))
           buf == m_receivedBuffer
<1>1. /\ m_receivedBuffer' = buf \o x /\ wire' = y
      /\ sent' = sent /\ delivered' = delivered /\ receiver' = receiver
      /\ sender' = sender /\ StillToSend' = StillToSend
  BY DEF ReceiveUpdate, sendVars, StillToSend, Unsent, Frames, Serialized
<1>2. wire \in Seq(Byte) /\ buf \in Seq(Byte)
  BY InFlightType
<1>3. x \in Seq(Byte) /\ y \in Seq(Byte)
  BY <1>2, SubSeqAt
<1>4. x \o y = wire
  BY <1>2, SplitAt
<1> HIDE DEF x, y
<1>5. (buf \o x) \o y = buf \o (x \o y)
  BY <1>2, <1>3, BytesAssociative, Zenon
<1>6. (m_receivedBuffer \o wire)' = m_receivedBuffer \o wire
  BY <1>1, <1>4, <1>5, Zenon
<1> QED BY <1>1, <1>6 DEF Undelivered, OnTheWay

(* The size in a header is read from its four bytes alone.                 *)
LEMMA SizeOfFirst ==
  ASSUME NEW s \in Seq(Byte), NEW t \in Seq(Byte), Len(s) >= HeaderSize
  PROVE  PayloadSize(s \o t) = PayloadSize(s)
<1>1. 1 \in 1 .. Len(s) /\ 2 \in 1 .. Len(s) /\ 3 \in 1 .. Len(s) /\ 4 \in 1 .. Len(s)
  BY LenProperties DEF HeaderSize
<1>2. \A i \in 1 .. Len(s) : (s \o t)[i] = s[i]
  BY ConcatFirst
<1>3. /\ (s \o t)[1] = s[1] /\ (s \o t)[2] = s[2]
      /\ (s \o t)[3] = s[3] /\ (s \o t)[4] = s[4]
  BY <1>1, <1>2, Zenon
<1> QED BY <1>3 DEF PayloadSize, AsUint32

(* Of the messages rest, the buffer holds the frame of the first, r, and t *)
(* behind it has the frames of the others.                                 *)
NextParsed(buf, rest, t) ==
  \E p \in Payload, others \in Seq(Payload), r \in Seq(Byte) :
    /\ rest = <<p>> \o others
    /\ PayloadOf(buf) = p
    /\ r = SubSeq(buf, ConsumedBytes(buf) + 1, Len(buf))
    /\ Frames(others) = r \o t

(* A whole frame at the head of the buffer is that of the next message not *)
(* delivered: parsing it delivers this message and leaves the bytes of the *)
(* others.                                                                 *)
LEMMA ParseTakesNext ==
  ASSUME NEW buf \in Seq(Byte), NEW rest \in Seq(Payload), NEW t \in Seq(Byte),
         HasFrame(buf)
  PROVE  Frames(rest) = buf \o t => NextParsed(buf, rest, t)
<1>0. ASSUME NEW x \in Seq(Byte), NEW y \in Seq(Byte), Len(x) <= Len(buf)
      PROVE  x \o y = buf \o t => Between(Byte, x, y, buf, t)
  BY <1>0, LaterCut, Zenon
<1> SUFFICES ASSUME Frames(rest) = buf \o t PROVE NextParsed(buf, rest, t)
  OBVIOUS
<1>1. Len(buf) \in Nat /\ Len(buf) >= HeaderSize
      /\ Len(buf) >= HeaderSize + PayloadSize(buf)
  BY LenProperties DEF HasFrame
<1>2. rest # <<>>
  <2> SUFFICES ASSUME rest = <<>> PROVE FALSE
    OBVIOUS
  <2>1. buf \o t = <<>>
    BY NoFrames
  <2>2. Len(buf \o t) = Len(buf) + Len(t) /\ Len(t) \in Nat
    BY ConcatProperties, LenProperties
  <2> QED BY <1>1, <2>1, <2>2, EmptySeq DEF HeaderSize
<1> DEFINE p == rest[1]  others == Tail(rest)  one == <<p>>
           f == serializeForNetwork(p)  b == Frames(others)
<1>3. p \in Payload /\ others \in Seq(Payload) /\ rest = one \o others
  BY <1>2, FirstAndRest
<1>4. f \in Seq(Byte) /\ b \in Seq(Byte)
  BY <1>3, FrameIsBytes, FramesType
<1>5. Frames(rest) = f \o b
  <2>1. one \in Seq(Payload) /\ Frames(one) = f
    BY <1>3, OneFrame
  <2> HIDE DEF one, others, p, f
  <2> QED BY <1>3, <2>1, FramesConcat, Zenon
<1> HIDE DEF p, others, f, b
<1>6. f \o b = buf \o t
  BY <1>5
<1>7. PayloadSize(f \o b) = Len(p) /\ Len(f) = HeaderSize + Len(p)
  BY <1>3, <1>4, FrameHeader DEF f
<1>8. PayloadSize(buf) = Len(p)
  BY <1>1, <1>6, <1>7, SizeOfFirst, Zenon
<1>9. Len(f) <= Len(buf)
  BY <1>1, <1>7, <1>8
<1>10. PICK r \in Seq(Byte) : buf = f \o r /\ b = r \o t
  BY <1>0, <1>4, <1>6, <1>9, Zenon DEF Between
<1>11. PayloadOf(buf) = p
  BY <1>3, <1>10, FrameHeader DEF f
<1>12. SubSeq(buf, ConsumedBytes(buf) + 1, Len(buf)) = r
  <2>1. ConsumedBytes(buf) = Len(f)
    BY <1>7, <1>8 DEF ConsumedBytes
  <2>2. SubSeq(f \o r, Len(f) + 1, Len(f \o r)) = r
    BY <1>4, <1>10, DropFirst
  <2> QED BY <1>10, <2>1, <2>2, Zenon
<1> QED BY <1>3, <1>10, <1>11, <1>12, Zenon DEF NextParsed, b

LEMMA ParseAccounts ==
  ASSUME TypeOK, ParseNext, receiver = "up",
         NEW rest \in Seq(Payload), Undelivered(rest)
  PROVE  \E p \in Payload, others \in Seq(Payload) :
           /\ rest = <<p>> \o others
           /\ delivered' = Append(delivered, p)
           /\ Undelivered(others)'
<1> DEFINE buf == m_receivedBuffer  w == buf \o wire
<1>1. PICK after \in Seq(Byte) :
        Frames(rest) = w \o after /\ (sender # "down" => after = StillToSend)
  BY DEF Undelivered, OnTheWay
<1>2. buf \in Seq(Byte) /\ wire \in Seq(Byte) /\ wire \o after \in Seq(Byte)
  BY InFlightType, ConcatProperties
<1>3. HasFrame(buf)
  BY DEF ParseNext, MayParse
<1>4. (buf \o wire) \o after = buf \o (wire \o after)
  BY <1>2, BytesAssociative
<1>5. Frames(rest) = buf \o (wire \o after)
  BY <1>1, <1>4, Zenon
<1> HIDE DEF buf
<1>6. PICK p \in Payload, others \in Seq(Payload), r \in Seq(Byte) :
        /\ rest = <<p>> \o others
        /\ PayloadOf(buf) = p
        /\ r = SubSeq(buf, ConsumedBytes(buf) + 1, Len(buf))
        /\ Frames(others) = r \o (wire \o after)
  <2> DEFINE t == wire \o after
  <2>1. t \in Seq(Byte)
    BY <1>2
  <2> HIDE DEF t
  <2>2. NextParsed(buf, rest, t)
    BY <1>2, <1>3, <1>5, <2>1, ParseTakesNext, Zenon DEF t
  <2> QED BY <2>2, Zenon DEF NextParsed, t
<1>7. /\ delivered' = Append(delivered, p) /\ m_receivedBuffer' = r
      /\ wire' = wire /\ sent' = sent /\ receiver' = receiver
      /\ sender' = sender /\ StillToSend' = StillToSend
  BY <1>6 DEF ParseNext, sendVars, buf, StillToSend, Unsent, Frames, Serialized
<1>8. (r \o wire) \o after = r \o (wire \o after)
  BY <1>2, BytesAssociative
<1>9. OnTheWay(others)'
  <2>1. Frames(others)' = (m_receivedBuffer \o wire)' \o after
    BY <1>6, <1>7, <1>8, Zenon
  <2> QED BY <1>1, <1>7, <2>1, Zenon DEF OnTheWay
<1>10. sent' = delivered' \o others
  <2> DEFINE one == <<p>>
  <2>1. delivered \in Seq(Payload) /\ one \in Seq(Payload)
    BY DEF TypeOK
  <2>2. Append(delivered, p) = delivered \o one
    BY <2>1, AppendIsConcat
  <2>3. sent = delivered \o (one \o others)
    BY <1>6 DEF Undelivered
  <2> HIDE DEF one
  <2>4. (delivered \o one) \o others = delivered \o (one \o others)
    BY <2>1, MessagesAssociative
  <2> QED BY <1>7, <2>2, <2>3, <2>4, Zenon
<1> QED BY <1>6, <1>7, <1>9, <1>10, Zenon DEF Undelivered

(* The steps that leave the account as it is.                              *)
LEMMA OtherAccounts ==
  ASSUME TypeOK, OffsetInFrame, sending => sender = "up",
         NEW rest \in Seq(Payload), Undelivered(rest),
         \/ SendUpdate \/ SendFails \/ SendDone \/ SenderCloses
         \/ ReceiveEnd \/ ParseDone \/ ReceiverCloses \/ UNCHANGED vars
  PROVE  OffsetInFrame' /\ Undelivered(rest)'
<1> USE DEF sendVars, receiveVars
<1>1. sent' = sent /\ delivered' = delivered
  BY DEF SendUpdate, SendFails, SendDone, SenderCloses, ReceiveEnd, ParseDone,
         ReceiverCloses, vars
<1>2. ASSUME StillToSend' = StillToSend, OffsetInFrame', wire' = wire,
             m_receivedBuffer' = m_receivedBuffer, receiver' = receiver,
             sender' # "down" => sender # "down"
      PROVE  OffsetInFrame' /\ Undelivered(rest)'
  BY <1>1, <1>2 DEF Undelivered, OnTheWay
<1>3. CASE SendUpdate
  <2>1. StillToSend' = StillToSend /\ OffsetInFrame'
    BY <1>3, UpdateKeepsBytes
  <2> QED BY <1>2, <1>3, <2>1 DEF SendUpdate
<1>4. CASE SendFails \/ SendDone \/ ParseDone \/ UNCHANGED vars
  <2>1. StillToSend' = StillToSend /\ OffsetInFrame'
    BY <1>4 DEF SendFails, SendDone, ParseDone, vars, StillToSend, Unsent,
                Frames, Serialized, OffsetInFrame
  <2>2. /\ wire' = wire /\ m_receivedBuffer' = m_receivedBuffer
        /\ receiver' = receiver
    BY <1>4 DEF SendFails, SendDone, ParseDone, vars
  <2>3. sender' # "down" => sender # "down"
    BY <1>4 DEF SendFails, SendDone, ParseDone, vars
  <2> QED BY <1>2, <2>1, <2>2, <2>3
<1>5. CASE SenderCloses
  <2>1. /\ m_lastMessageByteSent' = 0 /\ sender' = "down" /\ wire' = wire
        /\ m_receivedBuffer' = m_receivedBuffer /\ receiver' = receiver
    BY <1>5 DEF SenderCloses
  <2> QED BY <1>1, <2>1 DEF OffsetInFrame, Undelivered, OnTheWay
<1>6. CASE ReceiveEnd \/ ReceiverCloses
  <2>1. receiver' # "up" /\ OffsetInFrame'
    BY <1>6 DEF ReceiveEnd, ReceiverCloses, OffsetInFrame
  <2> QED BY <1>1, <2>1 DEF Undelivered
<1> QED BY <1>3, <1>4, <1>5, <1>6

(* A step that delivers, with the account before and after it.             *)
LEMMA StepAccounts ==
  ASSUME StreamInv, [Next]_vars, ~disturbed'
  PROVE  OffsetInFrame' /\ \E rest \in Seq(Payload) : Undelivered(rest)'
<1>1. ~disturbed
  BY DEF Next, vars, sendVars, SendTcpMessage, SendUpdate, Sending, SendWhole,
         SendPartial, SendFails, SendDone, SenderCloses, ReceiveUpdate,
         ReceiveEnd, Parsing, ParseNext, ParseDone, ReceiverCloses
<1>2. TypeOK /\ OffsetInFrame /\ (sending => sender = "up")
      /\ (messagesReceived # NotParsing => receiver = "up")
  BY <1>1 DEF StreamInv
<1>3. PICK rest \in Seq(Payload) : Undelivered(rest)
  BY <1>1 DEF StreamInv
<1>4. ASSUME NEW m \in Payload, SendTcpMessage(m)
      PROVE  OffsetInFrame' /\ \E r \in Seq(Payload) : Undelivered(r)'
  <2>1. OffsetInFrame'
    BY <1>2, <1>4, QueueAddsFrame
  <2> QED BY <1>2, <1>3, <1>4, <2>1, QueueAccounts
<1>5. CASE SendWhole \/ SendPartial
  <2>1. sender = "up"
    BY <1>2, <1>5 DEF SendWhole, SendPartial
  <2>2. OffsetInFrame'
    BY <1>2, <1>5, SendMovesBytes
  <2>3. Undelivered(rest)'
    BY <1>2, <1>3, <1>5, <2>1, SendAccounts
  <2> QED BY <2>2, <2>3
<1>6. ASSUME NEW n \in 0 .. Len(wire), ReceiveUpdate(n)
      PROVE  OffsetInFrame' /\ \E r \in Seq(Payload) : Undelivered(r)'
  <2>1. OffsetInFrame'
    BY <1>2, <1>6 DEF ReceiveUpdate, sendVars, OffsetInFrame
  <2>2. Undelivered(rest)'
    BY <1>2, <1>3, <1>6, ReceiveAccounts
  <2> QED BY <2>1, <2>2
<1>7. CASE ParseNext
  <2>1. OffsetInFrame'
    BY <1>2, <1>7 DEF ParseNext, sendVars, OffsetInFrame
  <2>2. receiver = "up"
    BY <1>2, <1>7 DEF ParseNext
  <2> QED BY <1>2, <1>3, <1>7, <2>1, <2>2, ParseAccounts
<1>8. CASE \/ SendUpdate \/ SendFails \/ SendDone \/ SenderCloses
           \/ ReceiveEnd \/ ParseDone \/ ReceiverCloses \/ UNCHANGED vars
  <2>1. OffsetInFrame' /\ Undelivered(rest)'
    BY <1>2, <1>3, <1>8, OtherAccounts
  <2> QED BY <2>1
<1> QED BY <1>4, <1>5, <1>6, <1>7, <1>8 DEF Next, Sending, Parsing

LEMMA StreamInvariant == Spec => []StreamInv
<1>1. Init => StreamInv
  <2> SUFFICES ASSUME Init, TypeOK PROVE StreamInv
    BY InitTypes
  <2>1. /\ sent = <<>> /\ delivered = <<>> /\ m_messagesToSend = <<>>
        /\ wire = <<>> /\ m_receivedBuffer = <<>> /\ m_serializedToSend = <<>>
        /\ m_lastMessageByteSent = 0 /\ sender = "up" /\ receiver = "up"
        /\ sending = FALSE /\ messagesReceived = NotParsing
    BY DEF Init
  <2>2. <<>> \in Seq(Payload) /\ <<>> \in Seq(Byte) /\ <<>> \o <<>> = <<>>
    BY EmptySeq, ConcatEmptySeq
  <2>3. StillToSend = <<>>
    <3>1. Frames(m_messagesToSend) = <<>> /\ FlattenSeq(m_serializedToSend) = <<>>
      BY <2>1, NoFrames, FlattenEmpty
    <3>2. SubSeq(<<>>, 1, 0) = <<>> /\ Len(<<>>) = 0
      BY <2>2, SubSeqFull, EmptySeq
    <3>3. Unsent = <<>>
      BY <2>1, <3>1, <3>2 DEF Unsent
    <3> QED BY <2>2, <3>1, <3>3 DEF StillToSend
  <2>4. OnTheWay(<<>>)
    <3>1. Frames(<<>>) = (m_receivedBuffer \o wire) \o <<>>
      BY <2>1, <2>2, NoFrames, Zenon
    <3> QED BY <2>2, <2>3, <3>1, Zenon DEF OnTheWay
  <2>5. Undelivered(<<>>)
    BY <2>1, <2>2, <2>4, Zenon DEF Undelivered
  <2> QED BY <2>1, <2>2, <2>5 DEF StreamInv, OffsetInFrame
<1>2. StreamInv /\ [Next]_vars => StreamInv'
  <2> SUFFICES ASSUME StreamInv, [Next]_vars PROVE StreamInv'
    OBVIOUS
  <2>1. TypeOK'
    BY StepTypes DEF StreamInv
  <2>2. /\ (sending => sender = "up")'
        /\ (messagesReceived # NotParsing => receiver = "up")'
    BY DEF StreamInv, Next, vars, sendVars, receiveVars, SendTcpMessage,
         SendUpdate, Sending, SendWhole, SendPartial, SendFails, SendDone,
         SenderCloses, ReceiveUpdate, ReceiveEnd, Parsing, ParseNext, ParseDone,
         ReceiverCloses
  <2>3. (~disturbed => OffsetInFrame
           /\ \E rest \in Seq(Payload) : Undelivered(rest))'
    BY StepAccounts
  <2> QED BY <2>1, <2>2, <2>3 DEF StreamInv
<1> QED BY <1>1, <1>2, PTL DEF Spec

(* Until the offset is used on a frame it does not belong to, no byte and  *)
(* no message is lost, repeated or reordered, however send and recv cut    *)
(* the stream and wherever the parse loop stops.                           *)
THEOREM StreamStaysIntact == Spec => []StreamIntact
<1>1. StreamInv => StreamIntact
  <2> SUFFICES ASSUME StreamInv, ~disturbed, sender # "down", receiver = "up"
               PROVE  Frames(sent) = Frames(delivered) \o m_receivedBuffer \o wire
                                       \o Unsent \o Frames(m_messagesToSend)
    BY DEF StreamIntact, Unsent
  <2>1. PICK rest \in Seq(Payload) :
          sent = delivered \o rest
          /\ Frames(rest) = (m_receivedBuffer \o wire) \o StillToSend
    BY DEF StreamInv, Undelivered, OnTheWay
  <2> DEFINE D == Frames(delivered)  Q == Frames(m_messagesToSend)  U == Unsent
             buf == m_receivedBuffer
  <2>2. delivered \in Seq(Payload) /\ D \in Seq(Byte)
    BY FramesType DEF StreamInv, TypeOK
  <2>3. Q \in Seq(Byte) /\ U \in Seq(Byte)
    BY UnsentType DEF StreamInv
  <2>4. buf \in Seq(Byte) /\ wire \in Seq(Byte)
    BY InFlightType DEF StreamInv
  <2>5. Frames(sent) = D \o ((buf \o wire) \o (U \o Q))
    BY <2>1, <2>2, FramesConcat DEF StillToSend
  <2> HIDE DEF D, Q, U, buf
  <2>6. D \o ((buf \o wire) \o (U \o Q)) = (((D \o buf) \o wire) \o U) \o Q
    <3> DEFINE bw == buf \o wire  uq == U \o Q  db == D \o buf  dbw == db \o wire
    <3>1. bw \in Seq(Byte) /\ uq \in Seq(Byte) /\ db \in Seq(Byte)
      BY <2>2, <2>3, <2>4, ConcatProperties
    <3>2. db \o wire = D \o bw
      BY <2>2, <2>4, BytesAssociative
    <3>3. dbw \in Seq(Byte)
      <4> HIDE DEF db
      <4> QED BY <2>4, <3>1, ConcatProperties
    <3>4. dbw \o uq = D \o (bw \o uq)
      <4> HIDE DEF bw, uq
      <4>1. (D \o bw) \o uq = D \o (bw \o uq)
        BY <2>2, <3>1, BytesAssociative
      <4> QED BY <3>2, <4>1, Zenon
    <3>5. (dbw \o U) \o Q = dbw \o uq
      <4> HIDE DEF dbw
      <4> QED BY <2>3, <3>3, BytesAssociative
    <3> QED BY <3>4, <3>5, Zenon
  <2> QED BY <2>5, <2>6, Zenon DEF D, Q, U, buf
<1> QED BY <1>1, StreamInvariant, PTL

LEMMA FirstOfConcat ==
  ASSUME NEW p \in Payload, NEW others \in Seq(Payload)
  PROVE  LET s == <<p>> \o others
         IN  s \in Seq(Payload) /\ Len(s) \in Nat \ {0} /\ s[1] = p
  OBVIOUS

LEMMA ParseDelivers ==
  ASSUME StreamInv, ParseNext, ~disturbed'
  PROVE  Channel!Deliver
<1>1. TypeOK /\ ~disturbed /\ receiver = "up"
  BY DEF StreamInv, ParseNext, sendVars
<1>2. PICK rest \in Seq(Payload) : Undelivered(rest)
  BY <1>1 DEF StreamInv
<1>3. PICK p \in Payload, others \in Seq(Payload) :
        rest = <<p>> \o others /\ delivered' = Append(delivered, p)
  BY <1>1, <1>2, ParseAccounts
<1> DEFINE one == <<p>>  n == Len(delivered)
<1>4. delivered \in Seq(Payload) /\ one \in Seq(Payload) /\ Len(one) = 1
      /\ one[1] = p
  BY <1>1 DEF TypeOK
<1>5. sent = delivered \o (one \o others)
  BY <1>2, <1>3 DEF Undelivered
<1> HIDE DEF one
<1>6. /\ one \o others \in Seq(Payload)
      /\ Len(one \o others) \in Nat \ {0}
      /\ (one \o others)[1] = p
  BY FirstOfConcat DEF one
<1> DEFINE r == one \o others
<1> HIDE DEF r
<1>7. /\ r \in Seq(Payload) /\ Len(r) \in Nat \ {0} /\ r[1] = p
      /\ sent = delivered \o r
  BY <1>5, <1>6 DEF r
<1>8. sent \in Seq(Payload) /\ n \in Nat
  BY <1>1, LenProperties DEF TypeOK
<1>9. Joins(sent, delivered, r)
  BY <1>4, <1>7, <1>8, JoinsIsConcat
<1>10. Len(delivered) < Len(sent) /\ sent[Len(delivered) + 1] = p
  BY <1>7, <1>8, <1>9 DEF Joins
<1>11. sent' = sent
  BY DEF ParseNext, sendVars
<1> QED BY <1>3, <1>10, <1>11, Zenon DEF Channel!Deliver

(* One direction of a connection implements the channel: every step queues *)
(* a message, delivers the next of those queued, or does not show, until   *)
(* the offset is used on a frame it does not belong to.                    *)
THEOREM StreamImplementsChannel == Spec => ImplementsChannel
<1>1. Init => Channel!Init
  BY DEF Init, Channel!Init
<1>2. StreamInv /\ [Next]_vars => [Channel!Next \/ disturbed']_<<sent, delivered>>
  <2> SUFFICES ASSUME StreamInv, [Next]_vars, ~disturbed'
               PROVE  Channel!Next \/ UNCHANGED <<sent, delivered>>
    OBVIOUS
  <2>1. ASSUME NEW m \in Payload, SendTcpMessage(m) PROVE Channel!Next
    BY <2>1 DEF SendTcpMessage, receiveVars, Channel!Next, Channel!Queue
  <2>2. CASE ParseNext
    BY <2>2, ParseDelivers DEF Channel!Next
  <2>3. ASSUME NEW n \in 0 .. Len(wire), ReceiveUpdate(n)
        PROVE  UNCHANGED <<sent, delivered>>
    BY <2>3 DEF ReceiveUpdate, sendVars
  <2>4. CASE \/ SendUpdate \/ SendWhole \/ SendPartial \/ SendFails \/ SendDone
             \/ SenderCloses \/ ReceiveEnd \/ ParseDone \/ ReceiverCloses
             \/ UNCHANGED vars
    BY <2>4 DEF SendUpdate, SendWhole, SendPartial, SendFails, SendDone,
         SenderCloses, ReceiveEnd, ParseDone, ReceiverCloses, vars, sendVars,
         receiveVars
  <2> QED BY <2>1, <2>2, <2>3, <2>4 DEF Next, Sending, Parsing
<1> QED BY <1>1, <1>2, StreamInvariant, PTL DEF Spec, ImplementsChannel
====
