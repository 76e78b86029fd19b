-------------------------- MODULE TcpMessageStream --------------------------
(***************************************************************************)
(* One direction of a connection between two engines: the messages an      *)
(* application queues on the sending side, the frames SendTcpMessageSystem *)
(* makes of them, the bytes in the kernel, and the buffer out of which     *)
(* ReceiveTcpMessageSystem cuts them again.                                *)
(*                                                                         *)
(* A frame is a header of four bytes, the size of the payload, and the     *)
(* payload.  A payload is opaque here: deserialize knows it or throws.     *)
(***************************************************************************)
EXTENDS ByteEncoding, SequencesExt

CONSTANTS
  Payload,        \* payloads of the messages both programs registered
  MaxReceive,     \* TRA_MAX_TCP_MESSAGES_TO_RECEIVE_PAR_TICK (32 in the code)
  MaxSent,        \* bound on the messages queued in a behaviour
  MaxPartial      \* bound on the sends of which the kernel takes a part or
                  \* nothing; 0: the kernel always has room

ASSUME PayloadAssumption ==
  \A p \in Payload : p \in Seq(Byte) /\ FitsUint32(Len(p))
ASSUME ReceiveAssumption == MaxReceive \in Nat \ {0}
ASSUME BoundsAssumption == MaxSent \in Nat /\ MaxPartial \in Nat

VARIABLES
  m_messagesToSend,
  m_serializedToSend,
  m_lastMessageByteSent,
  sender,            \* "up", "pending" a disconnection, or "down"
  sending,           \* the send system is in its loop over the frames
  wire,              \* bytes the sender's kernel took and recv has not returned
  m_receivedBuffer,
  m_receivedMessages,
  receiver,          \* as sender
  messagesReceived,  \* the receive loop's counter, or NotParsing
  sent,              \* history: all messages queued
  partials,          \* history: how often the kernel did not take all
  delivered,         \* history: all messages handed to the application
  disturbed          \* history: the offset was kept from one frame to the
                     \* next, or counted from the wrong byte

sendVars == <<m_messagesToSend, m_serializedToSend, m_lastMessageByteSent,
              sender, sending, sent, partials, disturbed>>
receiveVars == <<m_receivedBuffer, m_receivedMessages, receiver,
                 messagesReceived, delivered>>
vars == <<sendVars, wire, receiveVars>>

NotParsing == -1

-----------------------------------------------------------------------------
HeaderSize == 4   \* sizeof(MessageHeader)

PayloadSize(b) == AsUint32(b)

(* Mutant: the size counts the header.                                     *)
serializeForNetwork_CountsHeader(p) == Uint32(HeaderSize + Len(p)) \o p

serializeForNetwork(p) == Uint32(Len(p)) \o p

(* getPayloadFromNetworkBuffer: whether a whole frame is there, how long   *)
(* it is, and its payload.                                                 *)
HasFrame(b) ==
  /\ Len(b) >= HeaderSize
  /\ Len(b) >= HeaderSize + PayloadSize(b)

ConsumedBytes(b) == HeaderSize + PayloadSize(b)

PayloadOf(b) == SubSeq(b, HeaderSize + 1, HeaderSize + PayloadSize(b))

(* The frames of a sequence of messages, and their bytes.                  *)
Serialized(ms) == [i \in 1 .. Len(ms) |-> serializeForNetwork(ms[i])]

Frames(ms) == FlattenSeq(Serialized(ms))

-----------------------------------------------------------------------------
Init ==
  /\ m_messagesToSend = <<>>
  /\ m_serializedToSend = <<>>
  /\ m_lastMessageByteSent = 0
  /\ sender = "up"
  /\ sending = FALSE
  /\ wire = <<>>
  /\ m_receivedBuffer = <<>>
  /\ m_receivedMessages = <<>>
  /\ receiver = "up"
  /\ messagesReceived = NotParsing
  /\ sent = <<>>
  /\ delivered = <<>>
  /\ partials = 0
  /\ disturbed = FALSE

-----------------------------------------------------------------------------
(* The sending side.                                                       *)

(* sendTcpMessage: Success as long as the component is there.              *)
SendTcpMessage(m) ==
  /\ ~sending
  /\ sender # "down"
  /\ Len(sent) < MaxSent
  /\ m_messagesToSend' = Append(m_messagesToSend, m)
  /\ sent' = Append(sent, m)
  /\ UNCHANGED <<m_serializedToSend, m_lastMessageByteSent, sender, sending,
                 partials, disturbed, wire, receiveVars>>

(* Mutant: the queue is not cleared.                                       *)
SendUpdate_KeepsQueue ==
  /\ ~sending
  /\ sender = "up"
  /\ m_serializedToSend' = m_serializedToSend \o Serialized(m_messagesToSend)
  /\ sending' = TRUE
  /\ UNCHANGED <<m_messagesToSend, m_lastMessageByteSent, sender, sent, partials,
                 disturbed, wire, receiveVars>>

(* The send system visits the entity: what is queued becomes frames.       *)
SendUpdate ==
  /\ ~sending
  /\ sender = "up"
  /\ m_serializedToSend' = m_serializedToSend \o Serialized(m_messagesToSend)
  /\ m_messagesToSend' = <<>>
  /\ sending' = TRUE
  /\ UNCHANGED <<m_lastMessageByteSent, sender, sent, partials, disturbed,
                 wire, receiveVars>>

(* What is left to send of the first frame, as the code computes it.       *)
Rest == SubSeq(m_serializedToSend[1], m_lastMessageByteSent + 1,
               Len(m_serializedToSend[1]))

(* send takes all that is offered; the offset is not touched.              *)
SendWhole ==
  /\ sending
  /\ m_serializedToSend # <<>>
  /\ Rest # <<>>
  /\ wire' = wire \o Rest
  /\ m_serializedToSend' = Tail(m_serializedToSend)
  /\ disturbed' = (disturbed \/ m_lastMessageByteSent # 0)
  /\ UNCHANGED <<m_messagesToSend, m_lastMessageByteSent, sender, sending,
                 sent, partials, receiveVars>>

(* Mutant: the count of another call.                                      *)
OffsetAfter_Zero(n) == 0

(* The offset after a send that took n bytes.                              *)
OffsetAfter(n) == n

(* send takes less: SocketSendPartial, the offset becomes what this call   *)
(* sent, and the entity is left until the next update.                     *)
SendPartial ==
  /\ sending
  /\ partials < MaxPartial
  /\ m_serializedToSend # <<>>
  /\ \E n \in 1 .. Len(Rest) - 1 :
       /\ wire' = wire \o SubSeq(Rest, 1, n)
       /\ m_lastMessageByteSent' = OffsetAfter(n)
  /\ partials' = partials + 1
  /\ disturbed' = (disturbed \/ m_lastMessageByteSent # 0)
  /\ sending' = FALSE
  /\ UNCHANGED <<m_messagesToSend, m_serializedToSend, sender, sent, receiveVars>>

(* sendData returns an error: the peer has gone, the kernel takes nothing, *)
(* or the offset has passed the end of the frame (a size of zero, or one   *)
(* that wraps round size_t and is too large).                              *)
SendFails ==
  /\ sending
  /\ m_serializedToSend # <<>>
  /\ receiver = "down" \/ partials < MaxPartial \/ Rest = <<>>
  /\ sender' = "pending"
  /\ sending' = FALSE
  /\ UNCHANGED <<m_messagesToSend, m_serializedToSend, m_lastMessageByteSent,
                 sent, partials, disturbed, wire, receiveVars>>

SendDone ==
  /\ sending
  /\ m_serializedToSend = <<>>
  /\ sending' = FALSE
  /\ UNCHANGED <<m_messagesToSend, m_serializedToSend, m_lastMessageByteSent,
                 sender, sent, partials, disturbed, wire, receiveVars>>

(* The sending side closes, on a pending disconnection or because its      *)
(* application disconnects: the components go, the kernel sends on what it *)
(* has taken.                                                              *)
SenderCloses ==
  /\ ~sending
  /\ sender # "down"
  /\ sender' = "down"
  /\ m_messagesToSend' = <<>>
  /\ m_serializedToSend' = <<>>
  /\ m_lastMessageByteSent' = 0
  /\ UNCHANGED <<sending, sent, partials, disturbed, wire, receiveVars>>

-----------------------------------------------------------------------------
(* The receiving side.                                                     *)

(* The receive system visits the entity and recv returns the n bytes that  *)
(* have arrived.  What the last update delivered is dropped.           *)
ReceiveUpdate(n) ==
  /\ receiver = "up"
  /\ messagesReceived = NotParsing
  /\ m_receivedBuffer' = m_receivedBuffer \o SubSeq(wire, 1, n)
  /\ wire' = SubSeq(wire, n + 1, Len(wire))
  /\ m_receivedMessages' = <<>>
  /\ messagesReceived' = 0
  /\ UNCHANGED <<receiver, delivered, sendVars>>

(* recv reaches the end of stream: whatever it read before is not kept.    *)
ReceiveEnd ==
  /\ receiver = "up"
  /\ messagesReceived = NotParsing
  /\ sender = "down"
  /\ receiver' = "pending"
  /\ wire' = <<>>
  /\ m_receivedMessages' = <<>>
  /\ UNCHANGED <<m_receivedBuffer, messagesReceived, delivered, sendVars>>

(* Mutant: the limit is off by one.                                        *)
MayParse_OneMore ==
  messagesReceived <= MaxReceive /\ HasFrame(m_receivedBuffer)

(* The receive loop takes another message.                                 *)
MayParse == messagesReceived < MaxReceive /\ HasFrame(m_receivedBuffer)

(* One turn of the parse loop.  An unknown payload throws out of           *)
(* beginUpdate, its bytes consumed.                                        *)
ParseNext ==
  /\ messagesReceived # NotParsing
  /\ MayParse
  /\ LET p == PayloadOf(m_receivedBuffer)
     IN  \/ /\ p \in Payload
            /\ m_receivedMessages' = Append(m_receivedMessages, p)
            /\ delivered' = Append(delivered, p)
            /\ messagesReceived' = messagesReceived + 1
         \/ /\ p \notin Payload
            /\ messagesReceived' = NotParsing
            /\ UNCHANGED <<m_receivedMessages, delivered>>
  /\ m_receivedBuffer' = SubSeq(m_receivedBuffer,
                                ConsumedBytes(m_receivedBuffer) + 1,
                                Len(m_receivedBuffer))
  /\ UNCHANGED <<receiver, wire, sendVars>>

ParseDone ==
  /\ messagesReceived # NotParsing
  /\ ~MayParse
  /\ messagesReceived' = NotParsing
  /\ UNCHANGED <<m_receivedBuffer, m_receivedMessages, receiver, delivered,
                 wire, sendVars>>

(* The receiving side closes.                                              *)
ReceiverCloses ==
  /\ receiver # "down"
  /\ messagesReceived = NotParsing
  /\ receiver' = "down"
  /\ wire' = <<>>
  /\ m_receivedBuffer' = <<>>
  /\ m_receivedMessages' = <<>>
  /\ UNCHANGED <<messagesReceived, delivered, sendVars>>

-----------------------------------------------------------------------------
Sending == SendWhole \/ SendPartial \/ SendFails \/ SendDone
Parsing == ParseNext \/ ParseDone

Next ==
  \/ \E m \in Payload : SendTcpMessage(m)
  \/ SendUpdate
  \/ Sending
  \/ SenderCloses
  \/ \E n \in 0 .. Len(wire) : ReceiveUpdate(n)
  \/ ReceiveEnd
  \/ Parsing
  \/ ReceiverCloses

Spec == Init /\ [][Next]_vars

(* Both applications keep calling beginUpdate and endUpdate, a system runs *)
(* to its end, and bytes that were sent arrive.                            *)
Fairness ==
  /\ WF_vars(Sending)
  /\ WF_vars(Parsing)
  /\ WF_vars(SendUpdate)
  /\ WF_vars(ReceiveUpdate(0))
  /\ SF_vars(\E n \in 1 .. Len(wire) : ReceiveUpdate(n))

FairSpec == Spec /\ Fairness

-----------------------------------------------------------------------------
(* Every variable has its type.                                            *)
TypeOK ==
  /\ m_messagesToSend \in Seq(Payload)
  /\ m_serializedToSend \in Seq(Seq(Byte))
  /\ m_lastMessageByteSent \in Nat
  /\ sender \in {"up", "pending", "down"}
  /\ sending \in BOOLEAN
  /\ wire \in Seq(Byte)
  /\ m_receivedBuffer \in Seq(Byte)
  /\ m_receivedMessages \in Seq(Payload)
  /\ receiver \in {"up", "pending", "down"}
  /\ messagesReceived \in NotParsing .. MaxReceive
  /\ sent \in Seq(Payload)
  /\ delivered \in Seq(Payload)
  /\ partials \in 0 .. MaxPartial
  /\ disturbed \in BOOLEAN

(* While the connection is up, the messages delivered, the bytes on their  *)
(* way and what is still to send make up exactly what was queued: nothing  *)
(* is lost, repeated or reordered.  A frame sent in two parts is resumed   *)
(* where it stopped.  The claim ends where the offset does not belong to   *)
(* the frame it is used on: at a second part, or once that frame is done.  *)
StreamIntact ==
  /\ ~disturbed
  /\ sender # "down"
  /\ receiver = "up"
  => LET frames == FlattenSeq(m_serializedToSend)
         unsent == SubSeq(frames, m_lastMessageByteSent + 1, Len(frames))
     IN  Frames(sent) = Frames(delivered) \o m_receivedBuffer \o wire
                          \o unsent \o Frames(m_messagesToSend)

Channel == INSTANCE MessageChannel WITH Message <- Payload

(* The messages delivered are the first of those queued, in their order,   *)
(* each once: framing, buffering, the limit of messages in a tick and a    *)
(* close at any moment do not show in what the application gets.  The      *)
(* claim ends where the offset is used on a frame it does not belong to:   *)
(* what is cut out of a frame without its header may be a message.         *)
ImplementsChannel ==
  Channel!Init /\ [][Channel!Next \/ disturbed']_<<sent, delivered>>

(* A message that was queued is delivered, unless a side closes first.  In *)
(* particular what one tick leaves in the buffer is delivered even when no *)
(* further byte arrives.                                                   *)
EveryMessageArrives ==
  \A n \in 1 .. MaxSent :
    (Len(sent) >= n) ~> (Len(delivered) >= n \/ sender # "up" \/ receiver # "up")

(* The same, as long as the offset belongs to the frame it is used on.     *)
IntactMessagesArrive ==
  \A n \in 1 .. MaxSent :
    (Len(sent) >= n) ~> \/ Len(delivered) >= n
                        \/ sender # "up" \/ receiver # "up"
                        \/ disturbed
====
