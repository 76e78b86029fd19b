-------------------------- MODULE TcpSocketProofs --------------------------
(***************************************************************************)
(* Proofs about TcpSocket and UdpSocket, for any threads and descriptors   *)
(* and any number of addresses.                                            *)
(***************************************************************************)
EXTENDS UdpSocket, TLAPS

LEMMA InitEstablishes == Init => IInv
BY ThreadAssumption, DescriptorAssumption, AddressAssumption
   DEF Init, IInv, TypeOK, DescriptorOwned, NoHalfOpenSocket, Free, NotOpening, Code

(* Every step of a function leaves values of their types.                  *)
LEMMA TypeStep == TypeOK /\ [Next]_vars => TypeOK'
<1> SUFFICES ASSUME TypeOK, [Next]_vars PROVE TypeOK'
    OBVIOUS
<1> USE ThreadAssumption, DescriptorAssumption, AddressAssumption, CallsAssumption
    DEF TypeOK, NotOpening, Free, Code, Opening, OnOpen, OnUdp, Ending
<1>1. ASSUME NEW t \in Thread, Lock(t) PROVE TypeOK'
      BY <1>1 DEF Lock
<1>2. ASSUME NEW t \in Thread, NEW f \in Calls, Call(t, f) PROVE TypeOK'
      BY <1>2 DEF Call
<1>3. ASSUME NEW t \in Thread, Step(t) PROVE TypeOK'
  <2>1. ASSUME NEW f \in Opening, OpeningStep(t, f) PROVE TypeOK'
    <3>1. CASE Resolve(t, f)
          BY <3>1 DEF Resolve, In, Return
    <3>2. CASE OpenDescriptor(t, f)
          BY <3>2 DEF OpenDescriptor, In
    <3>3. CASE Established(t, f)
          BY <3>3 DEF Established, In, Return
    <3>4. CASE Refused(t, f)
          BY <3>4 DEF Refused, In, CloseDescriptor
    <3>5. CASE AllRefused(t, f)
          BY <3>5 DEF AllRefused, In, Return
    <3> QED BY <2>1, <3>1, <3>2, <3>3, <3>4, <3>5 DEF OpeningStep
  <2>2. ASSUME NEW f \in OnOpen, NotOpen(t, f) PROVE TypeOK'
        BY <2>2 DEF NotOpen, Return
  <2>3. ASSUME NEW f \in MayWait, AnswersWithoutData(t, f) PROVE TypeOK'
        BY <2>3 DEF AnswersWithoutData, Return
  <2>4. CASE ListenSucceeds(t)
        BY <2>4 DEF ListenSucceeds, Return
  <2>5. CASE ListenFails(t)
        BY <2>5 DEF ListenFails, Return
  <2>6. CASE AcceptConnection(t)
        BY <2>6 DEF AcceptConnection, Return
  <2>7. CASE SendsData(t)
        BY <2>7 DEF SendsData, Return
  <2>8. CASE SetBlocking(t)
        BY <2>8 DEF SetBlocking, SetsMode, Return
  <2>9. CASE GetPort(t)
        BY <2>9 DEF GetPort, Return
  <2>10. CASE ShutdownSocket(t)
        BY <2>10 DEF ShutdownSocket, Return
  <2>11. CASE CloseSocket(t)
        BY <2>11 DEF CloseSocket, Return, CloseDescriptor
  <2> QED BY <1>3, <2>1, <2>2, <2>3, <2>4, <2>5, <2>6, <2>7, <2>8, <2>9, <2>10, <2>11
          DEF Step
<1>4. CASE PeerEnds
      BY <1>4 DEF PeerEnds
<1>5. ASSUME NEW d \in Descriptor, AcceptedCloses(d) PROVE TypeOK'
      BY <1>5 DEF AcceptedCloses
<1>6. CASE UNCHANGED vars
      BY <1>6 DEF vars
<1> QED BY <1>1, <1>2, <1>3, <1>4, <1>5, <1>6 DEF Next

(* Descriptors change hands one at a time, and under the mutex.            *)
LEMMA OwnedStep == TypeOK /\ DescriptorOwned /\ [Next]_vars => DescriptorOwned'
<1> SUFFICES ASSUME TypeOK, DescriptorOwned, [Next]_vars PROVE DescriptorOwned'
    OBVIOUS
<1> USE DescriptorAssumption DEF TypeOK, DescriptorOwned, Free
<1>0. ASSUME UNCHANGED <<m_socket, kernel, nonBlocking, accepted>>
      PROVE DescriptorOwned'
      BY <1>0
<1>1. ASSUME NEW t \in Thread, Lock(t) PROVE DescriptorOwned'
      BY <1>0, <1>1 DEF Lock
<1>2. ASSUME NEW t \in Thread, NEW f \in Calls, Call(t, f) PROVE DescriptorOwned'
      BY <1>0, <1>2 DEF Call
<1>3. ASSUME NEW t \in Thread, Step(t) PROVE DescriptorOwned'
  <2>1. ASSUME NEW f \in Opening, OpeningStep(t, f) PROVE DescriptorOwned'
    <3>1. CASE Resolve(t, f)
          BY <1>0, <3>1 DEF Resolve
    <3>2. CASE OpenDescriptor(t, f)
          BY <3>2 DEF OpenDescriptor
    <3>3. CASE Established(t, f)
          BY <3>3 DEF Established
    <3>4. CASE Refused(t, f)
          BY <3>4 DEF Refused, CloseDescriptor
    <3>5. CASE AllRefused(t, f)
          BY <1>0, <3>5 DEF AllRefused
    <3> QED BY <2>1, <3>1, <3>2, <3>3, <3>4, <3>5 DEF OpeningStep
  <2>2. ASSUME NEW f \in OnOpen, NotOpen(t, f) PROVE DescriptorOwned'
        BY <1>0, <2>2 DEF NotOpen
  <2>3. ASSUME NEW f \in MayWait, AnswersWithoutData(t, f) PROVE DescriptorOwned'
        BY <1>0, <2>3 DEF AnswersWithoutData
  <2>4. CASE ListenSucceeds(t)
        BY <2>4 DEF ListenSucceeds
  <2>5. CASE ListenFails(t)
        BY <1>0, <2>5 DEF ListenFails
  <2>6. CASE AcceptConnection(t)
        BY <2>6 DEF AcceptConnection
  <2>7. CASE SendsData(t)
        BY <1>0, <2>7 DEF SendsData
  <2>8. CASE SetBlocking(t)
        BY <2>8 DEF SetBlocking, SetsMode
  <2>9. CASE GetPort(t)
        BY <1>0, <2>9 DEF GetPort
  <2>10. CASE ShutdownSocket(t)
        BY <2>10 DEF ShutdownSocket
  <2>11. CASE CloseSocket(t)
        BY <2>11 DEF CloseSocket, CloseDescriptor
  <2> QED BY <1>3, <2>1, <2>2, <2>3, <2>4, <2>5, <2>6, <2>7, <2>8, <2>9, <2>10, <2>11
          DEF Step
<1>4. CASE PeerEnds
      BY <1>4 DEF PeerEnds
<1>5. ASSUME NEW d \in Descriptor, AcceptedCloses(d) PROVE DescriptorOwned'
      BY <1>5 DEF AcceptedCloses
<1>6. CASE UNCHANGED vars
      BY <1>0, <1>6 DEF vars
<1> QED BY <1>1, <1>2, <1>3, <1>4, <1>5, <1>6 DEF Next

(* While a call tries addresses it holds the mutex, so that no step of     *)
(* another thread's function is possible and its own end with the          *)
(* descriptor established or closed.                                       *)
LEMMA HalfOpenStep ==
  TypeOK /\ DescriptorOwned /\ NoHalfOpenSocket /\ [Next]_vars => NoHalfOpenSocket'
<1> SUFFICES ASSUME TypeOK, DescriptorOwned, NoHalfOpenSocket, [Next]_vars,
                    m_socket' # Invalid, kernel'[m_socket'] = "fresh"
             PROVE  \E u \in Thread : /\ m_mutex' = u
                                      /\ call'[u] \in Opening
                                      /\ untried' \in 1 .. Addresses
    BY DEF NoHalfOpenSocket
<1> DEFINE Trying(u) == m_mutex = u /\ call[u] \in Opening /\ untried \in 1 .. Addresses
<1> USE ThreadAssumption, DescriptorAssumption, AddressAssumption
    DEF TypeOK, NoHalfOpenSocket, Opening, NotOpening
<1>0. ASSUME m_socket # Invalid, kernel[m_socket] = "fresh"
      PROVE  \E u \in Thread : Trying(u)
      BY <1>0
<1>1. ASSUME NEW t \in Thread, Lock(t) PROVE FALSE
      BY <1>0, <1>1 DEF Lock
<1>2. ASSUME NEW t \in Thread, NEW f \in Calls, Call(t, f)
      PROVE  \E u \in Thread : Trying(u)'
  <2>1. PICK u \in Thread : Trying(u)
        BY <1>0, <1>2 DEF Call
  <2>2. u # t
        BY <1>2, <2>1 DEF Call
  <2> QED BY <1>2, <2>1, <2>2 DEF Call
<1>3. ASSUME NEW t \in Thread, Step(t) PROVE \E u \in Thread : Trying(u)'
  <2>1. ASSUME NEW f \in Opening, OpeningStep(t, f)
        PROVE  \E u \in Thread : Trying(u)'
    <3>1. CASE Resolve(t, f)
          BY <1>0, <3>1 DEF Resolve
    <3>2. CASE OpenDescriptor(t, f)
      <4>1. UNCHANGED <<m_mutex, call>> /\ untried' = untried
            BY <3>2 DEF OpenDescriptor
      <4>2. m_mutex = t /\ call[t] \in Opening /\ untried \in 1 .. Addresses
            BY <3>2 DEF OpenDescriptor, In
      <4> QED BY <4>1, <4>2
    <3>3. CASE Established(t, f)
          BY <3>3 DEF Established
    <3>4. CASE Refused(t, f)
          BY <3>4 DEF Refused, CloseDescriptor
    <3>5. CASE AllRefused(t, f)
          BY <1>0, <3>5 DEF AllRefused
    <3> QED BY <2>1, <3>1, <3>2, <3>3, <3>4, <3>5 DEF OpeningStep
  <2>2. ASSUME UNCHANGED <<m_socket, kernel>>, m_mutex = t, call[t] \notin Opening
        PROVE  FALSE
        BY <1>0, <2>2
  <2>3. ASSUME NEW f \in OnOpen, NotOpen(t, f) PROVE FALSE
        BY <2>2, <2>3 DEF NotOpen, In, OnOpen
  <2>4. ASSUME NEW f \in MayWait, AnswersWithoutData(t, f) PROVE FALSE
        BY <2>2, <2>4 DEF AnswersWithoutData, In, MayWait
  <2>5. CASE ListenSucceeds(t)
        BY <2>5 DEF ListenSucceeds
  <2>6. CASE ListenFails(t)
        BY <2>2, <2>6 DEF ListenFails, In
  <2>7. CASE AcceptConnection(t)
    <3>1. PICK d \in Free : kernel' = [kernel EXCEPT ![d] = "connected"]
          BY <2>7 DEF AcceptConnection
    <3>2. d # m_socket
          BY <2>7, <3>1 DEF AcceptConnection, Free
    <3>3. kernel[m_socket] = "fresh" /\ m_socket # Invalid
          BY <2>7, <3>1, <3>2 DEF AcceptConnection
    <3> QED BY <2>7, <3>3 DEF AcceptConnection
  <2>8. CASE SendsData(t)
        BY <2>2, <2>8 DEF SendsData, In
  <2>9. CASE SetBlocking(t)
        BY <2>2, <2>9 DEF SetBlocking, In
  <2>10. CASE GetPort(t)
        BY <2>2, <2>10 DEF GetPort, In
  <2>11. CASE ShutdownSocket(t)
    <3>1. m_socket # Invalid /\ kernel[m_socket] = "fresh"
          BY <2>11 DEF ShutdownSocket
    <3> QED BY <1>0, <2>11, <3>1 DEF ShutdownSocket, In
  <2>12. CASE CloseSocket(t)
        BY <2>2, <2>12 DEF CloseSocket, CloseDescriptor, In
  <2> QED BY <1>3, <2>1, <2>3, <2>4, <2>5, <2>6, <2>7, <2>8, <2>9, <2>10, <2>11, <2>12
          DEF Step
<1>4. CASE PeerEnds
      BY <1>4 DEF PeerEnds
<1>5. ASSUME NEW d \in Descriptor, AcceptedCloses(d)
      PROVE  \E u \in Thread : Trying(u)'
  <2>1. m_socket # Invalid /\ kernel[m_socket] = "fresh"
        BY <1>5 DEF AcceptedCloses
  <2> QED BY <1>0, <1>5, <2>1 DEF AcceptedCloses
<1>6. CASE UNCHANGED vars
      BY <1>0, <1>6 DEF vars
<1> QED BY <1>1, <1>2, <1>3, <1>4, <1>5, <1>6 DEF Next

(* The invariant of a socket under any calls of any threads.               *)
THEOREM SocketInvariant == Spec => []IInv
<1>1. IInv /\ [Next]_vars => IInv'
      BY TypeStep, OwnedStep, HalfOpenStep DEF IInv
<1> QED BY InitEstablishes, <1>1, PTL DEF Spec

(* Every variable of a socket keeps its type.                              *)
THEOREM SocketTypeCorrect == Spec => []TypeOK
<1>1. IInv => TypeOK
      BY DEF IInv
<1> QED BY SocketInvariant, <1>1, PTL

(* A TcpSocket never leaks a descriptor nor shares one with a socket it    *)
(* accepted.                                                               *)
THEOREM DescriptorsAreOwned == Spec => []DescriptorOwned
<1>1. IInv => DescriptorOwned
      BY DEF IInv
<1> QED BY SocketInvariant, <1>1, PTL

(* A descriptor that is still being tried is seen by its own call only.    *)
THEOREM NoneIsHalfOpen == Spec => []NoHalfOpenSocket
<1>1. IInv => NoHalfOpenSocket
      BY DEF IInv
<1> QED BY SocketInvariant, <1>1, PTL

(* What a UdpSocket does in the same way as a TcpSocket is a step of one.  *)
LEMMA SharedStep ==
  ASSUME NEW t \in Thread,
         \/ Lock(t)
         \/ Resolve(t, "bindSocket") \/ OpenDescriptor(t, "bindSocket")
         \/ Established(t, "bindSocket") \/ Refused(t, "bindSocket")
         \/ \E f \in {"setBlocking", "getPort"} : NotOpen(t, f)
         \/ GetPort(t) \/ CloseSocket(t)
  PROVE  Next
<1>1. CASE \/ Resolve(t, "bindSocket") \/ OpenDescriptor(t, "bindSocket")
           \/ Established(t, "bindSocket") \/ Refused(t, "bindSocket")
  <2>1. OpeningStep(t, "bindSocket")
        BY <1>1 DEF OpeningStep
  <2> QED BY <2>1 DEF Step, Opening, Next
<1>2. CASE \E f \in {"setBlocking", "getPort"} : NotOpen(t, f)
      BY <1>2 DEF Step, OnOpen, Next
<1>3. CASE Lock(t) \/ GetPort(t) \/ CloseSocket(t)
      BY <1>3 DEF Step, Next
<1> QED BY <1>1, <1>2, <1>3

(* The steps of its own keep the same invariant.                           *)
LEMMA UdpStepKeeps == IInv /\ UdpNext => IInv'
<1> SUFFICES ASSUME IInv, UdpNext PROVE IInv'
    OBVIOUS
<1> USE ThreadAssumption, DescriptorAssumption, AddressAssumption
    DEF IInv, TypeOK, DescriptorOwned, NoHalfOpenSocket, NotOpening, Free, Code,
        Opening, OnOpen, OnUdp, Ending
<1>1. PICK t \in Thread : \/ Lock(t)
                          \/ UdpStep(t)
                          \/ \E f \in OnUdp : UdpWaited(t, f)
                          \/ \E f \in UdpFunctions : Call(t, f)
      BY DEF UdpNext
<1>2. CASE Next
  <2> HIDE DEF IInv
  <2> QED BY <1>2, TypeStep, OwnedStep, HalfOpenStep DEF IInv
(* A step that returns, changes no descriptor, and is not of a function    *)
(* that tries addresses.                                                   *)
<1>3. ASSUME UNCHANGED <<m_socket, m_isBlocking, kernel, accepted>>,
             nonBlocking' \subseteq nonBlocking \cup ({m_socket} \ {Invalid}),
             m_mutex = t, call[t] \notin Opening \/ untried = 0,
             NEW code \in Code, Return(t, code)
      PROVE  IInv'
  <2>1. TypeOK'
        BY <1>3 DEF Return
  <2>2. DescriptorOwned'
        BY <1>3
  <2>3. NoHalfOpenSocket'
        BY <1>3
  <2> QED BY <2>1, <2>2, <2>3
<1>4. CASE \E f \in UdpFunctions : Call(t, f)
  <2>1. PICK f \in UdpFunctions : Call(t, f)
        BY <1>4
  <2>2. TypeOK' /\ DescriptorOwned'
        BY <2>1 DEF Call, UdpFunctions
  <2>3. NoHalfOpenSocket'
    <3> SUFFICES ASSUME m_socket # Invalid, kernel[m_socket] = "fresh"
                 PROVE  \E u \in Thread : /\ m_mutex' = u
                                          /\ call'[u] \in Opening
                                          /\ untried' \in 1 .. Addresses
        BY <2>1 DEF Call
    <3>1. PICK u \in Thread :
            m_mutex = u /\ call[u] \in Opening /\ untried \in 1 .. Addresses
        OBVIOUS
    <3>2. u # t
        BY <2>1, <3>1 DEF Call
    <3> QED BY <2>1, <3>1, <3>2 DEF Call
  <2> QED BY <2>2, <2>3
<1>5. ASSUME NEW f \in OnUdp, UdpWaited(t, f) \/ UdpAnswers(t, f) PROVE IInv'
  <2>1. PICK code \in Code : Return(t, code)
        BY <1>5 DEF UdpWaited, UdpAnswers
  <2> QED BY <1>3, <1>5, <2>1 DEF UdpWaited, UdpAnswers, In
<1>6. ASSUME NEW f \in OnUdp, NotOpen(t, f) PROVE IInv'
      BY <1>3, <1>6 DEF NotOpen, In
<1>7. CASE NoneBound(t)
      BY <1>3, <1>7 DEF NoneBound, In
<1>8. CASE UdpSetBlocking(t)
  <2>1. PICK code \in Code : Return(t, code)
        BY <1>8 DEF UdpSetBlocking
  <2>2. nonBlocking' \subseteq nonBlocking \cup ({m_socket} \ {Invalid})
        BY <1>8 DEF UdpSetBlocking, SetsMode
  <2> QED BY <1>3, <1>8, <2>1, <2>2 DEF UdpSetBlocking, In
<1>9. CASE PortUnknown(t)
      BY <1>9 DEF PortUnknown, CloseDescriptor, Return
<1> QED
  <2> HIDE DEF OnUdp
  <2> QED BY <1>1, <1>2, <1>4, <1>5, <1>6, <1>7, <1>8, <1>9, SharedStep DEF UdpStep

(* No socket of either class leaks a descriptor, shares one, or is seen    *)
(* half-open, whatever fails.                                              *)
THEOREM SocketsOfBothClasses == SocketSpec => [](DescriptorOwned /\ NoHalfOpenSocket)
<1>1. SocketInit => IInv
      BY InitEstablishes DEF SocketInit
<1>2. IInv /\ [SocketNext]_socketVars => IInv'
  <2> SUFFICES ASSUME IInv, [SocketNext]_socketVars PROVE IInv'
      OBVIOUS
  <2>1. CASE [Next]_vars
        BY <2>1, TypeStep, OwnedStep, HalfOpenStep DEF IInv
  <2>2. CASE UdpNext
        BY <2>2, UdpStepKeeps
  <2> QED BY <2>1, <2>2 DEF SocketNext, socketVars
<1>3. IInv => DescriptorOwned /\ NoHalfOpenSocket
      BY DEF IInv
<1> QED BY <1>1, <1>2, <1>3, PTL DEF SocketSpec
====
