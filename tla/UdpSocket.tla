------------------------------ MODULE UdpSocket ------------------------------
(***************************************************************************)
(* A socket object of either class: a TcpSocket, or a core::UdpSocket,     *)
(* which is a class of its own but made of the same parts: a descriptor    *)
(* that member functions open, use and close under a mutex.  What the two  *)
(* do in the same way are TcpSocket's actions; what differs is here.       *)
(***************************************************************************)
EXTENDS TcpSocket

VARIABLE class   \* of the object, for life

socketVars == <<vars, class>>

UdpFunctions == {"bindSocket", "setBlocking", "getPort", "closeSocket"} \cup OnUdp

SocketInit == Init /\ class \in {"TcpSocket", "UdpSocket"}

-----------------------------------------------------------------------------
(* Mutant: the error is returned with the descriptor in place.             *)
PortUnknown_Keeps(t) ==
  /\ In(t, "bindSocket")
  /\ untried \in 1 .. Addresses
  /\ m_socket # Invalid
  /\ Return(t, "SocketGetPortFailed")
  /\ UNCHANGED <<m_socket, m_isBlocking, kernel, nonBlocking, accepted>>

(* bind succeeded but the port it got cannot be read: the descriptor is    *)
(* closed, and no further address is tried.                                *)
PortUnknown(t) ==
  /\ In(t, "bindSocket")
  /\ untried \in 1 .. Addresses
  /\ m_socket # Invalid
  /\ CloseDescriptor
  /\ Return(t, "SocketGetPortFailed")
  /\ UNCHANGED <<m_isBlocking, accepted>>

NoneBound(t) ==
  /\ In(t, "bindSocket")
  /\ untried = 0
  /\ Return(t, "SocketBindFailed")
  /\ UNCHANGED <<m_socket, m_isBlocking, kernel, nonBlocking, accepted>>

(* setBlocking does not remember what it set.                              *)
UdpSetBlocking(t) ==
  /\ In(t, "setBlocking")
  /\ m_socket # Invalid
  /\ \/ /\ \E blocking \in BOOLEAN : SetsMode(blocking)
        /\ Return(t, "Success")
     \/ /\ UNCHANGED nonBlocking
        /\ Return(t, "SocketSetBlockingFailed")
  /\ UNCHANGED <<m_socket, m_isBlocking, kernel, accepted>>

(* sendto and recvfrom return at once when the descriptor does not block.  *)
UdpAnswers(t, f) ==
  /\ f \in OnUdp
  /\ In(t, f)
  /\ m_socket \in nonBlocking
  /\ \/ f = "receiveDataFrom" /\ Return(t, "SocketWouldBlock")
     \/ \E code \in {"Success", "SocketFailed"} : Return(t, code)
  /\ UNCHANGED <<m_socket, m_isBlocking, kernel, nonBlocking, accepted>>

(* Otherwise they return with a datagram that has arrived or found room,   *)
(* or with an error; nothing says that they ever do.                       *)
UdpWaited(t, f) ==
  /\ f \in OnUdp
  /\ In(t, f)
  /\ m_socket # Invalid
  /\ m_socket \notin nonBlocking
  /\ \E code \in {"Success", "SocketFailed"} : Return(t, code)
  /\ UNCHANGED <<m_socket, m_isBlocking, kernel, nonBlocking, accepted>>

-----------------------------------------------------------------------------
(* A step of the UdpSocket's function that t, which holds the mutex, is in.*)
UdpStep(t) ==
  \/ Resolve(t, "bindSocket")
  \/ OpenDescriptor(t, "bindSocket")
  \/ Established(t, "bindSocket")
  \/ PortUnknown(t)
  \/ Refused(t, "bindSocket")
  \/ NoneBound(t)
  \/ \E f \in {"setBlocking", "getPort"} \cup OnUdp : NotOpen(t, f)
  \/ UdpSetBlocking(t)
  \/ \E f \in OnUdp : UdpAnswers(t, f)
  \/ GetPort(t)
  \/ CloseSocket(t)

UdpNext ==
  \E t \in Thread :
    \/ Lock(t)
    \/ UdpStep(t)
    \/ \E f \in OnUdp : UdpWaited(t, f)
    \/ \E f \in UdpFunctions : Call(t, f)

SocketNext ==
  /\ \/ class = "TcpSocket" /\ Next
     \/ class = "UdpSocket" /\ UdpNext
  /\ UNCHANGED class

SocketSpec == SocketInit /\ [][SocketNext]_socketVars

(* A thread that holds the mutex is scheduled, as in TcpSocket.            *)
StepOfClass(t) ==
  /\ \/ class = "TcpSocket" /\ Step(t)
     \/ class = "UdpSocket" /\ UdpStep(t)
  /\ UNCHANGED class

FairSocketSpec == SocketSpec /\ \A t \in Thread : WF_socketVars(StepOfClass(t))
====
