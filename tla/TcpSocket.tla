----------------------------- MODULE TcpSocket -----------------------------
(***************************************************************************)
(* One core::TcpSocket shared by threads, as its mutex provides for: the   *)
(* descriptor it owns, the blocking mode it remembers, and the mutex every *)
(* member function but isOpen and isBlocking holds from entry to return.   *)
(* A function is a step for each system call it makes, between a step that *)
(* takes the mutex and the one that returns and gives it back.             *)
(***************************************************************************)
EXTENDS Integers

CONSTANTS
  Thread, NoThread,     \* threads, and no owner of the mutex
  Descriptor, Invalid,  \* descriptors, and INVALID_SOCKET_FD
  Addresses,            \* most addresses getaddrinfo returns
  Calls                 \* the member functions the threads call

Opening == {"connectTo", "bindSocket"}
OnOpen  == {"listenSocket", "acceptSocket", "sendData", "receiveData",
            "setBlocking", "getPort"}
Ending  == {"shutdownSocket", "closeSocket"}
OnUdp   == {"sendDataTo", "receiveDataFrom"}   \* UdpSocket's, not called here

ASSUME ThreadAssumption == NoThread \notin Thread
ASSUME DescriptorAssumption == Invalid \notin Descriptor
ASSUME AddressAssumption == Addresses \in Nat \ {0}
ASSUME CallsAssumption == Calls \subseteq Opening \cup OnOpen \cup Ending

VARIABLES
  m_socket,
  m_isBlocking,
  m_mutex,       \* the thread that holds it
  call,          \* the function each thread is in
  returned,      \* the ErrorCode of the last function to return one
  untried,       \* addresses the running connectTo or bindSocket has left
  kernel,        \* the kernel's view of each descriptor
  nonBlocking,   \* descriptors with O_NONBLOCK
  accepted       \* descriptors acceptSocket handed out, each in a TcpSocket
                 \* of its own

vars == <<m_socket, m_isBlocking, m_mutex, call, returned, untried, kernel,
          nonBlocking, accepted>>

NotOpening == Addresses + 1   \* no connectTo or bindSocket is in its loop

Free == {d \in Descriptor : kernel[d] = "free"}

Init ==
  /\ m_socket = Invalid
  /\ m_isBlocking = TRUE
  /\ m_mutex = NoThread
  /\ call = [t \in Thread |-> "none"]
  /\ returned = "Success"
  /\ untried = NotOpening
  /\ kernel = [d \in Descriptor |-> "free"]
  /\ nonBlocking = {}
  /\ accepted = {}

-----------------------------------------------------------------------------
Call(t, f) ==
  /\ call[t] = "none"
  /\ call' = [call EXCEPT ![t] = f]
  /\ UNCHANGED <<m_socket, m_isBlocking, m_mutex, returned, untried, kernel,
                 nonBlocking, accepted>>

Lock(t) ==
  /\ call[t] # "none"
  /\ m_mutex = NoThread
  /\ m_mutex' = t
  /\ UNCHANGED <<m_socket, m_isBlocking, call, returned, untried, kernel,
                 nonBlocking, accepted>>

(* t runs function f and holds the mutex.                                  *)
In(t, f) == m_mutex = t /\ call[t] = f

(* The function returns and its lock_guard gives the mutex back.           *)
Return(t, code) ==
  /\ m_mutex' = NoThread
  /\ call' = [call EXCEPT ![t] = "none"]
  /\ returned' = code
  /\ untried' = NotOpening

(* SocketUtils::setBlocking, when the kernel agrees.                       *)
SetsMode(blocking) ==
  nonBlocking' = IF blocking THEN nonBlocking \ {m_socket}
                             ELSE nonBlocking \cup {m_socket}

(* CLOSE_SOCKET(m_socket).                                                 *)
CloseDescriptor ==
  /\ kernel' = [kernel EXCEPT ![m_socket] = "free"]
  /\ nonBlocking' = nonBlocking \ {m_socket}
  /\ m_socket' = Invalid

-----------------------------------------------------------------------------
(* connectTo and bindSocket.                                               *)

(* The check on entry, and getaddrinfo.                                    *)
Resolve(t, f) ==
  /\ f \in Opening
  /\ In(t, f)
  /\ untried = NotOpening
  /\ \/ /\ m_socket # Invalid
        /\ Return(t, "SocketAlreadyOpen")
     \/ /\ m_socket = Invalid
        /\ Return(t, "SocketGetaddrinfoFailed")
     \/ /\ m_socket = Invalid
        /\ untried' \in 1 .. Addresses
        /\ UNCHANGED <<m_mutex, call, returned>>
  /\ UNCHANGED <<m_socket, m_isBlocking, kernel, nonBlocking, accepted>>

(* Mutant: one address more than there are.                                *)
OpenDescriptor_OneMore(t, f) ==
  /\ f \in Opening
  /\ In(t, f)
  /\ m_socket = Invalid
  /\ untried # NotOpening
  /\ untried' = untried - 1
  /\ UNCHANGED <<m_socket, kernel, m_isBlocking, m_mutex, call, returned,
                 nonBlocking, accepted>>

(* socket for the next address; `continue' when it fails.                  *)
OpenDescriptor(t, f) ==
  /\ f \in Opening
  /\ In(t, f)
  /\ m_socket = Invalid
  /\ untried \in 1 .. Addresses
  /\ \/ \E d \in Free :
          /\ m_socket' = d
          /\ kernel' = [kernel EXCEPT ![d] = "fresh"]
          /\ UNCHANGED untried
     \/ /\ untried' = untried - 1
        /\ UNCHANGED <<m_socket, kernel>>
  /\ UNCHANGED <<m_isBlocking, m_mutex, call, returned, nonBlocking, accepted>>

(* connect or bind succeeds: the first address that does is kept.          *)
Established(t, f) ==
  /\ f \in Opening
  /\ In(t, f)
  /\ untried \in 1 .. Addresses
  /\ m_socket # Invalid
  /\ kernel' = [kernel EXCEPT ![m_socket] =
                  IF f = "connectTo" THEN "connected" ELSE "bound"]
  /\ Return(t, "Success")
  /\ UNCHANGED <<m_socket, m_isBlocking, nonBlocking, accepted>>

(* Mutant: the descriptor is forgotten, not closed.                        *)
Refused_Leaks(t, f) ==
  /\ f \in Opening
  /\ In(t, f)
  /\ untried \in 1 .. Addresses
  /\ m_socket # Invalid
  /\ m_socket' = Invalid
  /\ untried' = untried - 1
  /\ UNCHANGED <<m_isBlocking, m_mutex, call, returned, kernel, nonBlocking, accepted>>

(* connect or bind fails: close the descriptor and try the next address.   *)
Refused(t, f) ==
  /\ f \in Opening
  /\ In(t, f)
  /\ untried \in 1 .. Addresses
  /\ m_socket # Invalid
  /\ CloseDescriptor
  /\ untried' = untried - 1
  /\ UNCHANGED <<m_isBlocking, m_mutex, call, returned, accepted>>

(* No address is left.  bindSocket then asks for the port of a descriptor  *)
(* that is always invalid here, and returns the error of that.             *)
AllRefused(t, f) ==
  /\ In(t, f)
  /\ untried = 0
  /\ Return(t, IF f = "connectTo" THEN "SocketConnectFailed"
                                  ELSE "SocketGetPortFailed")
  /\ UNCHANGED <<m_socket, m_isBlocking, kernel, nonBlocking, accepted>>

-----------------------------------------------------------------------------
(* Functions on an open descriptor.                                        *)

NotOpen(t, f) ==
  /\ In(t, f)
  /\ m_socket = Invalid
  /\ Return(t, "SocketNotOpen")
  /\ UNCHANGED <<m_socket, m_isBlocking, kernel, nonBlocking, accepted>>

ListenSucceeds(t) ==
  /\ In(t, "listenSocket")
  /\ m_socket # Invalid
  /\ kernel[m_socket] # "connected"
  /\ kernel' = [kernel EXCEPT ![m_socket] = "listening"]
  /\ Return(t, "Success")
  /\ UNCHANGED <<m_socket, m_isBlocking, nonBlocking, accepted>>

(* listen fails and closeSocket locks the mutex its caller holds, which    *)
(* std::mutex leaves undefined: the thread waits for itself, or the lock   *)
(* throws and the exception leaves listenSocket.                           *)
ListenFails(t) ==
  /\ In(t, "listenSocket")
  /\ m_socket # Invalid
  /\ \/ /\ call' = [call EXCEPT ![t] = "deadlock"]
        /\ UNCHANGED <<m_mutex, returned, untried>>
     \/ Return(t, "system_error")
  /\ UNCHANGED <<m_socket, m_isBlocking, kernel, nonBlocking, accepted>>

AcceptConnection(t) ==
  /\ In(t, "acceptSocket")
  /\ m_socket # Invalid
  /\ kernel[m_socket] = "listening"
  /\ \E d \in Free :
       /\ kernel' = [kernel EXCEPT ![d] = "connected"]
       /\ accepted' = accepted \cup {d}
  /\ Return(t, "Success")
  /\ UNCHANGED <<m_socket, m_isBlocking, nonBlocking>>

(* The calls that wait in the kernel when the descriptor blocks.           *)
MayWait == {"acceptSocket", "sendData", "receiveData"}

(* Mutant: what a non-blocking call reports is taken for an answer to come.*)
Answered_NeverWouldBlock(f) ==
  kernel[m_socket] # (IF f = "acceptSocket" THEN "listening" ELSE "connected")

(* A system call that waits for the peer has an answer: the descriptor     *)
(* does not block, or the connection ended, or it never was one.           *)
Answered(f) ==
  \/ m_socket \in nonBlocking
  \/ kernel[m_socket] # (IF f = "acceptSocket" THEN "listening" ELSE "connected")

(* accept, send and recv return without a connection or more data.         *)
(* receiveData goes on reading until this is the answer.                   *)
AnswersWithoutData(t, f) ==
  /\ f \in MayWait
  /\ In(t, f)
  /\ m_socket # Invalid
  /\ Answered(f)
  /\ \E code \in {"Success", "SocketWouldBlock", "SocketConnectionClosed",
                  "SocketFailed"} : Return(t, code)
  /\ UNCHANGED <<m_socket, m_isBlocking, kernel, nonBlocking, accepted>>

(* send takes some or all of the data.                                     *)
SendsData(t) ==
  /\ In(t, "sendData")
  /\ m_socket # Invalid
  /\ kernel[m_socket] = "connected"
  /\ \E code \in {"Success", "SocketSendPartial"} : Return(t, code)
  /\ UNCHANGED <<m_socket, m_isBlocking, kernel, nonBlocking, accepted>>

(* setBlocking changes the flag it remembers only if the kernel's changed. *)
SetBlocking(t) ==
  /\ In(t, "setBlocking")
  /\ m_socket # Invalid
  /\ \/ /\ m_isBlocking' \in BOOLEAN
        /\ SetsMode(m_isBlocking')
        /\ Return(t, "Success")
     \/ /\ Return(t, "SocketSetBlockingFailed")
        /\ UNCHANGED <<m_isBlocking, nonBlocking>>
  /\ UNCHANGED <<m_socket, kernel, accepted>>

GetPort(t) ==
  /\ In(t, "getPort")
  /\ m_socket # Invalid
  /\ Return(t, "Success")
  /\ UNCHANGED <<m_socket, m_isBlocking, kernel, nonBlocking, accepted>>

-----------------------------------------------------------------------------
(* shutdown ends a connection and a listener; the descriptor stays.        *)
ShutdownSocket(t) ==
  /\ In(t, "shutdownSocket")
  /\ \/ /\ m_socket = Invalid
        /\ Return(t, "Success")
        /\ UNCHANGED kernel
     \/ /\ m_socket # Invalid
        /\ kernel' = [kernel EXCEPT ![m_socket] =
                        IF @ \in {"connected", "listening"} THEN "ended" ELSE @]
        /\ Return(t, "Success")
     \/ /\ m_socket # Invalid
        /\ Return(t, "SocketShutdownFailed")
        /\ UNCHANGED kernel
  /\ UNCHANGED <<m_socket, m_isBlocking, nonBlocking, accepted>>

CloseSocket(t) ==
  /\ In(t, "closeSocket")
  /\ \/ /\ m_socket = Invalid
        /\ UNCHANGED <<m_socket, kernel, nonBlocking>>
     \/ /\ m_socket # Invalid
        /\ CloseDescriptor
  /\ Return(t, returned)
  /\ UNCHANGED <<m_isBlocking, accepted>>

(* The peer ends the connection.                                           *)
PeerEnds ==
  /\ m_socket # Invalid
  /\ kernel[m_socket] = "connected"
  /\ kernel' = [kernel EXCEPT ![m_socket] = "ended"]
  /\ UNCHANGED <<m_socket, m_isBlocking, m_mutex, call, returned, untried,
                 nonBlocking, accepted>>

(* An accepted socket is closed by the TcpSocket that owns it.             *)
AcceptedCloses(d) ==
  /\ d \in accepted
  /\ accepted' = accepted \ {d}
  /\ kernel' = [kernel EXCEPT ![d] = "free"]
  /\ nonBlocking' = nonBlocking \ {d}
  /\ UNCHANGED <<m_socket, m_isBlocking, m_mutex, call, returned, untried>>

-----------------------------------------------------------------------------
OpeningStep(t, f) ==
  \/ Resolve(t, f)
  \/ OpenDescriptor(t, f)
  \/ Established(t, f)
  \/ Refused(t, f)
  \/ AllRefused(t, f)

(* A step of the function that t, which holds the mutex, is in.            *)
Step(t) ==
  \/ \E f \in Opening : OpeningStep(t, f)
  \/ \E f \in OnOpen : NotOpen(t, f)
  \/ \E f \in MayWait : AnswersWithoutData(t, f)
  \/ ListenSucceeds(t) \/ ListenFails(t)
  \/ AcceptConnection(t)
  \/ SendsData(t)
  \/ SetBlocking(t)
  \/ GetPort(t)
  \/ ShutdownSocket(t)
  \/ CloseSocket(t)

Next ==
  \/ \E t \in Thread : Lock(t) \/ Step(t) \/ \E f \in Calls : Call(t, f)
  \/ PeerEnds
  \/ \E d \in Descriptor : AcceptedCloses(d)

Spec == Init /\ [][Next]_vars

(* A thread that holds the mutex is scheduled.  Nothing is assumed of who  *)
(* gets a mutex that is free.                                              *)
FairSpec == Spec /\ \A t \in Thread : WF_vars(Step(t))

-----------------------------------------------------------------------------
Code == {"Success", "SocketAlreadyOpen", "SocketGetaddrinfoFailed",
         "SocketConnectFailed", "SocketBindFailed", "SocketGetPortFailed",
         "SocketNotOpen",
         "system_error", "SocketWouldBlock", "SocketConnectionClosed",
         "SocketFailed", "SocketSendPartial", "SocketSetBlockingFailed",
         "SocketShutdownFailed"}

(* Every variable has its type.                                            *)
TypeOK ==
  /\ m_socket \in Descriptor \cup {Invalid}
  /\ m_isBlocking \in BOOLEAN
  /\ m_mutex \in Thread \cup {NoThread}
  /\ call \in [Thread -> Opening \cup OnOpen \cup OnUdp \cup Ending
                          \cup {"none", "deadlock"}]
  /\ returned \in Code
  /\ untried \in 0 .. NotOpening
  /\ kernel \in [Descriptor -> {"free", "fresh", "bound", "listening",
                                "connected", "ended"}]
  /\ nonBlocking \subseteq Descriptor
  /\ accepted \subseteq Descriptor

(* The descriptors open in the kernel are the one in m_socket and those    *)
(* handed out by accept: a failed connectTo or bindSocket leaves none      *)
(* behind, whatever addresses it went through, and none is owned twice.    *)
DescriptorOwned ==
  /\ Descriptor \ Free = accepted \cup ({m_socket} \ {Invalid})
  /\ m_socket \notin accepted
  /\ nonBlocking \cap Free = {}

(* Between two calls the socket is bound, connected, or holds nothing: a   *)
(* descriptor that is still being tried is seen by its own call only.      *)
NoHalfOpenSocket ==
  m_socket # Invalid /\ kernel[m_socket] = "fresh" =>
    \E t \in Thread : m_mutex = t /\ call[t] \in Opening /\ untried \in 1 .. Addresses

IInv == TypeOK /\ DescriptorOwned /\ NoHalfOpenSocket

(* A thread that takes the mutex gives it back, unless it waits in the     *)
(* kernel on a blocking descriptor, or for itself: no other error path of  *)
(* any function keeps it.                                                  *)
LockReleased ==
  \A t \in Thread :
    (m_mutex = t) ~> \/ m_mutex # t
                     \/ call[t] \in MayWait \cup OnUdp /\ m_socket \notin nonBlocking
                     \/ call[t] = "deadlock"

(* listenSocket returns, with SocketListenFailed if listen fails.          *)
ListenReturns == \A t \in Thread : In(t, "listenSocket") ~> m_mutex # t
====
