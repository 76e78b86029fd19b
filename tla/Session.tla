------------------------------ MODULE Session ------------------------------
(***************************************************************************)
(* A Server and a Client on one network.  What each of the two takes for   *)
(* its peer is here the other program: a connection is established by both *)
(* kernels at once, and what one side has closed the other is told later.  *)
(* The server's variables are those of its module, the client's begin with *)
(* c_.  What is left unread when a side closes is not followed: the other  *)
(* may be told of a reset instead of an end of stream.                     *)
(***************************************************************************)
EXTENDS Server

CONSTANTS
  ClientQueued,  \* bound on the messages a client queues
  Fragile        \* the connections the network may break

ASSUME ClientQueuedAssumption == ClientQueued \in Nat
ASSUME FragileAssumption == Fragile \subseteq Conn

VARIABLES
  c_entities, c_nextEntityId, c_comps, c_sock, c_queued,
  c_phase, c_todo, c_accepted, c_handle, c_peer, c_backlog

C == INSTANCE Client WITH
       MaxQueued <- ClientQueued,
       entities <- c_entities, nextEntityId <- c_nextEntityId,
       comps <- c_comps, sock <- c_sock, queued <- c_queued,
       phase <- c_phase, todo <- c_todo, accepted <- c_accepted,
       handle <- c_handle, peer <- c_peer, backlog <- c_backlog

server == vars
client == <<c_entities, c_nextEntityId, c_comps, c_sock, c_queued,
            c_phase, c_todo, c_accepted, c_handle, c_peer, c_backlog>>
sessionVars == <<server, client>>

SessionInit == Init /\ C!Init

-----------------------------------------------------------------------------
(* connectTo succeeds when the server's kernel has completed the handshake.*)
Connect(c) == C!ConnectTo(c) /\ PeerConnect(c)

(* What one side has closed, its kernel tells the other side's: the end of *)
(* the stream, or a reset when something was left unread.                  *)
ServerIsTold(c) ==
  /\ c_handle[c] = "closed"
  /\ peer[c] = "open"
  /\ PeerClose(c) \/ PeerReset(c)
  /\ UNCHANGED client

ClientIsTold(c) ==
  /\ handle[c] = "closed"
  /\ c_peer[c] = "open"
  /\ C!PeerClose(c) \/ C!PeerReset(c)
  /\ UNCHANGED server

(* The network breaks a connection, for both sides.                        *)
Broken(c) == PeerReset(c) /\ C!PeerReset(c)

ServerSystems == Systems /\ UNCHANGED client
ClientSystems == C!Systems /\ UNCHANGED server

ServerMoves == ServerSystems \/ (ServerCalls /\ UNCHANGED client)

ClientMoves ==
  \/ ClientSystems
  \/ /\ \/ C!Disconnect
        \/ C!ClientBeginUpdate
        \/ C!ClientEndUpdate
        \/ C!ClientSendTcpMessage
     /\ UNCHANGED server

Network ==
  \/ \E c \in Conn : Connect(c) \/ ServerIsTold(c) \/ ClientIsTold(c)
  \/ \E c \in Fragile : Broken(c)

SessionNext == ServerMoves \/ ClientMoves \/ Network

SessionSpec == SessionInit /\ [][SessionNext]_sessionVars

(* Both applications keep updating, the client's for as long as it is      *)
(* connected (the loops of TestServer and TestClient); a system, once      *)
(* started, runs to its end; accepting does not fail for ever; and what a  *)
(* kernel has to tell arrives.                                             *)
SessionFairness ==
  /\ WF_sessionVars(ServerSystems)
  /\ SF_sessionVars(ServerBeginUpdate /\ UNCHANGED client)
  /\ SF_sessionVars(AcceptConnection /\ UNCHANGED client)
  /\ WF_sessionVars(ClientSystems)
  /\ SF_sessionVars(C!ClientBeginUpdate /\ UNCHANGED server)
  /\ \A c \in Conn : /\ WF_sessionVars(ServerIsTold(c))
                     /\ WF_sessionVars(ClientIsTold(c))

FairSessionSpec == SessionSpec /\ SessionFairness

-----------------------------------------------------------------------------
(* The server hangs up on no client: it closes a connection that it has    *)
(* accepted only after the client closed its side, unless the network      *)
(* broke the connection.                                                   *)
ClientsAreKept ==
  [][\A c \in Conn \ Fragile :
       handle[c] = "open" /\ handle'[c] # "open"
         => c_handle[c] = "closed"]_sessionVars

(* A client that is connected is served: the server has an entity for its  *)
(* connection, unless the client leaves or loses it, or the server stops.  *)
ClientIsServed ==
  \A c \in Conn : (c_handle[c] = "open" /\ C!IsConnected)
                    ~> \/ \E e \in EntityId : sock[e] = c
                       \/ ~C!IsConnected
                       \/ ~isRunning

(* The client leaves: the server closes its side, however far it has got   *)
(* with the connection, unless it is stopped meanwhile.                    *)
ClientGoneNoticed ==
  \A c \in Conn : (c_handle[c] = "closed")
                    ~> (handle[c] = "closed" \/ ~isRunning)

(* The server closes its side: the client notices, and says so to its      *)
(* application.                                                            *)
ServerGoneNoticed ==
  \A c \in Conn : (handle[c] = "closed" /\ c_handle[c] = "open" /\ C!IsConnected)
                    ~> ~C!IsConnected
=============================================================================
