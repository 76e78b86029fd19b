---------------------------- MODULE FacadeProofs ----------------------------
(***************************************************************************)
(* Server and Client only narrow what an application may call, so what is  *)
(* proved of every engine holds of them; a server, as long as the kernel's *)
(* send buffers do not fill, never closes a connection whose peer is still *)
(* there, which in a session is a client that is still there; and a server *)
(* implements ConnectionLifecycle.                                         *)
(***************************************************************************)
EXTENDS Session, ServerContract, Client, NetworkEngineProofs

USE IdAssumption, NoConnAssumption
USE DEF EntityId, Self, Component, SelfTag, Root, Listen, Listening, Socket,
        Send, Receive, Connected, New, Pending, Disconnected, Destroy,
        ecsVars, loopVars, netVars

(* A server's steps are steps of its engine.                               *)
LEMMA ServerStep == [ServerNext]_vars => [Next]_vars
  BY DEF ServerNext, ServerCalls, Start, Stop, ServerBeginUpdate,
         ServerEndUpdate, ServerSendTcpMessage, Next, Calls

(* A client's steps are steps of its engine.                               *)
LEMMA ClientStep == [ClientNext]_vars => [Next]_vars
<1>1. ASSUME NEW c \in Conn, ConnectTo(c) PROVE Calls
  BY <1>1 DEF ConnectTo, Calls
<1>2. ASSUME ClientSendTcpMessage PROVE Calls
  <2>1. Self \in EntityId
    OBVIOUS
  <2> QED BY <1>2, <2>1 DEF ClientSendTcpMessage, Calls
<1>3. ASSUME Disconnect \/ ClientBeginUpdate \/ ClientEndUpdate PROVE Calls
  BY <1>3 DEF Disconnect, ClientBeginUpdate, ClientEndUpdate, Calls
<1> QED BY <1>1, <1>2, <1>3 DEF ClientNext, ClientCalls, Next

(* A server is an engine, and keeps the engine's invariant.                *)
THEOREM ServerIsEngine == ServerSpec => Spec /\ []IInv
  BY ServerStep, EngineInvariant, PTL DEF ServerSpec, Spec

(* A client is an engine, and keeps the engine's invariant.                *)
THEOREM ClientIsEngine == ClientSpec => Spec /\ []IInv
  BY ClientStep, EngineInvariant, PTL DEF ClientSpec, Spec

-----------------------------------------------------------------------------
(* On a server, what is about to be disconnected has lost its peer, the    *)
(* server's own entity holds no connection, every other entity is of a     *)
(* connection, and none is destroyed before its connection was closed.     *)
PendingHasNoPeer ==
  \A e \in EntityId : Pending \in comps[e] => peer[sock[e]] # "open"
SelfHoldsNoConnection == Socket \notin comps[Self] /\ Pending \notin comps[Self]
EntitiesAreConnections == \A e \in entities \ {Self} : Root \in comps[e]
DestroyedAfterClose ==
  \A e \in EntityId :
    Destroy \in comps[e] => comps[e] \cap {Socket, Disconnected} = {}

ServerInv == /\ SelfHoldsNoConnection
             /\ EntitiesAreConnections
             /\ DestroyedAfterClose

SInv == PendingHasNoPeer /\ ServerInv

(* The steps of a server that change components, entities or peers.        *)
LEMMA ServerChangedBy ==
  ASSUME [ServerNext]_vars
  PROVE  \/ UNCHANGED <<entities, nextEntityId, comps, sock, peer>>
         \/ StartTcpListen
         \/ Stop
         \/ DisconnectSystem
         \/ PendingDisconnectSystem
         \/ ClearNewConnections
         \/ AcceptConnection
         \/ SweepDestroyed
         \/ \E e \in todo : ReceiveFrom(e) \/ SendFails(e)
         \/ \E c \in Conn : PeerClose(c) \/ PeerReset(c)
  BY DEF ServerNext, ServerCalls, Start, ServerBeginUpdate, ServerEndUpdate,
         ServerSendTcpMessage, SendTcpMessage, BeginUpdate, EndUpdate,
         Systems, AcceptDropped, AcceptDone, ReceiveDone, SendDone,
         ReceiveThrows, SendPassesOver, SendAll, SendPart, Peers, PeerConnect,
         vars

(* The two parts of the server's invariant about who holds what.           *)
LEMMA ServerEntitiesStep ==
  ASSUME IInv, ServerInv, [ServerNext]_vars
  PROVE  SelfHoldsNoConnection' /\ EntitiesAreConnections'
<1> USE DEF ServerInv, SelfHoldsNoConnection, EntitiesAreConnections
<1>1. CASE UNCHANGED <<entities, nextEntityId, comps, sock, peer>>
  BY <1>1
<1>2. CASE StartTcpListen
  BY <1>2 DEF StartTcpListen, IInv, TypeOK
<1>3. CASE Stop
  BY <1>3 DEF Stop, StopTcpListen, IInv, TypeOK
<1>4. CASE DisconnectSystem
  BY <1>4 DEF DisconnectSystem, IInv, TypeOK
<1>5. CASE PendingDisconnectSystem
  BY <1>5 DEF PendingDisconnectSystem, RemovedOnDisconnect, Query, IInv, TypeOK
<1>6. CASE ClearNewConnections
  BY <1>6 DEF ClearNewConnections, IInv, TypeOK
<1>7. CASE AcceptConnection
  BY <1>7 DEF AcceptConnection, AcceptedComponents, IInv, TypeOK, FreshIds
<1>8. CASE SweepDestroyed
  BY <1>8 DEF SweepDestroyed, ErasedFromStores, Query, IInv, TypeOK
<1>9. ASSUME NEW e \in todo, ReceiveFrom(e) \/ SendFails(e)
      PROVE  SelfHoldsNoConnection' /\ EntitiesAreConnections'
  <2>1. e # Self /\ e \in EntityId
    BY DEF VisitsAreValid, IInv, TypeOK
  <2>2. entities' = entities
    BY <1>9 DEF ReceiveFrom, SendFails
  <2>3. \A f \in EntityId : \/ comps'[f] = comps[f]
                            \/ f = e /\ comps'[f] = comps[f] \cup {Pending}
    BY <1>9, <2>1 DEF ReceiveFrom, SendFails, IInv, TypeOK
  <2>4. entities \subseteq EntityId /\ Self \in EntityId
    BY DEF IInv, TypeOK
  <2> QED BY <2>1, <2>2, <2>3, <2>4
<1>10. ASSUME NEW c \in Conn, PeerClose(c) \/ PeerReset(c)
       PROVE  SelfHoldsNoConnection' /\ EntitiesAreConnections'
  <2>1. entities' = entities /\ comps' = comps
    BY <1>10 DEF PeerClose, PeerReset
  <2> QED BY <2>1
<1> QED
  BY <1>1, <1>2, <1>3, <1>4, <1>5, <1>6, <1>7, <1>8, <1>9, <1>10,
     ServerChangedBy

(* Connections are closed before their entities are destroyed.             *)
LEMMA DestroyedAfterCloseStep ==
  ASSUME IInv, ServerInv, [ServerNext]_vars
  PROVE  DestroyedAfterClose'
<1> USE DEF ServerInv, DestroyedAfterClose
<1>1. CASE UNCHANGED <<entities, nextEntityId, comps, sock, peer>>
  BY <1>1
<1>2. CASE StartTcpListen
  BY <1>2 DEF StartTcpListen, IInv, TypeOK
<1>3. CASE Stop
  BY <1>3 DEF Stop, StopTcpListen, IInv, TypeOK
<1>4. CASE DisconnectSystem
  BY <1>4 DEF DisconnectSystem, DestroyedByDisconnect, Query, IInv, TypeOK,
              FreshIds, SelfStages, ConnectionStages, StageOK
<1>5. CASE PendingDisconnectSystem
  BY <1>5 DEF PendingDisconnectSystem, RemovedOnDisconnect, Query, IInv, TypeOK
<1>6. CASE ClearNewConnections
  BY <1>6 DEF ClearNewConnections, IInv, TypeOK
<1>7. CASE AcceptConnection
  BY <1>7 DEF AcceptConnection, AcceptedComponents, IInv, TypeOK
<1>8. CASE SweepDestroyed
  BY <1>8 DEF SweepDestroyed, ErasedFromStores, IInv, TypeOK
<1>9. ASSUME NEW e \in todo, ReceiveFrom(e) \/ SendFails(e)
      PROVE  DestroyedAfterClose'
  <2>1. comps' = comps \/ comps' = [comps EXCEPT ![e] = @ \cup {Pending}]
    BY <1>9 DEF ReceiveFrom, SendFails
  <2>2. comps \in [EntityId -> SUBSET Component]
    BY DEF IInv, TypeOK
  <2>3. \A f \in EntityId : \/ comps'[f] = comps[f]
                            \/ comps'[f] = comps[f] \cup {Pending}
    <3> HIDE DEF EntityId, Component, Pending
    <3> QED BY <2>1, <2>2
  <2> QED BY <2>3
<1>10. ASSUME NEW c \in Conn, PeerClose(c) \/ PeerReset(c)
       PROVE  DestroyedAfterClose'
  <2>1. comps' = comps
    BY <1>10 DEF PeerClose, PeerReset
  <2> QED BY <2>1
<1> QED
  BY <1>1, <1>2, <1>3, <1>4, <1>5, <1>6, <1>7, <1>8, <1>9, <1>10,
     ServerChangedBy

(* What holds of the entities of every server.                             *)
THEOREM ServerInvariant == ServerSpec => []ServerInv
<1>1. Init => ServerInv
  BY DEF Init, ServerInv, SelfHoldsNoConnection, EntitiesAreConnections,
         DestroyedAfterClose
<1>2. IInv /\ ServerInv /\ [ServerNext]_vars => ServerInv'
  BY ServerEntitiesStep, DestroyedAfterCloseStep DEF ServerInv
<1> QED BY <1>1, <1>2, ServerIsEngine, PTL DEF ServerSpec

(* While send buffers do not fill, only a lost peer makes an entity        *)
(* pending.                                                                *)
LEMMA PendingHasNoPeerStep ==
  ASSUME ~BackPressure, IInv, SInv, [ServerNext]_vars
  PROVE  PendingHasNoPeer'
<1> USE DEF SInv, ServerInv, PendingHasNoPeer
<1>1. CASE UNCHANGED <<entities, nextEntityId, comps, sock, peer>>
  BY <1>1
<1>2. CASE StartTcpListen
  BY <1>2 DEF StartTcpListen, IInv, TypeOK
<1>3. CASE Stop
  BY <1>3 DEF Stop, StopTcpListen, IInv, TypeOK
<1>4. CASE DisconnectSystem
  BY <1>4 DEF DisconnectSystem, IInv, TypeOK
<1>5. CASE PendingDisconnectSystem
  BY <1>5 DEF PendingDisconnectSystem, RemovedOnDisconnect, CloseSockets,
              IInv, TypeOK
<1>6. CASE ClearNewConnections
  BY <1>6 DEF ClearNewConnections, IInv, TypeOK
<1>7. CASE AcceptConnection
  BY <1>7 DEF AcceptConnection, AcceptedComponents, IInv, TypeOK
<1>8. CASE SweepDestroyed
  BY <1>8 DEF SweepDestroyed, ErasedFromStores, CloseSockets, IInv, TypeOK
<1>9. ASSUME NEW e \in todo, ReceiveFrom(e) PROVE PendingHasNoPeer'
  BY <1>9 DEF ReceiveFrom, NoticesClose, IInv, TypeOK
<1>10. ASSUME NEW e \in todo, SendFails(e) PROVE PendingHasNoPeer'
  BY <1>10 DEF SendFails, IInv, TypeOK
<1>11. ASSUME NEW c \in Conn, PeerClose(c) \/ PeerReset(c)
       PROVE  PendingHasNoPeer'
  <2>1. /\ comps' = comps /\ sock' = sock
        /\ \A x \in Conn : peer'[x] = "open" => peer[x] = "open"
    BY <1>11 DEF PeerClose, PeerReset, IInv, TypeOK
  <2>2. \A e \in EntityId : Pending \in comps[e] => sock[e] \in Conn
    BY DEF IInv, TypeOK, FreshIds, SocketOwnership, SocketHasConnection,
           ConnectionStages, StageOK, SelfHoldsNoConnection
  <2> QED BY <2>1, <2>2
<1> QED
  BY <1>1, <1>2, <1>3, <1>4, <1>5, <1>6, <1>7, <1>8, <1>9, <1>10, <1>11,
     ServerChangedBy

(* No step of a server takes a connection from its entity while the peer   *)
(* is there.                                                               *)
LEMMA HealthyStep ==
  ASSUME IInv, SInv, [ServerNext]_vars, NEW e \in EntityId, sock[e] # NoConn,
         peer[sock[e]] = "open", Destroy \notin comps[e]
  PROVE  sock'[e] = sock[e]
<1>1. CASE PendingDisconnectSystem
  BY <1>1 DEF PendingDisconnectSystem, CloseSockets, Query, SInv,
              PendingHasNoPeer, IInv, TypeOK
<1>2. CASE AcceptConnection
  BY <1>2 DEF AcceptConnection, IInv, TypeOK, FreshIds, SocketOwnership,
              SocketHasConnection
<1>3. CASE SweepDestroyed
  BY <1>3 DEF SweepDestroyed, CloseSockets, Query, IInv, TypeOK
<1> QED
  BY <1>1, <1>2, <1>3, ServerChangedBy
  DEF StartTcpListen, Stop, StopTcpListen, DisconnectSystem,
      ClearNewConnections, ReceiveFrom, SendFails, PeerClose, PeerReset

LEMMA HealthyServer ==
  ASSUME ~BackPressure
  PROVE  ServerSpec => []IInv /\ []SInv
<1>1. Init => PendingHasNoPeer
  BY DEF Init, PendingHasNoPeer
<1>2. IInv /\ SInv /\ [ServerNext]_vars => PendingHasNoPeer'
  BY PendingHasNoPeerStep
<1>3. ServerSpec => []IInv /\ []ServerInv
  BY ServerIsEngine, ServerInvariant, PTL
<1>4. SInv <=> PendingHasNoPeer /\ ServerInv
  BY DEF SInv
<1> QED BY <1>1, <1>2, <1>3, <1>4, PTL DEF ServerSpec

(* A server whose kernel buffers do not fill closes no connection whose    *)
(* peer is still there.                                                    *)
THEOREM ServerKeepsHealthyConnections ==
  ASSUME ~BackPressure
  PROVE  ServerSpec => HealthyConnectionKept
<1> DEFINE Kept == \A e \in EntityId :
                     /\ sock[e] # NoConn
                     /\ peer[sock[e]] = "open"
                     /\ Destroy \notin comps[e]
                     /\ phase # "App"
                     => sock'[e] = sock[e]
<1>1. IInv /\ SInv /\ [ServerNext]_vars => [Kept]_vars
  BY HealthyStep
<1> QED
  BY <1>1, HealthyServer, PTL DEF ServerSpec, HealthyConnectionKept

-----------------------------------------------------------------------------
(* A server and a client on one network.                                   *)

(* In a session, the server's half is a server.                            *)
LEMMA SessionServerStep == [SessionNext]_sessionVars => [ServerNext]_vars
<1> SUFFICES ASSUME [SessionNext]_sessionVars PROVE [ServerNext]_vars
  OBVIOUS
<1>1. CASE ServerMoves
  BY <1>1 DEF ServerMoves, ServerSystems, ServerNext
<1>2. CASE ClientMoves
  BY <1>2 DEF ClientMoves, ClientSystems, server
<1>3. ASSUME NEW c \in Conn,
             Connect(c) \/ ServerIsTold(c) \/ ClientIsTold(c) \/ Broken(c)
      PROVE  [ServerNext]_vars
  BY <1>3 DEF Connect, ServerIsTold, ClientIsTold, Broken, server, ServerNext,
              Peers
<1>4. CASE UNCHANGED sessionVars
  BY <1>4 DEF sessionVars, server
<1> QED
  BY <1>1, <1>2, <1>3, <1>4, FragileAssumption DEF SessionNext, Network

(* And the client's half is a client.                                      *)
LEMMA SessionClientStep == [SessionNext]_sessionVars => [C!ClientNext]_client
<1> SUFFICES ASSUME [SessionNext]_sessionVars PROVE [C!ClientNext]_client
  OBVIOUS
<1>1. CASE ServerMoves
  BY <1>1 DEF ServerMoves, ServerSystems
<1>2. CASE ClientMoves
  BY <1>2 DEF ClientMoves, ClientSystems, C!ClientNext, C!ClientCalls
<1>3. ASSUME NEW c \in Conn,
             Connect(c) \/ ServerIsTold(c) \/ ClientIsTold(c) \/ Broken(c)
      PROVE  [C!ClientNext]_client
  BY <1>3 DEF Connect, ServerIsTold, ClientIsTold, Broken, C!ClientNext,
              C!ClientCalls, C!Peers
<1>4. CASE UNCHANGED sessionVars
  BY <1>4 DEF sessionVars
<1> QED
  BY <1>1, <1>2, <1>3, <1>4, FragileAssumption DEF SessionNext, Network

(* Each half of a session behaves as the program it is alone: what its     *)
(* peers are there left open, the other half does.                         *)
THEOREM SessionIsServerAndClient == SessionSpec => ServerSpec /\ C!ClientSpec
<1>1. SessionInit => Init /\ C!Init
  BY DEF SessionInit
<1>2. [SessionNext]_sessionVars => [C!ClientNext]_C!vars
  BY SessionClientStep
  DEF client, C!vars, C!ecsVars, C!loopVars, C!netVars
<1> QED
  BY <1>1, <1>2, SessionServerStep, PTL
  DEF SessionSpec, ServerSpec, C!ClientSpec

(* What the kernels of a session know of each other: an end that the       *)
(* server's has been told of is one of the client's, and a client has no   *)
(* listener.                                                               *)
ClientKernel ==
  /\ c_handle \in [Conn -> {"unused", "queued", "open", "closed"}]
  /\ c_backlog = <<>>

EndsAreReal == \A c \in Conn \ Fragile : peer[c] # "open" => c_handle[c] = "closed"

(* A connection that a client has closed stays closed.                     *)
LEMMA ClosedForGood ==
  ASSUME ClientKernel, [C!ClientNext]_client, c_backlog' = <<>>
  PROVE  /\ ClientKernel'
         /\ \A c \in Conn : c_handle[c] = "closed" => c_handle'[c] = "closed"
<1> USE DEF ClientKernel
<1> DEFINE Goal == /\ ClientKernel'
                   /\ \A c \in Conn :
                        c_handle[c] = "closed" => c_handle'[c] = "closed"
<1>1. CASE c_handle' = c_handle
  BY <1>1
<1>2. ASSUME NEW T, C!CloseSockets(T) PROVE Goal
  BY <1>2 DEF C!CloseSockets
<1>3. CASE C!Disconnect
  BY <1>2, <1>3 DEF C!Disconnect, C!StopTcpConnect
<1>4. CASE C!PendingDisconnectSystem
  BY <1>2, <1>4 DEF C!PendingDisconnectSystem
<1>5. CASE C!SweepDestroyed
  BY <1>2, <1>5 DEF C!SweepDestroyed
<1>6. ASSUME NEW c \in Conn, C!ConnectTo(c) PROVE Goal
  BY <1>6 DEF C!ConnectTo, C!StartTcpConnect, C!StartTcpConnectFails,
              C!BacklogClosed
<1>7. CASE C!AcceptConnection \/ C!AcceptDropped
  BY <1>7 DEF C!AcceptConnection, C!AcceptDropped
<1>8. CASE C!ClientBeginUpdate \/ C!ClientEndUpdate \/ C!ClientSendTcpMessage
  BY <1>1, <1>8 DEF C!ClientBeginUpdate, C!BeginUpdate, C!ClientEndUpdate,
     C!EndUpdate, C!ClientSendTcpMessage, C!SendTcpMessage, C!netVars
<1>9. CASE \/ C!DisconnectSystem \/ C!ClearNewConnections \/ C!AcceptDone
           \/ C!ReceiveDone \/ C!SendDone
  BY <1>1, <1>9 DEF C!DisconnectSystem, C!ClearNewConnections, C!AcceptDone,
     C!ReceiveDone, C!SendDone, C!netVars
<1>10. ASSUME NEW e \in c_todo,
              \/ C!ReceiveFrom(e) \/ C!ReceiveThrows(e) \/ C!SendPassesOver(e)
              \/ C!SendAll(e) \/ C!SendPart(e) \/ C!SendFails(e)
       PROVE  Goal
  BY <1>1, <1>10 DEF C!ReceiveFrom, C!ReceiveThrows, C!SendPassesOver,
     C!SendAll, C!SendPart, C!SendFails, C!netVars
<1>11. ASSUME NEW c \in Conn,
              C!PeerConnect(c) \/ C!PeerClose(c) \/ C!PeerReset(c)
       PROVE  Goal
  BY <1>1, <1>11 DEF C!PeerConnect, C!PeerClose, C!PeerReset
<1>12. CASE UNCHANGED client
  BY <1>1, <1>12 DEF client, C!vars, C!netVars
<1> QED
  BY <1>3, <1>4, <1>5, <1>6, <1>7, <1>8, <1>9, <1>10, <1>11, <1>12
  DEF C!ClientNext, C!ClientCalls, C!Systems, C!Peers

(* The client of a session takes no connections itself.                    *)
LEMMA ClientBacklogStep ==
  ASSUME ClientKernel, [SessionNext]_sessionVars
  PROVE  c_backlog' = <<>>
<1> USE DEF ClientKernel
<1>1. CASE ServerMoves
  BY <1>1 DEF ServerMoves, ServerSystems, client, C!vars, C!netVars
<1>2. CASE ClientSystems
  BY <1>2 DEF ClientSystems, C!Systems, C!DisconnectSystem,
     C!PendingDisconnectSystem, C!ClearNewConnections, C!AcceptConnection,
     C!AcceptDropped, C!AcceptDone, C!ReceiveDone, C!SendDone,
     C!SweepDestroyed, C!ReceiveFrom, C!ReceiveThrows, C!SendPassesOver,
     C!SendAll, C!SendPart, C!SendFails, C!netVars
<1>3. CASE \/ C!Disconnect \/ C!ClientBeginUpdate \/ C!ClientEndUpdate
           \/ C!ClientSendTcpMessage
  BY <1>3 DEF C!Disconnect, C!StopTcpConnect, C!ClientBeginUpdate,
     C!BeginUpdate, C!ClientEndUpdate, C!EndUpdate, C!ClientSendTcpMessage,
     C!SendTcpMessage, C!netVars
<1>4. ASSUME NEW c \in Conn,
             Connect(c) \/ ServerIsTold(c) \/ ClientIsTold(c) \/ Broken(c)
      PROVE  c_backlog' = <<>>
  BY <1>4 DEF Connect, C!ConnectTo, C!StartTcpConnect, C!StartTcpConnectFails,
     ServerIsTold, ClientIsTold, Broken, C!PeerClose, C!PeerReset,
     client, C!vars, C!netVars
<1>5. CASE UNCHANGED sessionVars
  BY <1>5 DEF sessionVars, client, C!vars, C!netVars
<1> QED
  BY <1>1, <1>2, <1>3, <1>4, <1>5, FragileAssumption
  DEF SessionNext, ClientMoves, Network

(* The server is told of the end of a connection only when the client has  *)
(* closed it or the network broke it.                                      *)
LEMMA EndsAreRealStep ==
  ASSUME IInv, ClientKernel, EndsAreReal, [SessionNext]_sessionVars
  PROVE  ClientKernel' /\ EndsAreReal'
<1>1. /\ ClientKernel'
      /\ \A c \in Conn : c_handle[c] = "closed" => c_handle'[c] = "closed"
  BY ClosedForGood, ClientBacklogStep, SessionClientStep
<1>2. ASSUME NEW c \in Conn \ Fragile, peer'[c] # "open", peer[c] = "open"
      PROVE  c_handle[c] = "closed"
  <2>1. peer \in [Conn -> {"open", "closed", "reset"}]
    BY DEF IInv, TypeOK
  <2>2. CASE \E d \in Conn : ServerIsTold(d)
    BY <1>2, <2>1, <2>2 DEF ServerIsTold, PeerClose, PeerReset
  <2>3. CASE \E d \in Fragile : Broken(d)
    BY <1>2, <2>1, <2>3 DEF Broken, PeerReset
  <2>4. CASE ServerMoves
    <3>1. peer' = peer
      BY <2>4 DEF ServerMoves, ServerSystems, ServerCalls, Start, Stop,
         StartTcpListen, StopTcpListen, ServerBeginUpdate, BeginUpdate,
         ServerEndUpdate, EndUpdate, ServerSendTcpMessage, SendTcpMessage,
         Systems, DisconnectSystem, PendingDisconnectSystem,
         ClearNewConnections, AcceptConnection, AcceptDropped, AcceptDone,
         ReceiveDone, SendDone, SweepDestroyed, ReceiveFrom, ReceiveThrows,
         SendPassesOver, SendAll, SendPart, SendFails
    <3> QED BY <1>2, <3>1
  <2>5. CASE ClientMoves \/ (\E d \in Conn : Connect(d) \/ ClientIsTold(d))
             \/ UNCHANGED sessionVars
    <3>1. peer' = peer
      BY <2>5 DEF ClientMoves, ClientSystems, Connect, PeerConnect,
         ClientIsTold, sessionVars, server, vars
    <3> QED BY <1>2, <3>1
  <2> QED
    BY <2>2, <2>3, <2>4, <2>5 DEF SessionNext, Network
<1> QED BY <1>1, <1>2 DEF EndsAreReal

(* A server's step leaves a connection open whose peer is there.           *)
LEMMA OpenStaysOpen ==
  ASSUME IInv, IInv', SInv, [ServerNext]_vars, NEW c \in Conn,
         handle[c] = "open", peer[c] = "open"
  PROVE  handle'[c] = "open"
<1>1. PICK e \in EntityId : sock[e] = c
  BY DEF IInv, SocketOwnership, OpenIsOwned
<1>2. c # NoConn /\ Socket \in comps[e]
  BY <1>1 DEF IInv, SocketOwnership, SocketHasConnection
<1>3. Destroy \notin comps[e]
  BY <1>2 DEF SInv, ServerInv, DestroyedAfterClose
<1>4. sock'[e] = c
  BY <1>1, <1>2, <1>3, HealthyStep
<1> QED BY <1>4 DEF IInv, SocketOwnership, OpenIsOwned

(* Whatever a client does and whenever its kernel and the server's hear of *)
(* it, the server closes a connection it accepted only once the client has *)
(* closed it, unless the network broke it or a send buffer can fill.       *)
THEOREM ServerHangsUpOnNobody ==
  ASSUME ~BackPressure
  PROVE  SessionSpec => ClientsAreKept
<1> DEFINE Kept == \A c \in Conn \ Fragile :
                     handle[c] = "open" /\ handle'[c] # "open"
                       => c_handle[c] = "closed"
<1>1. SessionInit => ClientKernel /\ EndsAreReal
  BY DEF SessionInit, C!Init, Init, ClientKernel, EndsAreReal
<1>2. IInv /\ ClientKernel /\ EndsAreReal /\ [SessionNext]_sessionVars
        => ClientKernel' /\ EndsAreReal'
  BY EndsAreRealStep
<1>3. SessionSpec => []IInv /\ []SInv
  BY SessionIsServerAndClient, HealthyServer, PTL
<1>4. IInv /\ IInv' /\ SInv /\ EndsAreReal /\ [SessionNext]_sessionVars
        => [Kept]_sessionVars
  BY OpenStaysOpen, SessionServerStep DEF EndsAreReal
<1> QED
  BY <1>1, <1>2, <1>3, <1>4, PTL DEF SessionSpec, ClientsAreKept

-----------------------------------------------------------------------------
(***************************************************************************)
(* A server implements ConnectionLifecycle, whatever its constants: no     *)
(* connection skips "new" or "disconnected" or shows either twice, and no  *)
(* id comes back.                                                          *)
(*                                                                         *)
(* The history variable `stage' is what the application last saw, Seen is  *)
(* what it would see now.  The proof follows how far apart the systems of  *)
(* one beginUpdate take the two: each system but the last leaves a part of *)
(* the way that OnBegin allows, and none of endUpdate leaves any.          *)
(***************************************************************************)

OnBegin == Lifecycle!OnBegin

(* How far the update has taken an entity, in each phase: s is its stage,  *)
(* n what it looks like now.                                               *)
Destroying(s) == IF s = "disconnected" THEN "leaving" ELSE s

Disconnecting(s, n) == s \in {"new", "connected"} /\ n = "disconnected"

Moved(s, n) ==
  /\ phase \in {"App", "Disconnect", "Send", "Sweep"} => n = s
  /\ phase = "PendingDisconnect" => n = Destroying(s)
  /\ phase = "Accept" => n = Destroying(s) \/ Disconnecting(s, n)
  /\ phase \in {"AcceptLoop", "Receive"} => n \in OnBegin[s]

ContractInv ==
  /\ tick \in {0, 1}
  /\ stage \in [ConnectionId -> Lifecycle!Stage]
  /\ \A e \in ConnectionId : Moved(stage[e], Seen(e))

-----------------------------------------------------------------------------
(* What each step of a server does to what its application would see.      *)

(* Seen depends on the tags of an entity and on nothing else.              *)
LEMMA SeenByTags ==
  ASSUME NEW e \in ConnectionId, entities' = entities,
         nextEntityId' = nextEntityId,
         \A k \in {Connected, New, Disconnected} :
           k \in comps'[e] <=> k \in comps[e]
  PROVE  Seen(e)' = Seen(e)
  BY DEF Seen

(* The steps that no application sees, and the phases they lead through.   *)
LEMMA SeenKept ==
  ASSUME IInv, ServerNext,
         ~(\/ DisconnectSystem \/ PendingDisconnectSystem
           \/ ClearNewConnections \/ AcceptConnection \/ SweepDestroyed)
  PROVE  /\ \A e \in ConnectionId : Seen(e)' = Seen(e)
         /\ \/ phase' = phase
            \/ phase = "App" /\ phase' \in {"Disconnect", "Send"}
            \/ phase = "AcceptLoop" /\ phase' = "Receive"
            \/ phase = "Receive" /\ phase' = "App"
            \/ phase = "Send" /\ phase' = "Sweep"
<1> USE DEF IInv, TypeOK
<1>1. CASE \/ ServerBeginUpdate \/ ServerEndUpdate \/ AcceptDone
           \/ ReceiveDone \/ SendDone
           \/ \E e \in todo : ReceiveThrows(e)
  <2>1. UNCHANGED <<entities, nextEntityId, comps>>
    BY <1>1 DEF ServerBeginUpdate, ServerEndUpdate, BeginUpdate, EndUpdate,
                AcceptDone, ReceiveDone, SendDone, ReceiveThrows
  <2>2. \A e \in ConnectionId : Seen(e)' = Seen(e)
    BY <2>1, SeenByTags
  <2> QED
    BY <1>1, <2>2 DEF ServerBeginUpdate, ServerEndUpdate, BeginUpdate,
       EndUpdate, AcceptDone, ReceiveDone, SendDone, ReceiveThrows, After
<1>2. CASE \/ Start \/ Stop \/ AcceptDropped \/ Peers
           \/ \E e \in EntityId : ServerSendTcpMessage(e)
           \/ \E e \in todo : \/ ReceiveFrom(e) \/ SendPassesOver(e)
                             \/ SendAll(e) \/ SendPart(e) \/ SendFails(e)
  <2>1. UNCHANGED <<entities, nextEntityId, phase>>
    BY <1>2 DEF Start, StartTcpListen, Stop, StopTcpListen, AcceptDropped,
                Peers, PeerConnect, PeerClose, PeerReset,
                ServerSendTcpMessage, SendTcpMessage, ReceiveFrom,
                SendPassesOver, SendAll, SendPart, SendFails
  <2>2. ASSUME NEW e \in ConnectionId,
               NEW k \in {Connected, New, Disconnected}
        PROVE  k \in comps'[e] <=> k \in comps[e]
    <3>1. /\ e \in EntityId /\ e # Self
          /\ k \notin {Pending, Listen, Listening}
      BY <2>2 DEF ConnectionId
    <3>2. CASE Start \/ Stop
      BY <3>1, <3>2 DEF Start, StartTcpListen, Stop, StopTcpListen
    <3>3. CASE \E i \in todo : ReceiveFrom(i) \/ SendFails(i)
      <4>1. PICK i \in todo : ReceiveFrom(i) \/ SendFails(i)
        BY <3>3
      <4>2. \/ UNCHANGED comps
            \/ comps' = [comps EXCEPT ![i] = @ \cup {Pending}]
        BY <4>1 DEF ReceiveFrom, SendFails
      <4>3. k # Pending /\ comps \in [EntityId -> SUBSET Component]
        BY <3>1
      <4> HIDE DEF IInv, TypeOK
      <4> QED BY <3>1, <4>2, <4>3
    <3>4. CASE UNCHANGED comps
      BY <3>4
    <3> QED
      BY <1>2, <3>2, <3>3, <3>4 DEF AcceptDropped, Peers, PeerConnect,
         PeerClose, PeerReset, ServerSendTcpMessage, SendTcpMessage,
         SendPassesOver, SendAll, SendPart, ecsVars
  <2>3. \A e \in ConnectionId : Seen(e)' = Seen(e)
    BY <2>1, <2>2, SeenByTags
  <2> QED BY <2>1, <2>3
<1> QED BY <1>1, <1>2 DEF ServerNext, ServerCalls, Systems

(* DisconnectSystem turns disconnected entities into leaving ones.         *)
LEMMA SeenByDisconnect ==
  ASSUME IInv, DisconnectSystem, NEW e \in ConnectionId
  PROVE  Seen(e)' = Destroying(Seen(e))
<1> USE DEF IInv, TypeOK, ConnectionId
<1>1. e \in EntityId /\ e # Self
  OBVIOUS
<1>2. UNCHANGED <<entities, nextEntityId>>
  BY DEF DisconnectSystem
<1>3. CASE e \in Query({Disconnected})
  <2>1. e \in entities /\ Disconnected \in comps[e]
    BY <1>3 DEF Query
  <2>2. Connected \notin comps[e]
    BY <1>1, <2>1 DEF ConnectionStages, StageOK, Bundle
  <2>3. Disconnected \notin comps'[e] /\ Connected \notin comps'[e]
    BY <1>1, <1>3, <2>2 DEF DisconnectSystem
  <2> QED BY <1>2, <2>1, <2>2, <2>3 DEF Seen, Destroying
<1>4. CASE e \notin Query({Disconnected})
  <2>1. \A k \in {Connected, New, Disconnected} :
          k \in comps'[e] <=> k \in comps[e]
    BY <1>1, <1>4 DEF DisconnectSystem, DestroyedByDisconnect
  <2>2. Seen(e)' = Seen(e)
    BY <1>2, <2>1, SeenByTags
  <2>3. Seen(e) # "disconnected"
    BY <1>4 DEF Seen, Query
  <2> QED BY <2>2, <2>3 DEF Destroying
<1> QED BY <1>3, <1>4

(* PendingDisconnectSystem disconnects some that are new or connected.     *)
LEMMA SeenByPending ==
  ASSUME IInv, PendingDisconnectSystem, NEW e \in ConnectionId
  PROVE  Seen(e)' = Seen(e) \/ Disconnecting(Seen(e), Seen(e)')
<1> USE DEF IInv, TypeOK, ConnectionId
<1>1. e \in EntityId /\ e # Self
  OBVIOUS
<1>2. UNCHANGED <<entities, nextEntityId>>
  BY DEF PendingDisconnectSystem
<1>3. CASE e \in Query({Pending, Socket})
  <2>1. e \in entities /\ Socket \in comps[e]
    BY <1>3 DEF Query
  <2>2. Connected \in comps[e]
    BY <1>1, <2>1 DEF ConnectionStages, StageOK, Bundle
  <2>3. Disconnected \in comps'[e] /\ Connected \notin comps'[e]
    BY <1>1, <1>3 DEF PendingDisconnectSystem, RemovedOnDisconnect
  <2> QED BY <1>2, <2>1, <2>2, <2>3 DEF Seen, Disconnecting
<1>4. CASE e \notin Query({Pending, Socket})
  <2>1. comps'[e] = comps[e]
    BY <1>1, <1>4 DEF PendingDisconnectSystem
  <2> QED BY <1>2, <2>1, SeenByTags
<1> QED BY <1>3, <1>4

(* AcceptConnectionSystem first makes the new connections old ones.        *)
LEMMA SeenByClearNew ==
  ASSUME IInv, ClearNewConnections, NEW e \in ConnectionId
  PROVE  Seen(e)' = IF Seen(e) = "new" THEN "connected" ELSE Seen(e)
<1>1. UNCHANGED <<entities, nextEntityId>>
  BY DEF ClearNewConnections
<1>2. e \in EntityId
  BY DEF ConnectionId
<1>3. /\ New \notin comps'[e]
      /\ Connected \in comps'[e] <=> Connected \in comps[e]
      /\ Disconnected \in comps'[e] <=> Disconnected \in comps[e]
  BY <1>2 DEF ClearNewConnections
<1> QED BY <1>1, <1>3 DEF Seen

(* Then it gives each connection it accepts the next id.                   *)
LEMMA SeenByAccept ==
  ASSUME IInv, AcceptConnection, NEW e \in ConnectionId
  PROVE  Seen(e)' = Seen(e) \/ (Seen(e) = "none" /\ Seen(e)' = "new")
<1> USE DEF IInv, TypeOK, ConnectionId
<1>1. nextEntityId \in EntityId /\ nextEntityId \notin entities
  BY DEF AcceptConnection, FreshIds
<1>2. CASE e = nextEntityId
  <2>1. e \in entities' /\ comps'[e] = AcceptedComponents
    BY <1>1, <1>2 DEF AcceptConnection
  <2>2. Seen(e)' = "new"
    BY <2>1 DEF Seen, AcceptedComponents
  <2>3. Seen(e) = "none"
    BY <1>1, <1>2 DEF Seen
  <2> QED BY <2>2, <2>3
<1>3. CASE e # nextEntityId
  <2>1. comps'[e] = comps[e]
    BY <1>3 DEF AcceptConnection
  <2>2. e \in entities' <=> e \in entities
    BY <1>3 DEF AcceptConnection
  <2>3. e < nextEntityId' <=> e < nextEntityId
    BY <1>3 DEF AcceptConnection
  <2> QED BY <2>1, <2>2, <2>3 DEF Seen
<1> QED BY <1>2, <1>3

(* The sweep takes the leaving entities, and only those.                   *)
LEMMA SeenBySweep ==
  ASSUME IInv, ServerInv, SweepDestroyed, NEW e \in ConnectionId
  PROVE  Seen(e)' = IF Seen(e) = "leaving" THEN "gone" ELSE Seen(e)
<1> USE DEF IInv, TypeOK, ConnectionId
<1>1. e \in EntityId /\ e # Self /\ nextEntityId' = nextEntityId
  BY DEF SweepDestroyed
<1>2. e \in entities => (Destroy \in comps[e] <=> Seen(e) = "leaving")
  <2> SUFFICES ASSUME e \in entities
               PROVE  Destroy \in comps[e] <=> Seen(e) = "leaving"
    OBVIOUS
  <2>1. StageOK(comps[e]) /\ Root \in comps[e]
    BY <1>1 DEF ConnectionStages, ServerInv, EntitiesAreConnections
  <2>2. Destroy \in comps[e] => {Socket, Disconnected} \cap comps[e] = {}
    BY <1>1 DEF ServerInv, DestroyedAfterClose
  <2>3. Connected \in comps[e] <=> Socket \in comps[e]
    BY <2>1 DEF StageOK, Bundle
  <2> QED BY <2>1, <2>2, <2>3 DEF Seen, StageOK
<1>3. CASE e \in entities /\ Destroy \in comps[e]
  <2>1. e \notin entities' /\ e < nextEntityId'
    BY <1>1, <1>3 DEF SweepDestroyed, Query, FreshIds
  <2> QED BY <1>2, <1>3, <2>1 DEF Seen
<1>4. CASE ~(e \in entities /\ Destroy \in comps[e])
  <2>1. e \in entities' <=> e \in entities
    BY <1>1, <1>4 DEF SweepDestroyed, Query
  <2>2. comps'[e] = comps[e]
    BY <1>1, <1>4 DEF SweepDestroyed, ErasedFromStores, Query
  <2>3. Seen(e)' = Seen(e)
    BY <1>1, <2>1, <2>2 DEF Seen
  <2>4. Seen(e) # "leaving"
    BY <1>2, <1>4 DEF Seen
  <2> QED BY <2>3, <2>4
<1> QED BY <1>3, <1>4

-----------------------------------------------------------------------------
(* The refinement.                                                         *)

LEMMA SeenIsStage == \A e : Seen(e) \in Lifecycle!Stage
  BY DEF Seen, Lifecycle!Stage

(* Ids are given out in order: after one not yet used, none is used.       *)
LEMMA NoneIsLast ==
  ASSUME IInv, NEW e \in ConnectionId, NEW f \in ConnectionId, e < f,
         Seen(e) = "none"
  PROVE  Seen(f) = "none"
  BY DEF IInv, TypeOK, FreshIds, Seen, ConnectionId

(* The phases through which the five steps that change Seen lead.          *)
LEMMA ChangingPhases ==
  /\ DisconnectSystem => phase = "Disconnect" /\ phase' = "PendingDisconnect"
  /\ PendingDisconnectSystem => phase = "PendingDisconnect" /\ phase' = "Accept"
  /\ ClearNewConnections => phase = "Accept" /\ phase' = "AcceptLoop"
  /\ AcceptConnection => phase = "AcceptLoop" /\ phase' = "AcceptLoop"
  /\ SweepDestroyed => phase = "Sweep" /\ phase' = "App"
  BY DEF DisconnectSystem, PendingDisconnectSystem, ClearNewConnections,
         AcceptConnection, SweepDestroyed, After

(* An update goes no further than OnBegin allows, step by step.            *)
LEMMA MovedStep ==
  ASSUME IInv, ServerInv, ContractInv, ContractNext, phase' # "App",
         NEW e \in ConnectionId
  PROVE  Moved(stage[e], Seen(e))'
<1> USE DEF Moved, ContractInv, ContractNext
<1>1. /\ ServerNext /\ stage' = stage
      /\ stage[e] \in Lifecycle!Stage /\ Moved(stage[e], Seen(e))
      /\ phase \in Phase
  BY DEF IInv, TypeOK
<1>2. CASE DisconnectSystem
  BY <1>1, <1>2, ChangingPhases, SeenByDisconnect
<1>3. CASE PendingDisconnectSystem
  BY <1>1, <1>3, ChangingPhases, SeenByPending DEF Disconnecting, Destroying
<1>4. CASE ClearNewConnections
  BY <1>1, <1>4, ChangingPhases, SeenByClearNew
  DEF Disconnecting, Destroying, OnBegin, Lifecycle!OnBegin, Lifecycle!Stage
<1>5. CASE AcceptConnection
  BY <1>1, <1>5, ChangingPhases, SeenByAccept
  DEF OnBegin, Lifecycle!OnBegin, Lifecycle!Stage
<1>6. CASE ~(\/ DisconnectSystem \/ PendingDisconnectSystem
             \/ ClearNewConnections \/ AcceptConnection \/ SweepDestroyed)
  <2>1. Seen(e)' = Seen(e)
    BY <1>1, <1>6, SeenKept
  <2>2. \/ phase' = phase
        \/ phase = "App" /\ phase' \in {"Disconnect", "Send"}
        \/ phase = "AcceptLoop" /\ phase' = "Receive"
        \/ phase = "Receive" /\ phase' = "App"
        \/ phase = "Send" /\ phase' = "Sweep"
    BY <1>1, <1>6, SeenKept
  <2> QED BY <1>1, <2>1, <2>2
<1> QED BY <1>2, <1>3, <1>4, <1>5, <1>6, ChangingPhases

(* Control comes back to the application: from a call that did nothing to  *)
(* a connection, from the sweep, or from beginUpdate.                      *)
LEMMA ReturnStep ==
  ASSUME IInv, IInv', ServerInv, ContractInv, ContractNext, phase' = "App"
  PROVE  \/ phase = "Receive" /\ Lifecycle!BeginReturns
         \/ phase = "Sweep" /\ Lifecycle!EndReturns
         \/ UNCHANGED <<stage, tick>>
<1> USE DEF Moved, ContractInv, ContractNext
<1>1. /\ ServerNext
      /\ stage' = [e \in ConnectionId |-> Seen(e)']
      /\ \A e \in ConnectionId : /\ stage[e] \in Lifecycle!Stage
                                 /\ Moved(stage[e], Seen(e))
  OBVIOUS
<1>2. CASE phase = "App"
  <2>1. \A e \in ConnectionId : Seen(e)' = Seen(e) /\ stage[e] = Seen(e)
    BY <1>1, <1>2, SeenKept, ChangingPhases
  <2>2. stage' = stage
    BY <1>1, <2>1
  <2> QED BY <1>2, <2>2
<1>3. CASE SweepDestroyed
  <2>1. phase = "Sweep"
    BY <1>3, ChangingPhases
  <2>2. \A e \in ConnectionId : /\ stage[e] = Seen(e)
                               /\ Seen(e)' = IF Seen(e) = "leaving"
                                             THEN "gone" ELSE Seen(e)
    BY <1>1, <1>3, <2>1, SeenBySweep
  <2> QED BY <1>1, <2>1, <2>2 DEF Lifecycle!EndReturns
<1>4. CASE phase = "Receive"
  <2>1. \A e \in ConnectionId : Seen(e)' = Seen(e) /\ Seen(e) \in OnBegin[stage[e]]
    BY <1>1, <1>4, SeenKept, ChangingPhases
  <2>2. \A e, f \in ConnectionId : e < f /\ Seen(e)' = "none" => Seen(f)' = "none"
    BY <2>1, NoneIsLast
  <2>3. stage' \in [ConnectionId -> Lifecycle!Stage]
    BY <1>1, <2>1, SeenIsStage
  <2>4. tick' = 1 - tick
    BY <1>4
  <2> QED BY <1>1, <1>4, <2>1, <2>2, <2>3, <2>4 DEF Lifecycle!BeginReturns, OnBegin
<1> QED BY <1>1, <1>2, <1>3, <1>4, SeenKept, ChangingPhases

LEMMA ContractInvStep ==
  ASSUME IInv, IInv', ServerInv, ContractInv,
         [ContractNext]_<<vars, stage, tick>>
  PROVE  ContractInv'
<1>1. CASE UNCHANGED <<vars, stage, tick>>
  BY <1>1 DEF ContractInv, Moved, Seen, vars
<1>2. CASE ContractNext /\ phase' # "App"
  <2>1. stage' = stage /\ tick' = tick
    BY <1>2 DEF ContractNext
  <2> QED BY <1>2, <2>1, MovedStep DEF ContractInv
<1>3. CASE ContractNext /\ phase' = "App"
  <2>1. stage' = [e \in ConnectionId |-> Seen(e)']
    BY <1>3 DEF ContractNext
  <2>2. stage' \in [ConnectionId -> Lifecycle!Stage]
    <3>1. \A e \in ConnectionId : Seen(e)' \in Lifecycle!Stage
      BY SeenIsStage DEF Seen, Lifecycle!Stage
    <3> QED BY <2>1, <3>1
  <2>3. tick' \in {0, 1}
    BY <1>3 DEF ContractNext, ContractInv
  <2> QED BY <1>3, <2>1, <2>2, <2>3 DEF ContractInv, Moved
<1> QED BY <1>1, <1>2, <1>3

LEMMA ContractInitEstablishes == ContractInit => ContractInv /\ Lifecycle!Init
  BY DEF ContractInit, Init, ContractInv, Moved, Seen, Lifecycle!Init,
         Lifecycle!Stage, ConnectionId

(* The record of what the application saw constrains no server.            *)
THEOREM ContractIsServer == ContractSpec => ServerSpec
<1>1. [ContractNext]_<<vars, stage, tick>> => [ServerNext]_vars
  BY DEF ContractNext
<1> QED BY <1>1, PTL DEF ContractSpec, ContractInit, ServerSpec

(* Every server implements ConnectionLifecycle.                            *)
THEOREM ServerImplementsLifecycle == ContractSpec => ImplementsLifecycle
<1>1. ContractSpec => []IInv /\ []ServerInv
  BY ContractIsServer, ServerIsEngine, ServerInvariant, PTL
<1>2. IInv /\ IInv' /\ ServerInv /\ ContractInv
        /\ [ContractNext]_<<vars, stage, tick>> => ContractInv'
  BY ContractInvStep
<1>3. ContractSpec => []ContractInv
  BY <1>1, <1>2, ContractInitEstablishes, PTL DEF ContractSpec
<1>4. IInv /\ IInv' /\ ServerInv /\ ContractInv
        /\ [ContractNext]_<<vars, stage, tick>>
        => [Lifecycle!Next]_<<stage, tick>>
  <2> SUFFICES ASSUME IInv, IInv', ServerInv, ContractInv, ContractNext
               PROVE  [Lifecycle!Next]_<<stage, tick>>
    OBVIOUS
  <2>1. CASE phase' = "App"
    BY <2>1, ReturnStep DEF Lifecycle!Next
  <2>2. CASE phase' # "App"
    BY <2>2 DEF ContractNext
  <2> QED BY <2>1, <2>2
<1> QED
  BY <1>1, <1>3, <1>4, ContractInitEstablishes, PTL
  DEF ContractSpec, ImplementsLifecycle, Lifecycle!Spec
=============================================================================
