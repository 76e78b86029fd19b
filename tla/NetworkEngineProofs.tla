------------------------ MODULE NetworkEngineProofs ------------------------
(***************************************************************************)
(* The invariants of NetworkEngine hold for any number of connections and  *)
(* entities, any limits and any environment.  IInv, their conjunction, is  *)
(* inductive.  Each of its parts reads few variables, so the proof first   *)
(* establishes which actions change which variable, and then shows for     *)
(* each part that those actions preserve it.                               *)
(***************************************************************************)
EXTENDS NetworkEngine, TLAPS

USE IdAssumption, NoConnAssumption, AcceptAssumption, QueueAssumption
USE DEF EntityId, Self, Component, Phase, SelfTag, Root, Listen, Listening,
        Socket, Send, Receive, Connected, New, Pending, Disconnected, Destroy,
        ecsVars, loopVars, netVars

-----------------------------------------------------------------------------
(* The kernel's queue, popped and pushed.                                  *)

(* Tail drops the first of the queue and shifts the others.                *)
LEMMA TailFacts ==
  ASSUME backlog \in Seq(Conn), backlog # <<>>
  PROVE  /\ Head(backlog) = backlog[1] /\ backlog[1] \in Conn
         /\ Tail(backlog) \in Seq(Conn)
         /\ Len(backlog) \in Nat \ {0}
         /\ Len(Tail(backlog)) = Len(backlog) - 1
         /\ \A i \in 1 .. Len(backlog) - 1 : Tail(backlog)[i] = backlog[i + 1]
  OBVIOUS

(* Append puts a connection last and moves no other.                       *)
LEMMA AppendFacts ==
  ASSUME backlog \in Seq(Conn), NEW c \in Conn
  PROVE  /\ Append(backlog, c) \in Seq(Conn)
         /\ Len(backlog) \in Nat
         /\ Len(Append(backlog, c)) = Len(backlog) + 1
         /\ Append(backlog, c)[Len(backlog) + 1] = c
         /\ \A i \in 1 .. Len(backlog) : Append(backlog, c)[i] = backlog[i]
  OBVIOUS

(* startTcpConnectToAddress adds all of its components, or, when a root    *)
(* tag is left over from an earlier connection, the socket alone.          *)
LEMMA AddedCases ==
  ASSUME SelfStages, Socket \notin comps[Self]
  PROVE  AddedByConnect = IF Root \in comps[Self] THEN {Socket}
                          ELSE {Socket, Root, Send, Receive, Connected}
<1>1. CASE Root \in comps[Self]
  BY <1>1 DEF AddedByConnect, ConnectSteps
<1>2. CASE Root \notin comps[Self]
  <2>1. \A n \in 1 .. 5 : ConnectSteps[n] \notin comps[Self]
    BY <1>2 DEF SelfStages, ConnectSteps
  <2> QED BY <1>2, <2>1 DEF AddedByConnect, ConnectSteps
<1> QED BY <1>1, <1>2

(* What startTcpConnectToAddress then does: it connects the engine when no *)
(* root tag is left over, and otherwise stops its listener and leaves a    *)
(* bare socket.                                                            *)
ConnectEffect(c) ==
  /\ Socket \notin comps[Self] /\ handle[c] = "unused"
  /\ sock' = [sock EXCEPT ![Self] = c]
  /\ UNCHANGED <<entities, nextEntityId, queued, phase, todo, accepted, peer>>
  /\ \/ /\ Root \notin comps[Self]
        /\ comps' = [comps EXCEPT ![Self] =
                       @ \cup {Socket, Root, Send, Receive, Connected}]
        /\ handle' = [handle EXCEPT ![c] = "open"]
        /\ backlog' = backlog
     \/ /\ Root \in comps[Self]
        /\ comps' = [comps EXCEPT ![Self] =
                       (@ \ {Listen, Listening}) \cup {Socket}]
        /\ handle' = [BacklogClosed(handle) EXCEPT ![c] = "open"]
        /\ backlog' = <<>>

(* startTcpConnectToAddress has one of these two effects.                  *)
LEMMA StartTcpConnectCases ==
  ASSUME IInv, NEW c \in Conn, StartTcpConnect(c)
  PROVE  ConnectEffect(c)
<1>1. AddedByConnect = IF Root \in comps[Self] THEN {Socket}
                       ELSE {Socket, Root, Send, Receive, Connected}
  BY AddedCases DEF IInv, StartTcpConnect
<1> QED BY <1>1 DEF StartTcpConnect, ConnectEffect

-----------------------------------------------------------------------------
(* Which actions change what.                                              *)

(* The actions that change the set of entities. *)
LEMMA EntitiesChangedBy ==
  ASSUME [Next]_vars
  PROVE  \/ UNCHANGED <<entities, nextEntityId>>
         \/ CreateEntity
         \/ AcceptConnection
         \/ SweepDestroyed
  BY DEF Next, Calls, Systems, Peers, vars, StartTcpListen, StopTcpListen,
       StartTcpConnect, StartTcpConnectFails, StopTcpConnect, CreateEntity,
       DestroyEntity, SendTcpMessage, BeginUpdate, DisconnectSystem,
       PendingDisconnectSystem, ClearNewConnections, AcceptConnection,
       AcceptDropped, AcceptDone, ReceiveFrom, ReceiveThrows, ReceiveDone,
       EndUpdate, SendPassesOver, SendAll, SendPart, SendFails, SendDone,
       SweepDestroyed, PeerConnect, PeerClose, PeerReset

(* The actions that change comps. *)
LEMMA CompsChangedBy ==
  ASSUME [Next]_vars
  PROVE  \/ UNCHANGED comps
         \/ StartTcpListen
         \/ StopTcpListen
         \/ StopTcpConnect
         \/ DisconnectSystem
         \/ PendingDisconnectSystem
         \/ ClearNewConnections
         \/ AcceptConnection
         \/ SweepDestroyed
         \/ \E c \in Conn : StartTcpConnect(c)
         \/ \E e \in EntityId : DestroyEntity(e)
         \/ \E e \in todo : ReceiveFrom(e) \/ SendFails(e)
  BY DEF Next, Calls, Systems, Peers, vars, StartTcpListen, StopTcpListen,
       StartTcpConnect, StartTcpConnectFails, StopTcpConnect, CreateEntity,
       DestroyEntity, SendTcpMessage, BeginUpdate, DisconnectSystem,
       PendingDisconnectSystem, ClearNewConnections, AcceptConnection,
       AcceptDropped, AcceptDone, ReceiveFrom, ReceiveThrows, ReceiveDone,
       EndUpdate, SendPassesOver, SendAll, SendPart, SendFails, SendDone,
       SweepDestroyed, PeerConnect, PeerClose, PeerReset

(* The actions that change sock. *)
LEMMA SockChangedBy ==
  ASSUME [Next]_vars
  PROVE  \/ UNCHANGED sock
         \/ StopTcpConnect
         \/ PendingDisconnectSystem
         \/ AcceptConnection
         \/ SweepDestroyed
         \/ \E c \in Conn : StartTcpConnect(c)
  BY DEF Next, Calls, Systems, Peers, vars, StartTcpListen, StopTcpListen,
       StartTcpConnect, StartTcpConnectFails, StopTcpConnect, CreateEntity,
       DestroyEntity, SendTcpMessage, BeginUpdate, DisconnectSystem,
       PendingDisconnectSystem, ClearNewConnections, AcceptConnection,
       AcceptDropped, AcceptDone, ReceiveFrom, ReceiveThrows, ReceiveDone,
       EndUpdate, SendPassesOver, SendAll, SendPart, SendFails, SendDone,
       SweepDestroyed, PeerConnect, PeerClose, PeerReset

(* The actions that change handle. *)
LEMMA HandleChangedBy ==
  ASSUME [Next]_vars
  PROVE  \/ UNCHANGED handle
         \/ StopTcpListen
         \/ StopTcpConnect
         \/ PendingDisconnectSystem
         \/ AcceptConnection
         \/ AcceptDropped
         \/ SweepDestroyed
         \/ \E c \in Conn : StartTcpConnect(c) \/ StartTcpConnectFails(c) \/ PeerConnect(c)
  BY DEF Next, Calls, Systems, Peers, vars, StartTcpListen, StopTcpListen,
       StartTcpConnect, StartTcpConnectFails, StopTcpConnect, CreateEntity,
       DestroyEntity, SendTcpMessage, BeginUpdate, DisconnectSystem,
       PendingDisconnectSystem, ClearNewConnections, AcceptConnection,
       AcceptDropped, AcceptDone, ReceiveFrom, ReceiveThrows, ReceiveDone,
       EndUpdate, SendPassesOver, SendAll, SendPart, SendFails, SendDone,
       SweepDestroyed, PeerConnect, PeerClose, PeerReset

(* The actions that change backlog. *)
LEMMA BacklogChangedBy ==
  ASSUME [Next]_vars
  PROVE  \/ UNCHANGED backlog
         \/ StopTcpListen
         \/ AcceptConnection
         \/ AcceptDropped
         \/ \E c \in Conn : StartTcpConnect(c) \/ PeerConnect(c)
  BY DEF Next, Calls, Systems, Peers, vars, StartTcpListen, StopTcpListen,
       StartTcpConnect, StartTcpConnectFails, StopTcpConnect, CreateEntity,
       DestroyEntity, SendTcpMessage, BeginUpdate, DisconnectSystem,
       PendingDisconnectSystem, ClearNewConnections, AcceptConnection,
       AcceptDropped, AcceptDone, ReceiveFrom, ReceiveThrows, ReceiveDone,
       EndUpdate, SendPassesOver, SendAll, SendPart, SendFails, SendDone,
       SweepDestroyed, PeerConnect, PeerClose, PeerReset

-----------------------------------------------------------------------------
(* Each part of the invariant is preserved.                                *)

(* Types. *)
LEMMA TypeStep ==
  ASSUME IInv, [Next]_vars
  PROVE  TypeOK'
<1> USE DEF TypeOK
<1>1. CASE UNCHANGED vars
  BY <1>1 DEF IInv, vars
<1>2. CASE StartTcpListen
  BY <1>2 DEF IInv, StartTcpListen
<1>3. CASE StopTcpListen
  BY <1>3 DEF IInv, StopTcpListen, BacklogClosed
<1>4. ASSUME NEW c \in Conn, StartTcpConnect(c) PROVE TypeOK'
  <2>1. ConnectEffect(c)
    BY <1>4, StartTcpConnectCases
  <2>2. comps' \in [EntityId -> SUBSET Component]
    BY <2>1 DEF IInv, ConnectEffect
  <2>3. handle' \in [Conn -> {"unused", "queued", "open", "closed"}]
    BY <2>1 DEF IInv, ConnectEffect, BacklogClosed
  <2>4. backlog' \in Seq(Conn)
    <3>1. backlog' = backlog \/ backlog' = <<>>
      BY <2>1 DEF ConnectEffect
    <3>2. backlog \in Seq(Conn) /\ <<>> \in Seq(Conn)
      BY DEF IInv
    <3> QED BY <3>1, <3>2
  <2>5. sock' \in [EntityId -> Conn \cup {NoConn}]
    BY <2>1 DEF IInv, ConnectEffect
  <2> QED BY <2>1, <2>2, <2>3, <2>4, <2>5 DEF IInv, ConnectEffect
<1>5. ASSUME NEW c \in Conn, StartTcpConnectFails(c) PROVE TypeOK'
  BY <1>5 DEF IInv, StartTcpConnectFails
<1>6. CASE StopTcpConnect
  BY <1>6 DEF IInv, StopTcpConnect, CloseSockets, RemovedByStop
<1>7. CASE CreateEntity
  BY <1>7 DEF IInv, CreateEntity
<1>8. ASSUME NEW e \in EntityId, DestroyEntity(e) PROVE TypeOK'
  BY <1>8 DEF IInv, DestroyEntity
<1>9. ASSUME NEW e \in EntityId, SendTcpMessage(e) PROVE TypeOK'
  BY <1>9 DEF IInv, SendTcpMessage
<1>10. CASE BeginUpdate
  BY <1>10 DEF IInv, BeginUpdate, After
<1>11. CASE DisconnectSystem
  BY <1>11 DEF IInv, DisconnectSystem, After, Query, DestroyedByDisconnect
<1>12. CASE PendingDisconnectSystem
  BY <1>12 DEF IInv, PendingDisconnectSystem, After, Query, CloseSockets,
       RemovedOnDisconnect
<1>13. CASE ClearNewConnections
  BY <1>13 DEF IInv, ClearNewConnections
<1>14. CASE AcceptConnection
  BY <1>14 DEF IInv, AcceptConnection, MayAccept, AcceptedComponents
<1>15. CASE AcceptDropped
  BY <1>15 DEF IInv, AcceptDropped, MayAccept
<1>16. CASE AcceptDone
  <2>1. todo' \subseteq EntityId
    BY <1>16 DEF IInv, AcceptDone, Query
  <2>2. phase' = "Receive" /\ accepted' = 0
    BY <1>16 DEF AcceptDone, After
  <2> QED BY <1>16, <2>1, <2>2 DEF IInv, AcceptDone
<1>17. ASSUME NEW e \in todo, ReceiveFrom(e) PROVE TypeOK'
  BY <1>17 DEF IInv, ReceiveFrom, NoticesClose
<1>18. ASSUME NEW e \in todo, ReceiveThrows(e) PROVE TypeOK'
  BY <1>18 DEF IInv, ReceiveThrows, NoticesClose
<1>19. CASE ReceiveDone
  BY <1>19 DEF IInv, ReceiveDone
<1>20. CASE EndUpdate
  BY <1>20 DEF IInv, EndUpdate, Query
<1>21. ASSUME NEW e \in todo, SendPassesOver(e) PROVE TypeOK'
  BY <1>21 DEF IInv, SendPassesOver, SendSkips
<1>22. ASSUME NEW e \in todo, SendAll(e) PROVE TypeOK'
  BY <1>22 DEF IInv, SendAll, SendSkips
<1>23. ASSUME NEW e \in todo, SendPart(e) PROVE TypeOK'
  BY <1>23 DEF IInv, SendPart, SendSkips
<1>24. ASSUME NEW e \in todo, SendFails(e) PROVE TypeOK'
  BY <1>24 DEF IInv, SendFails, SendSkips
<1>25. CASE SendDone
  BY <1>25 DEF IInv, SendDone
<1>26. CASE SweepDestroyed
  <2>1. comps' \in [EntityId -> SUBSET Component]
    BY <1>26 DEF IInv, SweepDestroyed, ErasedFromStores
  <2>2. /\ sock' \in [EntityId -> Conn \cup {NoConn}]
        /\ queued' \in [EntityId -> 0 .. MaxQueued]
        /\ handle' \in [Conn -> {"unused", "queued", "open", "closed"}]
    BY <1>26 DEF IInv, SweepDestroyed, CloseSockets
  <2> QED BY <1>26, <2>1, <2>2 DEF IInv, SweepDestroyed
<1>27. ASSUME NEW c \in Conn, PeerConnect(c) PROVE TypeOK'
  BY <1>27 DEF IInv, PeerConnect
<1>28. ASSUME NEW c \in Conn, PeerClose(c) PROVE TypeOK'
  BY <1>28 DEF IInv, PeerClose
<1>29. ASSUME NEW c \in Conn, PeerReset(c) PROVE TypeOK'
  BY <1>29 DEF IInv, PeerReset
<1> QED
  BY <1>1, <1>2, <1>3, <1>4, <1>5, <1>6, <1>7, <1>8, <1>9, <1>10, <1>11,
       <1>12, <1>13, <1>14, <1>15, <1>16, <1>17, <1>18, <1>19, <1>20, <1>21,
       <1>22, <1>23, <1>24, <1>25, <1>26, <1>27, <1>28, <1>29
     DEF Next, Calls, Systems, Peers, vars

(* Ids are fresh and destroyed entities leave nothing behind. *)
LEMMA FreshIdsStep ==
  ASSUME IInv, [Next]_vars
  PROVE  FreshIds'
<1> USE DEF FreshIds
<1>1. CASE UNCHANGED <<entities, nextEntityId, comps>>
  BY <1>1 DEF IInv, SocketOwnership
<1>2. CASE StartTcpListen
  BY <1>2 DEF IInv, TypeOK, SelfStages, SocketOwnership, SocketHasConnection,
       VisitsAreValid, StartTcpListen
<1>3. CASE StopTcpListen
  BY <1>3 DEF IInv, TypeOK, SelfStages, SocketOwnership, SocketHasConnection,
       VisitsAreValid, StopTcpListen, BacklogClosed
<1>4. ASSUME NEW c \in Conn, StartTcpConnect(c) PROVE FreshIds'
  <2>1. ConnectEffect(c)
    BY <1>4, StartTcpConnectCases
  <2> QED BY <2>1 DEF IInv, TypeOK, ConnectEffect, BacklogClosed
<1>5. CASE StopTcpConnect
  BY <1>5 DEF IInv, TypeOK, SelfStages, SocketOwnership, SocketHasConnection,
       VisitsAreValid, StopTcpConnect, CloseSockets, RemovedByStop
<1>6. CASE CreateEntity
  BY <1>6 DEF IInv, TypeOK, SelfStages, SocketOwnership, SocketHasConnection,
       VisitsAreValid, CreateEntity
<1>7. ASSUME NEW e \in EntityId, DestroyEntity(e) PROVE FreshIds'
  BY <1>7 DEF IInv, TypeOK, SelfStages, SocketOwnership, SocketHasConnection,
       VisitsAreValid, DestroyEntity
<1>8. CASE DisconnectSystem
  BY <1>8 DEF IInv, TypeOK, SelfStages, SocketOwnership, SocketHasConnection,
       VisitsAreValid, DisconnectSystem, After, Query, DestroyedByDisconnect
<1>9. CASE PendingDisconnectSystem
  BY <1>9 DEF IInv, TypeOK, SelfStages, SocketOwnership, SocketHasConnection,
       VisitsAreValid, PendingDisconnectSystem, After, Query, CloseSockets,
       RemovedOnDisconnect
<1>10. CASE ClearNewConnections
  BY <1>10 DEF IInv, TypeOK, SelfStages, SocketOwnership,
       SocketHasConnection, VisitsAreValid, ClearNewConnections
<1>11. CASE AcceptConnection
  BY <1>11 DEF IInv, TypeOK, SelfStages, SocketOwnership,
       SocketHasConnection, VisitsAreValid, AcceptConnection, MayAccept,
       AcceptedComponents
<1>12. ASSUME NEW e \in todo, ReceiveFrom(e) PROVE FreshIds'
  BY <1>12 DEF IInv, TypeOK, SelfStages, SocketOwnership,
       SocketHasConnection, VisitsAreValid, ReceiveFrom, NoticesClose
<1>13. ASSUME NEW e \in todo, SendFails(e) PROVE FreshIds'
  BY <1>13 DEF IInv, TypeOK, SelfStages, SocketOwnership,
       SocketHasConnection, VisitsAreValid, SendFails, SendSkips
<1>14. CASE SweepDestroyed
  BY <1>14 DEF IInv, TypeOK, SelfStages, SocketOwnership,
       SocketHasConnection, VisitsAreValid, SweepDestroyed, Query,
       CloseSockets, ErasedFromStores
<1> QED
  BY <1>1, <1>2, <1>3, <1>4, <1>5, <1>6, <1>7, <1>8, <1>9, <1>10, <1>11,
       <1>12, <1>13, <1>14, EntitiesChangedBy, CompsChangedBy

(* A socket component and its connection come and go together. *)
LEMMA SocketHasConnectionStep ==
  ASSUME IInv, [Next]_vars
  PROVE  SocketHasConnection'
<1> USE DEF SocketHasConnection
<1>1. CASE UNCHANGED <<comps, sock>>
  BY <1>1 DEF IInv, SocketOwnership
<1>2. CASE StartTcpListen
  BY <1>2 DEF IInv, TypeOK, FreshIds, SocketOwnership, VisitsAreValid,
       StartTcpListen
<1>3. CASE StopTcpListen
  BY <1>3 DEF IInv, TypeOK, FreshIds, SocketOwnership, VisitsAreValid,
       StopTcpListen, BacklogClosed
<1>4. ASSUME NEW c \in Conn, StartTcpConnect(c) PROVE SocketHasConnection'
  <2>1. ConnectEffect(c)
    BY <1>4, StartTcpConnectCases
  <2>2. /\ sock' = [sock EXCEPT ![Self] = c]
        /\ \A e \in EntityId : e # Self => comps'[e] = comps[e]
        /\ Self \in EntityId
    BY <2>1, IdAssumption DEF IInv, TypeOK, ConnectEffect, EntityId, Self
  <2>3. Socket \in comps'[Self] /\ c # NoConn
    BY <2>1, <2>2, NoConnAssumption DEF IInv, TypeOK, ConnectEffect
  <2> QED BY <2>2, <2>3 DEF IInv, TypeOK, SocketOwnership
<1>5. CASE StopTcpConnect
  BY <1>5 DEF IInv, TypeOK, FreshIds, SocketOwnership, VisitsAreValid,
       StopTcpConnect, CloseSockets, RemovedByStop
<1>6. ASSUME NEW e \in EntityId, DestroyEntity(e) PROVE SocketHasConnection'
  BY <1>6 DEF IInv, TypeOK, FreshIds, SocketOwnership, VisitsAreValid,
       DestroyEntity
<1>7. CASE DisconnectSystem
  BY <1>7 DEF IInv, TypeOK, FreshIds, SocketOwnership, VisitsAreValid,
       DisconnectSystem, After, Query, DestroyedByDisconnect
<1>8. CASE PendingDisconnectSystem
  BY <1>8 DEF IInv, TypeOK, FreshIds, SocketOwnership, VisitsAreValid,
       PendingDisconnectSystem, After, Query, CloseSockets,
       RemovedOnDisconnect
<1>9. CASE ClearNewConnections
  BY <1>9 DEF IInv, TypeOK, FreshIds, SocketOwnership, VisitsAreValid,
       ClearNewConnections
<1>10. CASE AcceptConnection
  BY <1>10 DEF IInv, TypeOK, FreshIds, SocketOwnership, VisitsAreValid,
       AcceptConnection, MayAccept, AcceptedComponents
<1>11. ASSUME NEW e \in todo, ReceiveFrom(e) PROVE SocketHasConnection'
  BY <1>11 DEF IInv, TypeOK, FreshIds, SocketOwnership, VisitsAreValid,
       ReceiveFrom, NoticesClose
<1>12. ASSUME NEW e \in todo, SendFails(e) PROVE SocketHasConnection'
  BY <1>12 DEF IInv, TypeOK, FreshIds, SocketOwnership, VisitsAreValid,
       SendFails, SendSkips
<1>13. CASE SweepDestroyed
  BY <1>13 DEF IInv, TypeOK, FreshIds, SocketOwnership, VisitsAreValid,
       SweepDestroyed, Query, CloseSockets, ErasedFromStores
<1> QED
  BY <1>1, <1>2, <1>3, <1>4, <1>5, <1>6, <1>7, <1>8, <1>9, <1>10, <1>11,
       <1>12, <1>13, CompsChangedBy, SockChangedBy

(* No connection gets a second owner. *)
LEMMA OneOwnerStep ==
  ASSUME IInv, [Next]_vars
  PROVE  OneOwner'
<1> USE DEF OneOwner
<1>1. CASE UNCHANGED sock
  BY <1>1 DEF IInv, SocketOwnership
<1>2. ASSUME NEW c \in Conn, StartTcpConnect(c) PROVE OneOwner'
  <2>1. \A e \in EntityId : sock[e] # c
    BY <1>2 DEF IInv, SocketOwnership, OpenIsOwned, StartTcpConnect
  <2> QED BY <1>2, <2>1 DEF IInv, TypeOK, SocketOwnership, StartTcpConnect
<1>3. CASE StopTcpConnect
  BY <1>3 DEF IInv, TypeOK, FreshIds, SocketOwnership, OpenIsOwned,
       StopTcpConnect, CloseSockets, RemovedByStop
<1>4. CASE PendingDisconnectSystem
  BY <1>4 DEF IInv, TypeOK, FreshIds, SocketOwnership, OpenIsOwned,
       PendingDisconnectSystem, After, Query, CloseSockets,
       RemovedOnDisconnect
<1>5. CASE AcceptConnection
  <2>1. handle[Head(backlog)] = "queued"
    BY <1>5, TailFacts
    DEF IInv, TypeOK, BacklogConsistent, QueuedInBacklog, AcceptConnection
  <2>2. \A e \in EntityId : sock[e] # Head(backlog)
    BY <1>5, <2>1, TailFacts
    DEF IInv, TypeOK, SocketOwnership, OpenIsOwned, AcceptConnection
  <2> QED
    BY <1>5, <2>2 DEF IInv, TypeOK, SocketOwnership, AcceptConnection
<1>6. CASE SweepDestroyed
  BY <1>6 DEF IInv, TypeOK, FreshIds, SocketOwnership, OpenIsOwned,
       SweepDestroyed, Query, CloseSockets, ErasedFromStores
<1> QED
  BY <1>1, <1>2, <1>3, <1>4, <1>5, <1>6, SockChangedBy

(* The open connections are those owned. *)
LEMMA OpenIsOwnedStep ==
  ASSUME IInv, [Next]_vars
  PROVE  OpenIsOwned'
<1> USE DEF OpenIsOwned
<1>1. CASE UNCHANGED <<sock, handle>>
  BY <1>1 DEF IInv, SocketOwnership
<1>2. CASE StopTcpListen
  BY <1>2 DEF IInv, TypeOK, FreshIds, SocketOwnership, SocketHasConnection,
       OneOwner, StopTcpListen, BacklogClosed
<1>3. ASSUME NEW c \in Conn, StartTcpConnect(c) PROVE OpenIsOwned'
  <2>1. \A x \in Conn : (handle'[x] = "open") <=> (handle[x] = "open" \/ x = c)
    <3>1. ConnectEffect(c)
      BY <1>3, StartTcpConnectCases
    <3> QED BY <1>3, <3>1 DEF IInv, TypeOK, ConnectEffect, BacklogClosed
  <2>2. sock[Self] = NoConn
    BY <1>3 DEF IInv, TypeOK, SocketOwnership, SocketHasConnection, StartTcpConnect
  <2>3. \A x \in Conn : (\E e \in EntityId : sock'[e] = x)
                        <=> ((\E e \in EntityId : sock[e] = x) \/ x = c)
    BY <1>3, <2>2 DEF IInv, TypeOK, StartTcpConnect
  <2> QED BY <2>1, <2>3 DEF IInv, SocketOwnership
<1>4. ASSUME NEW c \in Conn, StartTcpConnectFails(c) PROVE OpenIsOwned'
  BY <1>4 DEF IInv, TypeOK, FreshIds, SocketOwnership, SocketHasConnection,
       OneOwner, StartTcpConnectFails
<1>5. CASE StopTcpConnect
  BY <1>5 DEF IInv, TypeOK, FreshIds, SocketOwnership, SocketHasConnection,
       OneOwner, StopTcpConnect, CloseSockets, RemovedByStop
<1>6. CASE PendingDisconnectSystem
  BY <1>6 DEF IInv, TypeOK, FreshIds, SocketOwnership, SocketHasConnection,
       OneOwner, PendingDisconnectSystem, After, Query, CloseSockets,
       RemovedOnDisconnect
<1>7. CASE AcceptConnection
  <2>1. Head(backlog) \in Conn /\ nextEntityId \in EntityId
    BY <1>7, TailFacts DEF IInv, TypeOK, AcceptConnection
  <2>2. sock[nextEntityId] = NoConn
    BY <1>7, <2>1
    DEF IInv, FreshIds, SocketOwnership, SocketHasConnection, AcceptConnection
  <2>3. \A x \in Conn : (\E e \in EntityId : sock'[e] = x)
               <=> ((\E e \in EntityId : sock[e] = x) \/ x = Head(backlog))
    BY <1>7, <2>1, <2>2 DEF IInv, TypeOK, AcceptConnection
  <2> QED BY <1>7, <2>1, <2>3 DEF IInv, TypeOK, SocketOwnership, AcceptConnection
<1>8. CASE AcceptDropped
  <2>1. Head(backlog) \in Conn /\ handle[Head(backlog)] = "queued"
    BY <1>8, TailFacts
    DEF IInv, TypeOK, BacklogConsistent, QueuedInBacklog, AcceptDropped
  <2> QED BY <1>8, <2>1 DEF IInv, TypeOK, SocketOwnership, AcceptDropped
<1>9. CASE SweepDestroyed
  BY <1>9 DEF IInv, TypeOK, FreshIds, SocketOwnership, SocketHasConnection,
       OneOwner, SweepDestroyed, Query, CloseSockets, ErasedFromStores
<1>10. ASSUME NEW c \in Conn, PeerConnect(c) PROVE OpenIsOwned'
  BY <1>10 DEF IInv, TypeOK, FreshIds, SocketOwnership, SocketHasConnection,
       OneOwner, PeerConnect
<1> QED
  BY <1>1, <1>2, <1>3, <1>4, <1>5, <1>6, <1>7, <1>8, <1>9, <1>10,
       SockChangedBy, HandleChangedBy

(* The queued connections are those in the backlog. *)
LEMMA QueuedInBacklogStep ==
  ASSUME IInv, [Next]_vars
  PROVE  QueuedInBacklog'
<1> USE DEF QueuedInBacklog
<1>1. CASE UNCHANGED <<handle, backlog>>
  BY <1>1 DEF IInv, BacklogConsistent, SocketOwnership
<1>2. CASE StopTcpListen
  BY <1>2 DEF IInv, TypeOK, BacklogConsistent, SocketOwnership, OpenIsOwned,
       StopTcpListen, BacklogClosed
<1>3. ASSUME NEW c \in Conn, StartTcpConnect(c) PROVE QueuedInBacklog'
  <2>1. ConnectEffect(c)
    BY <1>3, StartTcpConnectCases
  <2>2. CASE Root \notin comps[Self]
    <3>a. handle[c] = "unused" /\ handle' = [handle EXCEPT ![c] = "open"]
      BY <2>1, <2>2 DEF ConnectEffect
    <3>1. \A x \in Conn : (handle'[x] = "queued") <=> (handle[x] = "queued")
      BY <3>a DEF IInv, TypeOK
    <3>2. backlog' = backlog
      BY <2>1, <2>2 DEF ConnectEffect
    <3> QED BY <3>1, <3>2 DEF IInv, BacklogConsistent
  <2>3. CASE Root \in comps[Self]
    <3>1. backlog' = <<>> /\ \A x \in Conn : handle'[x] # "queued"
      BY <1>3, <2>1, <2>3 DEF IInv, TypeOK, BacklogClosed, ConnectEffect
    <3> QED BY <3>1
  <2> QED BY <2>2, <2>3
<1>4. ASSUME NEW c \in Conn, StartTcpConnectFails(c) PROVE QueuedInBacklog'
  BY <1>4 DEF IInv, TypeOK, BacklogConsistent, SocketOwnership, OpenIsOwned,
       StartTcpConnectFails
<1>5. CASE StopTcpConnect
  <2>a. \A x \in Conn : handle'[x] = IF \E e \in {Self} : sock[e] = x
                                     THEN "closed" ELSE handle[x]
    BY <1>5 DEF StopTcpConnect, CloseSockets
  <2>b. \A x \in Conn : sock[Self] = x => handle[x] = "open"
    BY DEF IInv, SocketOwnership, OpenIsOwned
  <2>1. \A x \in Conn : (handle'[x] = "queued") <=> (handle[x] = "queued")
    BY <2>a, <2>b
  <2>2. backlog' = backlog
    BY <1>5 DEF StopTcpConnect
  <2> QED BY <2>1, <2>2 DEF IInv, BacklogConsistent
<1>6. CASE PendingDisconnectSystem
  BY <1>6 DEF IInv, TypeOK, BacklogConsistent, SocketOwnership, OpenIsOwned,
       PendingDisconnectSystem, After, Query, CloseSockets,
       RemovedOnDisconnect
<1>7. CASE AcceptConnection
  <2>1. /\ Len(backlog') = Len(backlog) - 1
        /\ \A i \in 1 .. Len(backlog') : backlog'[i] = backlog[i + 1]
        /\ Len(backlog) \in Nat \ {0}
        /\ Head(backlog) = backlog[1] /\ backlog[1] \in Conn
    BY <1>7, TailFacts DEF IInv, TypeOK, AcceptConnection
  <2>2. \A x \in Conn : (handle'[x] = "queued")
                        <=> (handle[x] = "queued" /\ x # backlog[1])
    BY <1>7, <2>1 DEF IInv, TypeOK, AcceptConnection
  <2>3. \A x \in Conn : (\E i \in 1 .. Len(backlog') : backlog'[i] = x)
          <=> (\E i \in 1 .. Len(backlog) : backlog[i] = x) /\ x # backlog[1]
    <3> TAKE x \in Conn
    <3>1. ASSUME NEW i \in 1 .. Len(backlog'), backlog'[i] = x
          PROVE  (\E j \in 1 .. Len(backlog) : backlog[j] = x) /\ x # backlog[1]
      BY <2>1, <3>1 DEF IInv, BacklogConsistent, BacklogDistinct
    <3>2. ASSUME NEW j \in 1 .. Len(backlog), backlog[j] = x, x # backlog[1]
          PROVE  \E i \in 1 .. Len(backlog') : backlog'[i] = x
      <4>1. j - 1 \in 1 .. Len(backlog') /\ backlog'[j - 1] = backlog[j]
        BY <2>1, <3>2
      <4> QED BY <3>2, <4>1
    <3> QED BY <3>1, <3>2
  <2> QED BY <2>2, <2>3 DEF IInv, BacklogConsistent
<1>8. CASE AcceptDropped
  <2>1. /\ Len(backlog') = Len(backlog) - 1
        /\ \A i \in 1 .. Len(backlog') : backlog'[i] = backlog[i + 1]
        /\ Len(backlog) \in Nat \ {0}
        /\ Head(backlog) = backlog[1] /\ backlog[1] \in Conn
    BY <1>8, TailFacts DEF IInv, TypeOK, AcceptDropped
  <2>2. \A x \in Conn : (handle'[x] = "queued")
                        <=> (handle[x] = "queued" /\ x # backlog[1])
    BY <1>8, <2>1 DEF IInv, TypeOK, AcceptDropped
  <2>3. \A x \in Conn : (\E i \in 1 .. Len(backlog') : backlog'[i] = x)
          <=> (\E i \in 1 .. Len(backlog) : backlog[i] = x) /\ x # backlog[1]
    <3> TAKE x \in Conn
    <3>1. ASSUME NEW i \in 1 .. Len(backlog'), backlog'[i] = x
          PROVE  (\E j \in 1 .. Len(backlog) : backlog[j] = x) /\ x # backlog[1]
      BY <2>1, <3>1 DEF IInv, BacklogConsistent, BacklogDistinct
    <3>2. ASSUME NEW j \in 1 .. Len(backlog), backlog[j] = x, x # backlog[1]
          PROVE  \E i \in 1 .. Len(backlog') : backlog'[i] = x
      <4>1. j - 1 \in 1 .. Len(backlog') /\ backlog'[j - 1] = backlog[j]
        BY <2>1, <3>2
      <4> QED BY <3>2, <4>1
    <3> QED BY <3>1, <3>2
  <2> QED BY <2>2, <2>3 DEF IInv, BacklogConsistent
<1>9. CASE SweepDestroyed
  BY <1>9 DEF IInv, TypeOK, BacklogConsistent, SocketOwnership, OpenIsOwned,
       SweepDestroyed, Query, CloseSockets, ErasedFromStores
<1>10. ASSUME NEW c \in Conn, PeerConnect(c) PROVE QueuedInBacklog'
  <2>1. /\ Len(backlog') = Len(backlog) + 1 /\ Len(backlog) \in Nat
        /\ backlog'[Len(backlog) + 1] = c
        /\ \A i \in 1 .. Len(backlog) : backlog'[i] = backlog[i]
    BY <1>10, AppendFacts DEF IInv, TypeOK, PeerConnect
  <2> QED BY <1>10, <2>1 DEF IInv, TypeOK, BacklogConsistent, PeerConnect
<1> QED
  BY <1>1, <1>2, <1>3, <1>4, <1>5, <1>6, <1>7, <1>8, <1>9, <1>10,
       HandleChangedBy, BacklogChangedBy

(* None is in the backlog twice. *)
LEMMA BacklogDistinctStep ==
  ASSUME IInv, [Next]_vars
  PROVE  BacklogDistinct'
<1> USE DEF BacklogDistinct
<1>1. CASE UNCHANGED backlog
  BY <1>1 DEF IInv, BacklogConsistent
<1>2. CASE StopTcpListen
  BY <1>2 DEF IInv, TypeOK, BacklogConsistent, StopTcpListen, BacklogClosed
<1>3. ASSUME NEW c \in Conn, StartTcpConnect(c) PROVE BacklogDistinct'
  BY <1>3 DEF IInv, TypeOK, BacklogConsistent, StartTcpConnect, BacklogClosed
<1>4. CASE AcceptConnection
  BY <1>4 DEF IInv, TypeOK, BacklogConsistent, AcceptConnection, MayAccept,
       AcceptedComponents
<1>5. CASE AcceptDropped
  BY <1>5 DEF IInv, TypeOK, BacklogConsistent, AcceptDropped, MayAccept
<1>6. ASSUME NEW c \in Conn, PeerConnect(c) PROVE BacklogDistinct'
  <2>1. /\ Len(backlog') = Len(backlog) + 1 /\ Len(backlog) \in Nat
        /\ backlog'[Len(backlog) + 1] = c
        /\ \A i \in 1 .. Len(backlog) : backlog'[i] = backlog[i]
    BY <1>6, AppendFacts DEF IInv, TypeOK, PeerConnect
  <2>2. \A i \in 1 .. Len(backlog) : backlog[i] # c
    BY <1>6 DEF IInv, BacklogConsistent, QueuedInBacklog, PeerConnect
  <2> QED BY <2>1, <2>2 DEF IInv, BacklogConsistent
<1> QED
  BY <1>1, <1>2, <1>3, <1>4, <1>5, <1>6, BacklogChangedBy

(* Only a listening socket has a backlog. *)
LEMMA BacklogHasListenerStep ==
  ASSUME IInv, [Next]_vars
  PROVE  BacklogHasListener'
<1> USE DEF BacklogHasListener
<1>1. CASE UNCHANGED <<comps, backlog>>
  BY <1>1 DEF IInv, BacklogConsistent
<1>2. CASE StartTcpListen
  BY <1>2 DEF IInv, TypeOK, BacklogConsistent, FreshIds, SelfStages,
       StartTcpListen
<1>3. CASE StopTcpListen
  BY <1>3 DEF IInv, TypeOK, BacklogConsistent, FreshIds, SelfStages,
       StopTcpListen, BacklogClosed
<1>4. ASSUME NEW c \in Conn, StartTcpConnect(c) PROVE BacklogHasListener'
  BY <1>4 DEF IInv, TypeOK, BacklogConsistent, FreshIds, SelfStages,
       StartTcpConnect, BacklogClosed
<1>5. CASE StopTcpConnect
  BY <1>5 DEF IInv, TypeOK, BacklogConsistent, FreshIds, SelfStages,
       StopTcpConnect, CloseSockets, RemovedByStop
<1>6. ASSUME NEW e \in EntityId, DestroyEntity(e) PROVE BacklogHasListener'
  BY <1>6 DEF IInv, TypeOK, BacklogConsistent, FreshIds, SelfStages,
       DestroyEntity
<1>7. CASE DisconnectSystem
  BY <1>7 DEF IInv, TypeOK, BacklogConsistent, FreshIds, SelfStages,
       DisconnectSystem, After, Query, DestroyedByDisconnect
<1>8. CASE PendingDisconnectSystem
  BY <1>8 DEF IInv, TypeOK, BacklogConsistent, FreshIds, SelfStages,
       PendingDisconnectSystem, After, Query, CloseSockets,
       RemovedOnDisconnect
<1>9. CASE ClearNewConnections
  BY <1>9 DEF IInv, TypeOK, BacklogConsistent, FreshIds, SelfStages,
       ClearNewConnections
<1>10. CASE AcceptConnection
  BY <1>10 DEF IInv, TypeOK, BacklogConsistent, FreshIds, SelfStages,
       AcceptConnection, MayAccept, AcceptedComponents
<1>11. CASE AcceptDropped
  BY <1>11 DEF IInv, TypeOK, BacklogConsistent, FreshIds, SelfStages,
       AcceptDropped, MayAccept
<1>12. ASSUME NEW e \in todo, ReceiveFrom(e) PROVE BacklogHasListener'
  BY <1>12 DEF IInv, TypeOK, BacklogConsistent, FreshIds, SelfStages,
       ReceiveFrom, NoticesClose
<1>13. ASSUME NEW e \in todo, SendFails(e) PROVE BacklogHasListener'
  BY <1>13 DEF IInv, TypeOK, BacklogConsistent, FreshIds, SelfStages,
       SendFails, SendSkips
<1>14. CASE SweepDestroyed
  BY <1>14 DEF IInv, TypeOK, BacklogConsistent, FreshIds, SelfStages,
       SweepDestroyed, Query, CloseSockets, ErasedFromStores
<1>15. ASSUME NEW c \in Conn, PeerConnect(c) PROVE BacklogHasListener'
  BY <1>15 DEF IInv, TypeOK, BacklogConsistent, FreshIds, SelfStages,
       PeerConnect
<1> QED
  BY <1>1, <1>2, <1>3, <1>4, <1>5, <1>6, <1>7, <1>8, <1>9, <1>10, <1>11,
       <1>12, <1>13, <1>14, <1>15, CompsChangedBy, BacklogChangedBy

(* Connections move from stage to stage. *)
LEMMA ConnectionStagesStep ==
  ASSUME IInv, [Next]_vars
  PROVE  ConnectionStages'
<1> USE DEF ConnectionStages, StageOK, Bundle
<1>1. CASE UNCHANGED <<entities, nextEntityId, comps>>
  BY <1>1 DEF IInv
<1>2. CASE StartTcpListen
  BY <1>2 DEF IInv, TypeOK, FreshIds, VisitsAreValid, StartTcpListen
<1>3. CASE StopTcpListen
  BY <1>3 DEF IInv, TypeOK, FreshIds, VisitsAreValid, StopTcpListen,
       BacklogClosed
<1>4. ASSUME NEW c \in Conn, StartTcpConnect(c) PROVE ConnectionStages'
  BY <1>4 DEF IInv, TypeOK, FreshIds, VisitsAreValid, StartTcpConnect,
       BacklogClosed
<1>5. CASE StopTcpConnect
  BY <1>5 DEF IInv, TypeOK, FreshIds, VisitsAreValid, StopTcpConnect,
       CloseSockets, RemovedByStop
<1>6. CASE CreateEntity
  BY <1>6 DEF IInv, TypeOK, FreshIds, VisitsAreValid, CreateEntity
<1>7. ASSUME NEW e \in EntityId, DestroyEntity(e) PROVE ConnectionStages'
  BY <1>7 DEF IInv, TypeOK, FreshIds, VisitsAreValid, DestroyEntity
<1>8. CASE DisconnectSystem
  BY <1>8 DEF IInv, TypeOK, FreshIds, VisitsAreValid, DisconnectSystem,
       After, Query, DestroyedByDisconnect
<1>9. CASE PendingDisconnectSystem
  BY <1>9 DEF IInv, TypeOK, FreshIds, VisitsAreValid,
       PendingDisconnectSystem, After, Query, CloseSockets,
       RemovedOnDisconnect
<1>10. CASE ClearNewConnections
  BY <1>10 DEF IInv, TypeOK, FreshIds, VisitsAreValid, ClearNewConnections
<1>11. CASE AcceptConnection
  <2>1. nextEntityId \in EntityId \ entities /\ nextEntityId # Self
    BY <1>11 DEF IInv, TypeOK, FreshIds, AcceptConnection
  <2>2. comps' = [comps EXCEPT ![nextEntityId] = AcceptedComponents]
    BY <1>11 DEF AcceptConnection
  <2>3. StageOK(AcceptedComponents)
    BY DEF AcceptedComponents
  <2>4. entities' = entities \cup {nextEntityId}
    BY <1>11 DEF AcceptConnection
  <2> QED BY <2>1, <2>2, <2>3, <2>4 DEF IInv, TypeOK
<1>12. ASSUME NEW e \in todo, ReceiveFrom(e) PROVE ConnectionStages'
  BY <1>12 DEF IInv, TypeOK, FreshIds, VisitsAreValid, ReceiveFrom,
       NoticesClose
<1>13. ASSUME NEW e \in todo, SendFails(e) PROVE ConnectionStages'
  BY <1>13 DEF IInv, TypeOK, FreshIds, VisitsAreValid, SendFails, SendSkips
<1>14. CASE SweepDestroyed
  BY <1>14 DEF IInv, TypeOK, FreshIds, VisitsAreValid, SweepDestroyed, Query,
       CloseSockets, ErasedFromStores
<1> QED
  BY <1>1, <1>2, <1>3, <1>4, <1>5, <1>6, <1>7, <1>8, <1>9, <1>10, <1>11,
       <1>12, <1>13, <1>14, EntitiesChangedBy, CompsChangedBy

(* The engine's own entity. *)
LEMMA SelfStagesStep ==
  ASSUME IInv, [Next]_vars
  PROVE  SelfStages'
<1> USE DEF SelfStages
<1>1. CASE UNCHANGED comps
  BY <1>1 DEF IInv
<1>2. CASE StartTcpListen
  BY <1>2 DEF IInv, TypeOK, FreshIds, VisitsAreValid, StartTcpListen
<1>3. CASE StopTcpListen
  BY <1>3 DEF IInv, TypeOK, FreshIds, VisitsAreValid, StopTcpListen,
       BacklogClosed
<1>4. ASSUME NEW c \in Conn, StartTcpConnect(c) PROVE SelfStages'
  <2>1. ConnectEffect(c)
    BY <1>4, StartTcpConnectCases
  <2>2. Self \in EntityId
    OBVIOUS
  <2>3. CASE Root \notin comps[Self]
    <3>1. comps'[Self] = comps[Self]
                           \cup {Socket, Root, Send, Receive, Connected}
      BY <2>1, <2>2, <2>3 DEF ConnectEffect, IInv, TypeOK
    <3> QED BY <3>1 DEF IInv
  <2>4. CASE Root \in comps[Self]
    <3>1. comps'[Self] = (comps[Self] \ {Listen, Listening}) \cup {Socket}
      BY <2>1, <2>2, <2>4 DEF ConnectEffect, IInv, TypeOK
    <3> QED BY <3>1 DEF IInv
  <2> QED BY <2>3, <2>4
<1>5. CASE StopTcpConnect
  BY <1>5 DEF IInv, TypeOK, FreshIds, VisitsAreValid, StopTcpConnect,
       CloseSockets, RemovedByStop
<1>6. ASSUME NEW e \in EntityId, DestroyEntity(e) PROVE SelfStages'
  BY <1>6 DEF IInv, TypeOK, FreshIds, VisitsAreValid, DestroyEntity
<1>7. CASE DisconnectSystem
  BY <1>7 DEF IInv, TypeOK, FreshIds, VisitsAreValid, DisconnectSystem,
       After, Query, DestroyedByDisconnect
<1>8. CASE PendingDisconnectSystem
  BY <1>8 DEF IInv, TypeOK, FreshIds, VisitsAreValid,
       PendingDisconnectSystem, After, Query, CloseSockets,
       RemovedOnDisconnect
<1>9. CASE ClearNewConnections
  BY <1>9 DEF IInv, TypeOK, FreshIds, VisitsAreValid, ClearNewConnections
<1>10. CASE AcceptConnection
  BY <1>10 DEF IInv, TypeOK, FreshIds, VisitsAreValid, AcceptConnection,
       MayAccept, AcceptedComponents
<1>11. ASSUME NEW e \in todo, ReceiveFrom(e) PROVE SelfStages'
  BY <1>11 DEF IInv, TypeOK, FreshIds, VisitsAreValid, ReceiveFrom,
       NoticesClose
<1>12. ASSUME NEW e \in todo, SendFails(e) PROVE SelfStages'
  BY <1>12 DEF IInv, TypeOK, FreshIds, VisitsAreValid, SendFails, SendSkips
<1>13. CASE SweepDestroyed
  BY <1>13 DEF IInv, TypeOK, FreshIds, VisitsAreValid, SweepDestroyed, Query,
       CloseSockets, ErasedFromStores
<1> QED
  BY <1>1, <1>2, <1>3, <1>4, <1>5, <1>6, <1>7, <1>8, <1>9, <1>10, <1>11,
       <1>12, <1>13, CompsChangedBy

(* What a query found stays valid until it is visited. *)
LEMMA VisitsStep ==
  ASSUME IInv, [Next]_vars
  PROVE  VisitsAreValid'
<1> USE DEF VisitsAreValid
<1>1. CASE UNCHANGED vars
  BY <1>1 DEF IInv, vars, SocketOwnership
<1>2. CASE StartTcpListen
  BY <1>2 DEF IInv, TypeOK, FreshIds, SocketOwnership, SocketHasConnection,
       ConnectionStages, StartTcpListen
<1>3. CASE StopTcpListen
  BY <1>3 DEF IInv, TypeOK, FreshIds, SocketOwnership, SocketHasConnection,
       ConnectionStages, StopTcpListen, BacklogClosed
<1>4. ASSUME NEW c \in Conn, StartTcpConnect(c) PROVE VisitsAreValid'
  BY <1>4 DEF IInv, TypeOK, FreshIds, SocketOwnership, SocketHasConnection,
       ConnectionStages, StartTcpConnect, BacklogClosed
<1>5. ASSUME NEW c \in Conn, StartTcpConnectFails(c) PROVE VisitsAreValid'
  BY <1>5 DEF IInv, TypeOK, FreshIds, SocketOwnership, SocketHasConnection,
       ConnectionStages, StartTcpConnectFails
<1>6. CASE StopTcpConnect
  BY <1>6 DEF IInv, TypeOK, FreshIds, SocketOwnership, SocketHasConnection,
       ConnectionStages, StopTcpConnect, CloseSockets, RemovedByStop
<1>7. CASE CreateEntity
  BY <1>7 DEF IInv, TypeOK, FreshIds, SocketOwnership, SocketHasConnection,
       ConnectionStages, CreateEntity
<1>8. ASSUME NEW e \in EntityId, DestroyEntity(e) PROVE VisitsAreValid'
  BY <1>8 DEF IInv, TypeOK, FreshIds, SocketOwnership, SocketHasConnection,
       ConnectionStages, DestroyEntity
<1>9. ASSUME NEW e \in EntityId, SendTcpMessage(e) PROVE VisitsAreValid'
  BY <1>9 DEF IInv, TypeOK, FreshIds, SocketOwnership, SocketHasConnection,
       ConnectionStages, SendTcpMessage
<1>10. CASE BeginUpdate
  BY <1>10 DEF IInv, TypeOK, FreshIds, SocketOwnership, SocketHasConnection,
       ConnectionStages, BeginUpdate, After
<1>11. CASE DisconnectSystem
  BY <1>11 DEF IInv, TypeOK, FreshIds, SocketOwnership, SocketHasConnection,
       ConnectionStages, DisconnectSystem, After, Query,
       DestroyedByDisconnect
<1>12. CASE PendingDisconnectSystem
  BY <1>12 DEF IInv, TypeOK, FreshIds, SocketOwnership, SocketHasConnection,
       ConnectionStages, PendingDisconnectSystem, After, Query, CloseSockets,
       RemovedOnDisconnect
<1>13. CASE ClearNewConnections
  BY <1>13 DEF IInv, TypeOK, FreshIds, SocketOwnership, SocketHasConnection,
       ConnectionStages, ClearNewConnections
<1>14. CASE AcceptConnection
  BY <1>14 DEF IInv, TypeOK, FreshIds, SocketOwnership, SocketHasConnection,
       ConnectionStages, AcceptConnection, MayAccept, AcceptedComponents
<1>15. CASE AcceptDropped
  BY <1>15 DEF IInv, TypeOK, FreshIds, SocketOwnership, SocketHasConnection,
       ConnectionStages, AcceptDropped, MayAccept
<1>16. CASE AcceptDone
  BY <1>16 DEF IInv, TypeOK, FreshIds, SocketOwnership, SocketHasConnection,
       ConnectionStages, AcceptDone, After, Query
<1>17. ASSUME NEW e \in todo, ReceiveFrom(e) PROVE VisitsAreValid'
  BY <1>17 DEF IInv, TypeOK, FreshIds, SocketOwnership, SocketHasConnection,
       ConnectionStages, ReceiveFrom, NoticesClose
<1>18. ASSUME NEW e \in todo, ReceiveThrows(e) PROVE VisitsAreValid'
  BY <1>18 DEF IInv, TypeOK, FreshIds, SocketOwnership, SocketHasConnection,
       ConnectionStages, ReceiveThrows, NoticesClose
<1>19. CASE ReceiveDone
  BY <1>19 DEF IInv, TypeOK, FreshIds, SocketOwnership, SocketHasConnection,
       ConnectionStages, ReceiveDone
<1>20. CASE EndUpdate
  BY <1>20 DEF IInv, TypeOK, FreshIds, SocketOwnership, SocketHasConnection,
       ConnectionStages, EndUpdate, Query
<1>21. ASSUME NEW e \in todo, SendPassesOver(e) PROVE VisitsAreValid'
  BY <1>21 DEF IInv, TypeOK, FreshIds, SocketOwnership, SocketHasConnection,
       ConnectionStages, SendPassesOver, SendSkips
<1>22. ASSUME NEW e \in todo, SendAll(e) PROVE VisitsAreValid'
  BY <1>22 DEF IInv, TypeOK, FreshIds, SocketOwnership, SocketHasConnection,
       ConnectionStages, SendAll, SendSkips
<1>23. ASSUME NEW e \in todo, SendPart(e) PROVE VisitsAreValid'
  BY <1>23 DEF IInv, TypeOK, FreshIds, SocketOwnership, SocketHasConnection,
       ConnectionStages, SendPart, SendSkips
<1>24. ASSUME NEW e \in todo, SendFails(e) PROVE VisitsAreValid'
  BY <1>24 DEF IInv, TypeOK, FreshIds, SocketOwnership, SocketHasConnection,
       ConnectionStages, SendFails, SendSkips
<1>25. CASE SendDone
  BY <1>25 DEF IInv, TypeOK, FreshIds, SocketOwnership, SocketHasConnection,
       ConnectionStages, SendDone
<1>26. CASE SweepDestroyed
  BY <1>26 DEF IInv, TypeOK, FreshIds, SocketOwnership, SocketHasConnection,
       ConnectionStages, SweepDestroyed, Query, CloseSockets,
       ErasedFromStores
<1>27. ASSUME NEW c \in Conn, PeerConnect(c) PROVE VisitsAreValid'
  BY <1>27 DEF IInv, TypeOK, FreshIds, SocketOwnership, SocketHasConnection,
       ConnectionStages, PeerConnect
<1>28. ASSUME NEW c \in Conn, PeerClose(c) PROVE VisitsAreValid'
  BY <1>28 DEF IInv, TypeOK, FreshIds, SocketOwnership, SocketHasConnection,
       ConnectionStages, PeerClose
<1>29. ASSUME NEW c \in Conn, PeerReset(c) PROVE VisitsAreValid'
  BY <1>29 DEF IInv, TypeOK, FreshIds, SocketOwnership, SocketHasConnection,
       ConnectionStages, PeerReset
<1> QED
  BY <1>1, <1>2, <1>3, <1>4, <1>5, <1>6, <1>7, <1>8, <1>9, <1>10, <1>11,
       <1>12, <1>13, <1>14, <1>15, <1>16, <1>17, <1>18, <1>19, <1>20, <1>21,
       <1>22, <1>23, <1>24, <1>25, <1>26, <1>27, <1>28, <1>29
     DEF Next, Calls, Systems, Peers, vars

-----------------------------------------------------------------------------
(* The invariant.                                                          *)

LEMMA InitEstablishes == Init => IInv
  BY DEF Init, IInv, TypeOK, FreshIds, SocketOwnership, SocketHasConnection,
         OneOwner, OpenIsOwned, BacklogConsistent, QueuedInBacklog,
         BacklogDistinct, BacklogHasListener, ConnectionStages, SelfStages,
         VisitsAreValid

LEMMA NextPreserves == IInv /\ [Next]_vars => IInv'
  BY TypeStep, FreshIdsStep, SocketHasConnectionStep, OneOwnerStep,
     OpenIsOwnedStep, QueuedInBacklogStep, BacklogDistinctStep,
     BacklogHasListenerStep, ConnectionStagesStep, SelfStagesStep, VisitsStep
  DEF IInv, SocketOwnership, BacklogConsistent

(* Every reachable state of an engine satisfies the inductive invariant.   *)
THEOREM EngineInvariant == Spec => []IInv
<1>1. Init => IInv
  BY InitEstablishes
<1>2. IInv /\ [Next]_vars => IInv'
  BY NextPreserves
<1> QED BY <1>1, <1>2, PTL DEF Spec

(* Every variable keeps its type.                                          *)
THEOREM TypeCorrect == Spec => []TypeOK
<1>1. IInv => TypeOK
  BY DEF IInv
<1> QED BY <1>1, EngineInvariant, PTL

(* No connection leaks and none is shared: see SocketOwnership.            *)
THEOREM SocketsAreOwned == Spec => []SocketOwnership
<1>1. IInv => SocketOwnership
  BY DEF IInv
<1> QED BY <1>1, EngineInvariant, PTL

(* No entity is ever left with a part of a connection.                     *)
THEOREM StagesHold == Spec => []ConnectionStages
<1>1. IInv => ConnectionStages
  BY DEF IInv
<1> QED BY <1>1, EngineInvariant, PTL

(* Nor is the engine's own entity.                                         *)
THEOREM SelfStagesHold == Spec => []SelfStages
<1>1. IInv => SelfStages
  BY DEF IInv
<1> QED BY <1>1, EngineInvariant, PTL

(* An entity starts with nothing of those before it.                       *)
THEOREM IdsAreFresh == Spec => []FreshIds
<1>1. IInv => FreshIds
  BY DEF IInv
<1> QED BY <1>1, EngineInvariant, PTL

(* A system never visits an entity that no longer matches its query.       *)
THEOREM VisitsHold == Spec => []VisitsAreValid
<1>1. IInv => VisitsAreValid
  BY DEF IInv
<1> QED BY <1>1, EngineInvariant, PTL

(* What waits to be accepted is what the listening socket holds.           *)
THEOREM BacklogHolds == Spec => []BacklogConsistent
<1>1. IInv => BacklogConsistent
  BY DEF IInv
<1> QED BY <1>1, EngineInvariant, PTL
====
