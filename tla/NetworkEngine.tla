--------------------------- MODULE NetworkEngine ---------------------------
(***************************************************************************)
(* One tra::engine::NetworkEngine: its ECS (entities and the components    *)
(* they hold), the systems that beginUpdate and endUpdate run in order,    *)
(* and the calls by which an application starts and stops listening,       *)
(* connects, disconnects, sends and destroys entities.  The kernel and the *)
(* remote peers are the environment: connections queue up, close and reset *)
(* between any two steps of the engine.                                    *)
(*                                                                         *)
(* The engine is single-threaded: `phase' is the system about to run, and  *)
(* "App" means that control is in the application, between two calls.      *)
(* Bytes and messages are abstracted to the number of messages an entity   *)
(* still has to send.  Sockets are non-blocking, as Server and Client open *)
(* them.  EngineResources adds the UDP socket and the Windows build's      *)
(* count of Winsock start-ups.                                             *)
(***************************************************************************)
EXTENDS Naturals, Sequences, FiniteSets

CONSTANTS
  Conn,          \* TCP connections; each is established at most once
  NoConn,        \* the null m_tcpSocket
  MaxEntityId,   \* largest entity id (2^32 - 1 in the code)
  MaxAccept,     \* MAX_ACCEPTED_CONNECTIONS_PAR_TICK (32 in the code)
  MaxQueued,     \* bound on the messages an application queues on an entity
  BackPressure,  \* whether the kernel's send buffer may be full
  UnknownTypes   \* connections whose peer sends messages of a type this
                 \* program never registered

ASSUME NoConnAssumption == NoConn \notin Conn
ASSUME IdAssumption == MaxEntityId \in Nat \ {0}
ASSUME AcceptAssumption == MaxAccept \in Nat \ {0}
ASSUME QueueAssumption == MaxQueued \in Nat
ASSUME EnvironmentAssumption ==
  /\ BackPressure \in BOOLEAN
  /\ UnknownTypes \subseteq Conn

VARIABLES
  entities,      \* NetworkEcs::m_entities
  nextEntityId,  \* NetworkEcs::m_nextEntityId
  comps,         \* m_componentStores, read by entity: the components it holds
  sock,          \* the connection behind an entity's TcpConnectSocketComponent
  queued,        \* messages waiting in an entity's SendTcpMessageComponent
  phase,         \* who runs next
  todo,          \* entities of the running system's query not yet visited
  accepted,      \* acceptedConnections of the running accept loop
  handle,        \* this process's side of a connection, in the kernel
  peer,          \* the remote side of a connection
  backlog        \* connections waiting on the listening socket, in order

ecsVars  == <<entities, nextEntityId, comps, sock, queued>>
loopVars == <<phase, todo, accepted>>
netVars  == <<handle, peer, backlog>>
vars     == <<ecsVars, loopVars, netVars>>

-----------------------------------------------------------------------------
(* Component types, by their names in the source.                          *)

SelfTag      == "SelfComponentTag"
Root         == "NetworkRootComponentTag"
Listen       == "TcpListenSocketComponent"
Listening    == "ListeningComponentTag"
Socket       == "TcpConnectSocketComponent"
Send         == "SendTcpMessageComponent"
Receive      == "ReceiveTcpMessageComponent"
Connected    == "ConnectedComponentTag"
New          == "NewConnectionComponentTag"
Pending      == "PendingDisconnectComponentTag"
Disconnected == "DisconnectedComponentTag"
Destroy      == "DestroyComponentTag"

Component == {SelfTag, Root, Listen, Listening, Socket, Send, Receive,
              Connected, New, Pending, Disconnected, Destroy}

EntityId == 1 .. MaxEntityId
Self     == 1       \* m_selfEntityId: the constructor creates it first

Phase == {"App", "Disconnect", "PendingDisconnect", "Accept", "AcceptLoop",
          "Receive", "Send", "Sweep"}

(* The entities a system's query returns.                                  *)
Query(ks) == {e \in entities : ks \subseteq comps[e]}

isRunning   == Listening \in comps[Self]   \* Server::isRunning
IsConnected == Connected \in comps[Self]   \* Client::IsConnected

(* Mutant: the destructor forgets to close the descriptor.                 *)
CloseSockets_Leaks(S) ==
  /\ sock' = [e \in EntityId |-> IF e \in S THEN NoConn ELSE sock[e]]
  /\ queued' = [e \in EntityId |-> IF e \in S THEN 0 ELSE queued[e]]
  /\ UNCHANGED handle

(* The destructor of the connect socket component of each entity in S:     *)
(* shut the socket down, close it and free it.  The send component goes    *)
(* with it everywhere, and what it had queued is lost.                     *)
CloseSockets(S) ==
  /\ sock' = [e \in EntityId |-> IF e \in S THEN NoConn ELSE sock[e]]
  /\ queued' = [e \in EntityId |-> IF e \in S THEN 0 ELSE queued[e]]
  /\ handle' = [c \in Conn |-> IF \E e \in S : sock[e] = c
                               THEN "closed" ELSE handle[c]]

(* Closing the listening socket: the kernel resets what waits in its queue.*)
BacklogClosed(h) ==
  [c \in Conn |-> IF h[c] = "queued" THEN "closed" ELSE h[c]]

-----------------------------------------------------------------------------
Init ==
  /\ entities = {Self}
  /\ nextEntityId = 2
  /\ comps = [e \in EntityId |-> IF e = Self THEN {SelfTag} ELSE {}]
  /\ sock = [e \in EntityId |-> NoConn]
  /\ queued = [e \in EntityId |-> 0]
  /\ phase = "App"
  /\ todo = {}
  /\ accepted = 0
  /\ handle = [c \in Conn |-> "unused"]
  /\ peer = [c \in Conn |-> "open"]
  /\ backlog = <<>>

-----------------------------------------------------------------------------
(* Calls of the application.                                               *)

(* startTcpListenOnPort.  When bind or setBlocking fails the component is  *)
(* dropped before it is added and nothing has changed.                     *)
StartTcpListen ==
  /\ phase = "App"
  /\ Listen \notin comps[Self]
  /\ comps' = [comps EXCEPT ![Self] = @ \cup {Listen, Listening}]
  /\ UNCHANGED <<entities, nextEntityId, sock, queued, loopVars, netVars>>

(* Mutant: the component is removed but its socket is not closed.          *)
StopTcpListen_KeepsSocket ==
  /\ phase = "App"
  /\ Listen \in comps[Self]
  /\ comps' = [comps EXCEPT ![Self] = @ \ {Listen, Listening}]
  /\ UNCHANGED <<entities, nextEntityId, sock, queued, loopVars, netVars>>

(* stopTcpListen.  Accepted connections are not touched.                   *)
StopTcpListen ==
  /\ phase = "App"
  /\ Listen \in comps[Self]
  /\ comps' = [comps EXCEPT ![Self] = @ \ {Listen, Listening}]
  /\ handle' = BacklogClosed(handle)
  /\ backlog' = <<>>
  /\ UNCHANGED <<entities, nextEntityId, sock, queued, loopVars, peer>>

(* The components startTcpConnectToAddress adds, in this order.            *)
ConnectSteps == <<Socket, Root, Send, Receive, Connected>>

(* Those it gets to add: it gives up at the first one already present.     *)
AddedByConnect ==
  {ConnectSteps[i] : i \in {n \in 1 .. 5 :
                        \A m \in 1 .. n : ConnectSteps[m] \notin comps[Self]}}

(* startTcpConnectToAddress, once connectTo has established c.  When it    *)
(* has to give up it calls stopTcpListen and leaves what it added.         *)
StartTcpConnect(c) ==
  /\ phase = "App"
  /\ Socket \notin comps[Self]
  /\ handle[c] = "unused"
  /\ sock' = [sock EXCEPT ![Self] = c]
  /\ \/ /\ Connected \in AddedByConnect
        /\ comps' = [comps EXCEPT ![Self] = @ \cup AddedByConnect]
        /\ handle' = [handle EXCEPT ![c] = "open"]
        /\ UNCHANGED backlog
     \/ /\ Connected \notin AddedByConnect
        /\ comps' = [comps EXCEPT ![Self] =
                       (@ \ {Listen, Listening}) \cup AddedByConnect]
        /\ handle' = [BacklogClosed(handle) EXCEPT ![c] = "open"]
        /\ backlog' = <<>>
  /\ UNCHANGED <<entities, nextEntityId, queued, loopVars, peer>>

(* startTcpConnectToAddress when setBlocking fails on the connected socket:*)
(* the component is dropped, and its destructor closes the socket.         *)
StartTcpConnectFails(c) ==
  /\ phase = "App"
  /\ Socket \notin comps[Self]
  /\ handle[c] = "unused"
  /\ handle' = [handle EXCEPT ![c] = "closed"]
  /\ UNCHANGED <<ecsVars, loopVars, peer, backlog>>

(* Mutant: the send component is forgotten.                                *)
RemovedByStop_KeepsSend == {Connected, Socket, Root, Receive}

(* What stopTcpConnect removes.                                            *)
RemovedByStop == {Connected, Socket, Root, Send, Receive}

(* stopTcpConnect.  Tags of a disconnection in progress are not touched.   *)
StopTcpConnect ==
  /\ phase = "App"
  /\ Socket \in comps[Self]
  /\ comps' = [comps EXCEPT ![Self] = @ \ RemovedByStop]
  /\ CloseSockets({Self})
  /\ UNCHANGED <<entities, nextEntityId, loopVars, peer, backlog>>

CreateEntity ==
  /\ phase = "App"
  /\ nextEntityId <= MaxEntityId
  /\ entities' = entities \cup {nextEntityId}
  /\ nextEntityId' = nextEntityId + 1
  /\ UNCHANGED <<comps, sock, queued, loopVars, netVars>>

(* destroyEntity only tags: the sweep of endUpdate removes.  An            *)
(* application does not destroy the engine's own entity.                   *)
DestroyEntity(e) ==
  /\ phase = "App"
  /\ e \in entities \ {Self}
  /\ Destroy \notin comps[e]
  /\ comps' = [comps EXCEPT ![e] = @ \cup {Destroy}]
  /\ UNCHANGED <<entities, nextEntityId, sock, queued, loopVars, netVars>>

SendTcpMessage(e) ==
  /\ phase = "App"
  /\ Send \in comps[e]
  /\ queued[e] < MaxQueued
  /\ queued' = [queued EXCEPT ![e] = @ + 1]
  /\ UNCHANGED <<entities, nextEntityId, comps, sock, loopVars, netVars>>

-----------------------------------------------------------------------------
(* beginUpdate: the four systems in the order the registrar lists them.    *)

(* Mutant: PendingDisconnectSystem registered before DisconnectSystem.     *)
After_Swapped ==
  [App |-> "PendingDisconnect", PendingDisconnect |-> "Disconnect",
   Disconnect |-> "Accept", Accept |-> "Receive"]

(* Mutant: PendingDisconnectSystem is not registered.                      *)
After_NoPending ==
  [App |-> "Disconnect", Disconnect |-> "Accept",
   PendingDisconnect |-> "Accept", Accept |-> "Receive"]

(* The system that runs after each.                                        *)
After == [App |-> "Disconnect", Disconnect |-> "PendingDisconnect",
          PendingDisconnect |-> "Accept", Accept |-> "Receive"]

BeginUpdate ==
  /\ phase = "App"
  /\ phase' = After["App"]
  /\ UNCHANGED <<ecsVars, todo, accepted, netVars>>

(* Mutant: the test on the engine's own entity is inverted.                *)
DestroyedByDisconnect_Inverted ==
  {e \in Query({Disconnected}) : SelfTag \in comps[e]}

(* The entities DisconnectSystem destroys among those disconnected.        *)
DestroyedByDisconnect == {e \in Query({Disconnected}) : SelfTag \notin comps[e]}

DisconnectSystem ==
  /\ phase = "Disconnect"
  /\ comps' = [e \in EntityId |->
                 (comps[e] \ (IF e \in Query({Disconnected})
                              THEN {Disconnected} ELSE {}))
                 \cup (IF e \in DestroyedByDisconnect THEN {Destroy} ELSE {})]
  /\ phase' = After["Disconnect"]
  /\ UNCHANGED <<entities, nextEntityId, sock, queued, todo, accepted, netVars>>

(* Mutants: a component of the bundle is forgotten.                        *)
RemovedOnDisconnect_KeepsSend == {Pending, Socket, Receive, Connected}
RemovedOnDisconnect_KeepsConnected == {Pending, Socket, Send, Receive}

(* What PendingDisconnectSystem removes; Root and New stay.                *)
RemovedOnDisconnect == {Pending, Socket, Send, Receive, Connected}

PendingDisconnectSystem ==
  /\ phase = "PendingDisconnect"
  /\ LET S == Query({Pending, Socket}) IN
       /\ comps' = [e \in EntityId |->
                      IF e \in S
                      THEN (comps[e] \ RemovedOnDisconnect) \cup {Disconnected}
                      ELSE comps[e]]
       /\ CloseSockets(S)
  /\ phase' = After["PendingDisconnect"]
  /\ UNCHANGED <<entities, nextEntityId, todo, accepted, peer, backlog>>

(* AcceptConnectionSystem first clears the tags of its last run.           *)
ClearNewConnections ==
  /\ phase = "Accept"
  /\ comps' = [e \in EntityId |-> comps[e] \ {New}]
  /\ phase' = "AcceptLoop"
  /\ UNCHANGED <<entities, nextEntityId, sock, queued, todo, accepted, netVars>>

(* Mutants of the loop's limit.                                            *)
MayAccept_OneMore == accepted <= MaxAccept
MayAccept_OneLess == accepted + 1 < MaxAccept

(* The limit on the connections accepted in one tick is not reached.       *)
MayAccept == accepted < MaxAccept

AcceptedComponents == {Root, Socket, Receive, Send, New, Connected}

(* acceptSocket and setBlocking succeed: an entity for the connection.     *)
AcceptConnection ==
  /\ phase = "AcceptLoop"
  /\ Listen \in comps[Self]
  /\ MayAccept
  /\ backlog # <<>>
  /\ nextEntityId <= MaxEntityId
  /\ LET e == nextEntityId
         c == Head(backlog)
     IN  /\ entities' = entities \cup {e}
         /\ comps' = [comps EXCEPT ![e] = AcceptedComponents]
         /\ sock' = [sock EXCEPT ![e] = c]
         /\ handle' = [handle EXCEPT ![c] = "open"]
  /\ nextEntityId' = nextEntityId + 1
  /\ backlog' = Tail(backlog)
  /\ accepted' = accepted + 1
  /\ UNCHANGED <<queued, phase, todo, peer>>

(* setBlocking fails on the accepted socket: closed, and not counted.      *)
AcceptDropped ==
  /\ phase = "AcceptLoop"
  /\ Listen \in comps[Self]
  /\ MayAccept
  /\ backlog # <<>>
  /\ handle' = [handle EXCEPT ![Head(backlog)] = "closed"]
  /\ backlog' = Tail(backlog)
  /\ UNCHANGED <<ecsVars, loopVars, peer>>

(* Nothing (more) to accept in this tick, or acceptSocket fails.           *)
AcceptDone ==
  /\ phase = "AcceptLoop"
  /\ phase' = After["Accept"]
  /\ todo' = Query({Socket, Receive})
  /\ accepted' = 0
  /\ UNCHANGED <<ecsVars, netVars>>

(* Mutants: no data is taken for an end of stream; an end of stream is     *)
(* taken for no data.                                                      *)
NoticesClose_WouldBlock(e) == TRUE
NoticesClose_OnlyErrors(e) == peer[sock[e]] = "reset"

(* recv ends on an end of stream or an error.                              *)
NoticesClose(e) == peer[sock[e]] # "open"

(* ReceiveTcpMessageSystem on one entity of its query.                     *)
ReceiveFrom(e) ==
  /\ phase = "Receive"
  /\ e \in todo
  /\ todo' = todo \ {e}
  /\ comps' = IF Pending \notin comps[e] /\ NoticesClose(e)
              THEN [comps EXCEPT ![e] = @ \cup {Pending}]
              ELSE comps
  /\ UNCHANGED <<entities, nextEntityId, sock, queued, phase, accepted, netVars>>

(* The same when the peer sent a message this program has not registered:  *)
(* deserialize throws, and the exception leaves beginUpdate.               *)
ReceiveThrows(e) ==
  /\ phase = "Receive"
  /\ e \in todo
  /\ Pending \notin comps[e]
  /\ ~NoticesClose(e)
  /\ sock[e] \in UnknownTypes
  /\ phase' = "App"
  /\ todo' = {}
  /\ UNCHANGED <<ecsVars, accepted, netVars>>

ReceiveDone ==
  /\ phase = "Receive"
  /\ todo = {}
  /\ phase' = "App"
  /\ UNCHANGED <<ecsVars, todo, accepted, netVars>>

-----------------------------------------------------------------------------
(* endUpdate: SendTcpMessageSystem, then the sweep.                        *)

EndUpdate ==
  /\ phase = "App"
  /\ phase' = "Send"
  /\ todo' = Query({Socket, Send})
  /\ UNCHANGED <<ecsVars, accepted, netVars>>

(* Entities SendTcpMessageSystem passes over.                              *)
SendSkips(e) == Pending \in comps[e] \/ queued[e] = 0

SendPassesOver(e) ==
  /\ phase = "Send"
  /\ e \in todo
  /\ SendSkips(e)
  /\ todo' = todo \ {e}
  /\ UNCHANGED <<ecsVars, phase, accepted, netVars>>

(* Every message of the entity is sent.                                    *)
SendAll(e) ==
  /\ phase = "Send"
  /\ e \in todo
  /\ ~SendSkips(e)
  /\ peer[sock[e]] # "reset"
  /\ queued' = [queued EXCEPT ![e] = 0]
  /\ todo' = todo \ {e}
  /\ UNCHANGED <<entities, nextEntityId, comps, sock, phase, accepted, netVars>>

(* The kernel takes part of a message: the rest waits for the next tick.   *)
SendPart(e) ==
  /\ phase = "Send"
  /\ e \in todo
  /\ ~SendSkips(e)
  /\ BackPressure
  /\ peer[sock[e]] # "reset"
  /\ \E n \in 1 .. queued[e] : queued' = [queued EXCEPT ![e] = n]
  /\ todo' = todo \ {e}
  /\ UNCHANGED <<entities, nextEntityId, comps, sock, phase, accepted, netVars>>

(* send reports an error: a reset, or a full send buffer, which sendData   *)
(* does not tell from one.                                                 *)
SendFails(e) ==
  /\ phase = "Send"
  /\ e \in todo
  /\ ~SendSkips(e)
  /\ BackPressure \/ peer[sock[e]] = "reset"
  /\ \E n \in 1 .. queued[e] : queued' = [queued EXCEPT ![e] = n]
  /\ comps' = [comps EXCEPT ![e] = @ \cup {Pending}]
  /\ todo' = todo \ {e}
  /\ UNCHANGED <<entities, nextEntityId, sock, phase, accepted, netVars>>

SendDone ==
  /\ phase = "Send"
  /\ todo = {}
  /\ phase' = "Sweep"
  /\ UNCHANGED <<ecsVars, todo, accepted, netVars>>

(* Mutant: the sweep skips a component store.                              *)
ErasedFromStores_NotRoot(S) ==
  [e \in EntityId |-> IF e \in S THEN comps[e] \cap {Root} ELSE comps[e]]

ErasedFromStores(S) ==
  [e \in EntityId |-> IF e \in S THEN {} ELSE comps[e]]

(* Tagged entities leave every component store, then m_entities.           *)
SweepDestroyed ==
  /\ phase = "Sweep"
  /\ LET S == Query({Destroy}) IN
       /\ entities' = entities \ S
       /\ comps' = ErasedFromStores(S)
       /\ CloseSockets(S)
  /\ phase' = "App"
  /\ UNCHANGED <<nextEntityId, todo, accepted, peer, backlog>>

-----------------------------------------------------------------------------
(* The kernel and the peers.                                               *)

PeerConnect(c) ==
  /\ Listen \in comps[Self]
  /\ handle[c] = "unused"
  /\ handle' = [handle EXCEPT ![c] = "queued"]
  /\ backlog' = Append(backlog, c)
  /\ UNCHANGED <<ecsVars, loopVars, peer>>

PeerClose(c) ==
  /\ handle[c] \in {"queued", "open"}
  /\ peer[c] = "open"
  /\ peer' = [peer EXCEPT ![c] = "closed"]
  /\ UNCHANGED <<ecsVars, loopVars, handle, backlog>>

PeerReset(c) ==
  /\ handle[c] \in {"queued", "open"}
  /\ peer[c] # "reset"
  /\ peer' = [peer EXCEPT ![c] = "reset"]
  /\ UNCHANGED <<ecsVars, loopVars, handle, backlog>>

-----------------------------------------------------------------------------
(* The steps inside beginUpdate and endUpdate.                             *)
Systems ==
  \/ DisconnectSystem
  \/ PendingDisconnectSystem
  \/ ClearNewConnections
  \/ AcceptConnection
  \/ AcceptDropped
  \/ AcceptDone
  \/ ReceiveDone
  \/ SendDone
  \/ SweepDestroyed
  \/ \E e \in todo : \/ ReceiveFrom(e)
                     \/ ReceiveThrows(e)
                     \/ SendPassesOver(e)
                     \/ SendAll(e)
                     \/ SendPart(e)
                     \/ SendFails(e)

Peers == \E c \in Conn : PeerConnect(c) \/ PeerClose(c) \/ PeerReset(c)

(* What an application may call on the engine.                             *)
Calls ==
  \/ StartTcpListen
  \/ StopTcpListen
  \/ StopTcpConnect
  \/ CreateEntity
  \/ BeginUpdate
  \/ EndUpdate
  \/ \E c \in Conn : StartTcpConnect(c) \/ StartTcpConnectFails(c)
  \/ \E e \in EntityId : DestroyEntity(e) \/ SendTcpMessage(e)

Next == Calls \/ Systems \/ Peers

Spec == Init /\ [][Next]_vars

-----------------------------------------------------------------------------
(* Every variable has its type.                                            *)
TypeOK ==
  /\ entities \subseteq EntityId
  /\ nextEntityId \in 1 .. MaxEntityId + 1
  /\ comps \in [EntityId -> SUBSET Component]
  /\ sock \in [EntityId -> Conn \cup {NoConn}]
  /\ queued \in [EntityId -> 0 .. MaxQueued]
  /\ phase \in Phase
  /\ todo \subseteq EntityId
  /\ accepted \in 0 .. MaxAccept
  /\ handle \in [Conn -> {"unused", "queued", "open", "closed"}]
  /\ peer \in [Conn -> {"open", "closed", "reset"}]
  /\ backlog \in Seq(Conn)

(* Ids are handed out once and a destroyed entity leaves nothing behind in *)
(* a component store, so a later entity never inherits a component.        *)
FreshIds ==
  /\ Self \in entities
  /\ \A e \in entities : e < nextEntityId
  /\ \A e \in EntityId \ entities : comps[e] = {}

(* A socket component owns exactly one connection, no two components own   *)
(* the same one, and the process holds no other connection open: none      *)
(* leaks when its entity goes, none is closed under an entity that uses it.*)
SocketHasConnection ==
  \A e \in EntityId : (Socket \in comps[e]) <=> (sock[e] # NoConn)
OneOwner ==
  \A e, f \in EntityId : sock[e] = sock[f] /\ sock[e] # NoConn => e = f
OpenIsOwned ==
  \A c \in Conn : (handle[c] = "open") <=> (\E e \in EntityId : sock[e] = c)

SocketOwnership == SocketHasConnection /\ OneOwner /\ OpenIsOwned

(* The connections waiting to be accepted are those of the listening       *)
(* socket's queue, each there once, and none waits without a listener.     *)
QueuedInBacklog ==
  \A c \in Conn : (handle[c] = "queued") <=>
                  (\E i \in 1 .. Len(backlog) : backlog[i] = c)
BacklogDistinct ==
  \A i, j \in 1 .. Len(backlog) : backlog[i] = backlog[j] => i = j
BacklogHasListener == backlog # <<>> => Listen \in comps[Self]

BacklogConsistent == QueuedInBacklog /\ BacklogDistinct /\ BacklogHasListener

(* An entity other than the engine's own is in one of the stages of a      *)
(* connection: live, about to disconnect, disconnected for one tick, or    *)
(* tagged for the sweep; never half-built or half-dismantled, so that a    *)
(* system's query never meets a part of the bundle.                        *)
Bundle == {Socket, Receive, Send, Connected}

StageOK(k) ==
  /\ \A x, y \in Bundle : x \in k => y \in k
  /\ Socket \in k \/ Disconnected \in k \/ New \in k => Root \in k
  /\ Root \in k => Socket \in k \/ Disconnected \in k \/ Destroy \in k
  /\ Pending \in k => Socket \in k
  /\ Disconnected \in k => Socket \notin k
  /\ k \cap {SelfTag, Listen, Listening} = {}

ConnectionStages == \A e \in entities \ {Self} : StageOK(comps[e])

(* The engine's own entity: it is never swept, it listens exactly while    *)
(* the tag says so, and Connected stands for the whole bundle.             *)
SelfStages ==
  /\ SelfTag \in comps[Self] /\ Destroy \notin comps[Self]
  /\ New \notin comps[Self]
  /\ (Listen \in comps[Self]) <=> (Listening \in comps[Self])
  /\ (Connected \in comps[Self]) <=> (Send \in comps[Self])
  /\ (Connected \in comps[Self]) <=> (Receive \in comps[Self])
  /\ Connected \in comps[Self] => {Socket, Root} \subseteq comps[Self]

(* What a system has still to visit stays what its query found: the steps  *)
(* of one visit never pull a component from under the next.  Receive never *)
(* meets an entity already being disconnected, because none is left once   *)
(* PendingDisconnectSystem has run.                                        *)
VisitsAreValid ==
  /\ phase \in {"Accept", "AcceptLoop"} =>
       \A e \in entities : Pending \in comps[e] => Socket \notin comps[e]
  /\ todo # {} => phase \in {"Receive", "Send"}
  /\ \A e \in todo : /\ e \in entities
                     /\ Socket \in comps[e]
                     /\ phase = "Receive" => Receive \in comps[e]
                     /\ phase = "Receive" => Pending \notin comps[e]
                     /\ phase = "Send" => Send \in comps[e]
  /\ accepted > 0 => phase = "AcceptLoop"

(* The inductive invariant of the proofs.                                  *)
IInv == /\ TypeOK
        /\ FreshIds
        /\ SocketOwnership
        /\ BacklogConsistent
        /\ ConnectionStages
        /\ SelfStages
        /\ VisitsAreValid

(* No step of the engine itself, only a call of the application, closes a  *)
(* connection whose peer is still there, unless the application destroyed  *)
(* its entity.                                                             *)
HealthyConnectionKept ==
  [][\A e \in EntityId :
       /\ sock[e] # NoConn
       /\ peer[sock[e]] = "open"
       /\ Destroy \notin comps[e]
       /\ phase # "App"
       => sock'[e] = sock[e]]_vars

(* beginUpdate returns only when every connection has been read from: a    *)
(* message that cannot be deserialized costs that message and no more.     *)
EveryConnectionRead ==
  [][phase = "Receive" /\ phase' = "App" => todo = {}]_vars
====
