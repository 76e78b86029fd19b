----------------------- MODULE EngineResourcesProofs ------------------------
(***************************************************************************)
(* An engine with its UDP socket and its start-ups of Winsock is still the *)
(* engine of NetworkEngine, and never cleans up once too often.            *)
(***************************************************************************)
EXTENDS EngineResources, NetworkEngineProofs

USE IdAssumption, NoConnAssumption, StartupAssumption
USE DEF EntityId, Self, Component, SelfTag, Root, Listen, Listening, Socket,
        Send, Receive, Connected, New, Pending, Disconnected, Destroy,
        ecsVars, loopVars, netVars

(* What is started and stopped around the engine's steps changes none of   *)
(* them.                                                                   *)
LEMMA ResourceStep == [ResourceNext]_resourceVars => [Next]_vars
  BY DEF ResourceNext, resourceVars, StartListening, StartConnecting,
         StopListening, StopConnecting, StartUdp, StopUdp, OtherCalls,
         Next, Calls

(* An engine with its resources is an engine, and keeps its invariant.     *)
THEOREM ResourceEngineIsEngine == ResourceSpec => Spec /\ []IInv
  BY ResourceStep, EngineInvariant, PTL DEF ResourceSpec, ResourceInit, Spec

-----------------------------------------------------------------------------
ResourceTypeOK == startups \in Nat /\ udp \in {"closed", "open"}

(* What the engine's own entity holds after a step that neither starts nor *)
(* stops anything.                                                         *)
Fewer == /\ Listen \in comps'[Self] => Listen \in comps[Self]
         /\ Socket \in comps'[Self] => Socket \in comps[Self]

(* No system, no peer and no other call attaches a listener or a socket to *)
(* the engine's own entity: accepted connections get entities of their own.*)
LEMMA OthersAttachNothing ==
  ASSUME IInv, OtherCalls \/ Systems \/ Peers
  PROVE  Fewer
<1> USE DEF Fewer
<1> USE DEF IInv, TypeOK
<1>1. CASE OtherCalls
  BY <1>1 DEF OtherCalls, CreateEntity, BeginUpdate, EndUpdate, DestroyEntity,
              SendTcpMessage
<1>2. CASE Peers
  BY <1>2 DEF Peers, PeerConnect, PeerClose, PeerReset
<1>3. CASE Systems
  <2>1. CASE DisconnectSystem \/ PendingDisconnectSystem \/ ClearNewConnections
    BY <2>1 DEF DisconnectSystem, PendingDisconnectSystem, ClearNewConnections,
                RemovedOnDisconnect
  <2>2. CASE AcceptConnection
    BY <2>2 DEF AcceptConnection, FreshIds
  <2>3. CASE AcceptDropped \/ AcceptDone \/ ReceiveDone \/ SendDone
    BY <2>3 DEF AcceptDropped, AcceptDone, ReceiveDone, SendDone
  <2>4. CASE SweepDestroyed
    BY <2>4 DEF SweepDestroyed, ErasedFromStores
  <2>5. ASSUME NEW e \in todo,
               \/ ReceiveFrom(e) \/ ReceiveThrows(e) \/ SendPassesOver(e)
               \/ SendAll(e) \/ SendPart(e) \/ SendFails(e)
        PROVE  Fewer
    BY <2>5 DEF ReceiveFrom, ReceiveThrows, SendPassesOver, SendAll, SendPart,
                SendFails
  <2> QED BY <1>3, <2>1, <2>2, <2>3, <2>4, <2>5 DEF Systems
<1> QED BY <1>1, <1>2, <1>3

(* Every socket of the engine keeps its start-up.                          *)
LEMMA CoverStep ==
  ASSUME IInv, ResourceTypeOK, WinsockCoversSockets,
         [ResourceNext]_resourceVars
  PROVE  ResourceTypeOK' /\ WinsockCoversSockets'
<1> USE DEF ResourceTypeOK, WinsockCoversSockets, One, IInv, TypeOK
<1>1. CASE StartListening
  BY <1>1 DEF StartListening, WSAInit, StartTcpListen, vars
<1>2. CASE StartConnecting
  <2>1. CASE vars' = vars
    BY <1>2, <2>1 DEF StartConnecting, vars
  <2>2. ASSUME NEW c \in Conn, StartTcpConnect(c),
               startups' = IF StopsListener THEN startups ELSE startups + 1
        PROVE  ResourceTypeOK' /\ WinsockCoversSockets'
    <3>1. udp' = udp
      BY <1>2 DEF StartConnecting
    <3>2. Socket \notin comps[Self]
      BY <2>2 DEF StartTcpConnect
    <3>3. Listen \notin AddedByConnect
      BY DEF AddedByConnect, ConnectSteps
    <3>4. CASE StopsListener
      <4>1. Listen \notin comps'[Self] /\ Listen \in comps[Self]
        BY <2>2, <3>3, <3>4 DEF StartTcpConnect, StopsListener
      <4> QED BY <2>2, <3>1, <3>2, <3>4, <4>1
    <3>5. CASE ~StopsListener
      <4>1. Listen \in comps'[Self] => Listen \in comps[Self]
        BY <2>2, <3>3 DEF StartTcpConnect
      <4> QED BY <2>2, <3>1, <3>2, <3>5, <4>1
    <3> QED BY <3>4, <3>5
  <2>3. ASSUME NEW c \in Conn, StartTcpConnectFails(c), startups' = startups + 1
        PROVE  ResourceTypeOK' /\ WinsockCoversSockets'
    BY <1>2, <2>3 DEF StartConnecting, StartTcpConnectFails
  <2> QED BY <1>2, <2>1, <2>2, <2>3 DEF StartConnecting
<1>3. CASE StopListening
  BY <1>3 DEF StopListening, WSACleanUp, StopTcpListen
<1>4. CASE StopConnecting
  BY <1>4 DEF StopConnecting, WSACleanUp, StopTcpConnect, RemovedByStop
<1>5. CASE StartUdp \/ StopUdp
  BY <1>5 DEF StartUdp, StopUdp, WSAInit, WSACleanUp, vars
<1>6. CASE (OtherCalls \/ Systems \/ Peers) /\ UNCHANGED <<startups, udp>>
  BY <1>6, OthersAttachNothing DEF Fewer
<1>7. CASE UNCHANGED resourceVars
  BY <1>7 DEF resourceVars, vars
<1> QED
  BY <1>1, <1>2, <1>3, <1>4, <1>5, <1>6, <1>7 DEF ResourceNext

(* CleanUp is never called once too often, for any engine.                 *)
THEOREM WinsockCovers == ResourceSpec => []WinsockCoversSockets
<1>1. ResourceInit => ResourceTypeOK /\ WinsockCoversSockets
  BY DEF ResourceInit, Init, ResourceTypeOK, WinsockCoversSockets, One
<1>2. ResourceSpec => []IInv
  BY ResourceEngineIsEngine, PTL
<1> QED BY <1>1, <1>2, CoverStep, PTL DEF ResourceSpec
====
