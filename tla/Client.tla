------------------------------- MODULE Client -------------------------------
(***************************************************************************)
(* tra::client::Client: the engine behind the calls a client application   *)
(* has.  ConnectTo is refused while connected; every other call does       *)
(* nothing while not connected, so that the systems stop running the       *)
(* moment the connection is lost.                                          *)
(***************************************************************************)
EXTENDS NetworkEngine

ConnectTo(c) ==
  /\ ~IsConnected
  /\ StartTcpConnect(c) \/ StartTcpConnectFails(c)

Disconnect ==
  /\ IsConnected
  /\ StopTcpConnect

ClientBeginUpdate ==
  /\ IsConnected
  /\ BeginUpdate

ClientEndUpdate ==
  /\ IsConnected
  /\ EndUpdate

ClientSendTcpMessage ==
  /\ IsConnected
  /\ SendTcpMessage(Self)

ClientCalls ==
  \/ Disconnect
  \/ ClientBeginUpdate
  \/ ClientEndUpdate
  \/ ClientSendTcpMessage
  \/ \E c \in Conn : ConnectTo(c)

ClientNext == ClientCalls \/ Systems \/ Peers

ClientSpec == Init /\ [][ClientNext]_vars

-----------------------------------------------------------------------------
(* A client that is not connected holds no socket, so that its application *)
(* can connect again.                                                      *)
NotConnectedHoldsNoSocket ==
  phase = "App" /\ ~IsConnected => Socket \notin comps[Self]
====
