------------------------------- MODULE Server -------------------------------
(***************************************************************************)
(* tra::server::Server: the engine behind the calls a server application   *)
(* has.  Every call but Start does nothing unless the server is running.   *)
(* A Server never connects out, and neither creates nor destroys entities. *)
(***************************************************************************)
EXTENDS NetworkEngine

Start == StartTcpListen

Stop ==
  /\ isRunning
  /\ StopTcpListen

ServerBeginUpdate ==
  /\ isRunning
  /\ BeginUpdate

ServerEndUpdate ==
  /\ isRunning
  /\ EndUpdate

ServerSendTcpMessage(e) ==
  /\ isRunning
  /\ SendTcpMessage(e)

ServerCalls ==
  \/ Start
  \/ Stop
  \/ ServerBeginUpdate
  \/ ServerEndUpdate
  \/ \E e \in EntityId : ServerSendTcpMessage(e)

ServerNext == ServerCalls \/ Systems \/ Peers

ServerSpec == Init /\ [][ServerNext]_vars

(* The application keeps calling beginUpdate and endUpdate (the loop of    *)
(* TestServer), whatever else it calls between them; a system, once        *)
(* started, runs to its end; and accepting a connection does not fail for  *)
(* ever.                                                                   *)
ServerFairness ==
  /\ WF_vars(Systems)
  /\ SF_vars(ServerBeginUpdate)
  /\ SF_vars(ServerEndUpdate)
  /\ SF_vars(AcceptConnection)

-----------------------------------------------------------------------------
(* A connection in the listening socket's queue does not wait for ever:    *)
(* it is accepted, dropped, or the server stops.                           *)
QueuedIsServed ==
  \A c \in Conn : (handle[c] = "queued") ~> (handle[c] # "queued")

(* The peer of a connection goes away: the server notices and closes its   *)
(* side, unless it is stopped meanwhile.                                   *)
DeadPeerNoticed ==
  \A c \in Conn : (handle[c] = "open" /\ peer[c] # "open")
                    ~> (handle[c] = "closed" \/ ~isRunning)

(* The entity of a connection that ended does not stay: it is swept, with  *)
(* all its components, unless the server is stopped meanwhile.             *)
DisconnectedIsSwept ==
  \A e \in EntityId : (Disconnected \in comps[e])
                        ~> (e \notin entities \/ ~isRunning)
====
