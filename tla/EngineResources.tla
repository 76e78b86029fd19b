-------------------------- MODULE EngineResources ---------------------------
(***************************************************************************)
(* A NetworkEngine and what it holds outside its ECS: the UDP socket and,  *)
(* in the Windows build, start-ups of Winsock, which the process may use   *)
(* as long as it has cleaned up fewer times than it has started up.  The   *)
(* calls of NetworkEngine are followed with each Init and CleanUp they     *)
(* make, those on their error paths included; nothing else makes any.      *)
(***************************************************************************)
EXTENDS NetworkEngine

CONSTANT MaxStartups   \* bound on the start-ups not yet cleaned up

ASSUME StartupAssumption == MaxStartups \in Nat \ {0}

VARIABLES
  startups,   \* start-ups of Winsock not yet cleaned up
  udp         \* m_udpSocket: "closed" while it is null

resourceVars == <<vars, startups, udp>>

ResourceInit == Init /\ startups = 0 /\ udp = "closed"

(* WSAInitializer::Init and CleanUp.  Winsock refuses to clean up what was *)
(* never started.                                                          *)
WSAInit    == startups < MaxStartups /\ startups' = startups + 1
WSACleanUp == startups' = IF startups > 0 THEN startups - 1 ELSE 0

-----------------------------------------------------------------------------
(* startTcpListenOnPort.  When it fails, its call of stopTcpListen finds   *)
(* no component to stop, and the start-up stays.                           *)
StartListening ==
  /\ WSAInit
  /\ \/ StartTcpListen
     \/ phase = "App" /\ Listen \notin comps[Self] /\ UNCHANGED vars
  /\ UNCHANGED udp

(* startTcpConnectToAddress gives up through stopTcpListen, which cleans   *)
(* up for a listener, if there is one.                                     *)
StopsListener == Connected \notin AddedByConnect /\ Listen \in comps[Self]

(* startTcpConnectToAddress.  A connection refused or dropped half-way     *)
(* leaves its start-up.                                                    *)
StartConnecting ==
  /\ startups < MaxStartups
  /\ \/ /\ \E c \in Conn : StartTcpConnect(c)
        /\ startups' = IF StopsListener THEN startups ELSE startups + 1
     \/ /\ \/ \E c \in Conn : StartTcpConnectFails(c)
           \/ phase = "App" /\ Socket \notin comps[Self] /\ UNCHANGED vars
        /\ startups' = startups + 1
  /\ UNCHANGED udp

StopListening  == StopTcpListen /\ WSACleanUp /\ UNCHANGED udp
StopConnecting == StopTcpConnect /\ WSACleanUp /\ UNCHANGED udp

(* startUdpOnPort.  When bindSocket, setBlocking or getPort fails, stopUdp *)
(* undoes all it did.                                                      *)
StartUdp ==
  /\ phase = "App"
  /\ udp = "closed"
  /\ WSAInit
  /\ udp' = "open"
  /\ UNCHANGED vars

(* Mutant: a stop of what was not started cleans up too.                   *)
StopUdp_Unguarded ==
  /\ phase = "App"
  /\ WSACleanUp
  /\ udp' = "closed"
  /\ UNCHANGED vars

(* stopUdp.                                                                *)
StopUdp ==
  /\ phase = "App"
  /\ udp = "open"
  /\ WSACleanUp
  /\ udp' = "closed"
  /\ UNCHANGED vars

(* The calls that start and stop nothing.                                  *)
OtherCalls ==
  \/ CreateEntity
  \/ BeginUpdate
  \/ EndUpdate
  \/ \E e \in EntityId : DestroyEntity(e) \/ SendTcpMessage(e)

ResourceNext ==
  \/ StartListening
  \/ StartConnecting
  \/ StopListening
  \/ StopConnecting
  \/ StartUdp
  \/ StopUdp
  \/ (OtherCalls \/ Systems \/ Peers) /\ UNCHANGED <<startups, udp>>

ResourceSpec == ResourceInit /\ [][ResourceNext]_resourceVars

-----------------------------------------------------------------------------
One(b) == IF b THEN 1 ELSE 0

(* Each socket the engine itself opened still has its start-up: however    *)
(* the calls fail and whichever connections are lost, CleanUp is never     *)
(* called once too often, which on Windows closes every socket of the      *)
(* process.                                                                *)
WinsockCoversSockets ==
  startups >= One(Listen \in comps[Self]) + One(Socket \in comps[Self])
                + One(udp = "open")
====
