--------------------------- MODULE ServerContract ---------------------------
(***************************************************************************)
(* The server with a record of what its application saw, and the claim     *)
(* that it implements ConnectionLifecycle.  The two variables added are    *)
(* history: they constrain no step of the server.                          *)
(***************************************************************************)
EXTENDS Server

VARIABLES
  stage,   \* each entity, as the application last saw it
  tick     \* flips whenever beginUpdate returns

(* An entity by its public tags.                                           *)
Seen(e) ==
  IF e \notin entities
  THEN IF e < nextEntityId THEN "gone" ELSE "none"
  ELSE IF Connected \in comps[e]
       THEN IF New \in comps[e] THEN "new" ELSE "connected"
       ELSE IF Disconnected \in comps[e] THEN "disconnected" ELSE "leaving"

ConnectionId == EntityId \ {Self}

ContractInit ==
  /\ Init
  /\ stage = [e \in ConnectionId |-> Seen(e)]
  /\ tick = 0

ContractNext ==
  /\ ServerNext
  /\ stage' = IF phase' = "App" THEN [e \in ConnectionId |-> Seen(e)'] ELSE stage
  /\ tick' = IF phase = "Receive" /\ phase' = "App" THEN 1 - tick ELSE tick

ContractSpec == ContractInit /\ [][ContractNext]_<<vars, stage, tick>>

FairContractSpec == ContractSpec /\ ServerFairness

Lifecycle == INSTANCE ConnectionLifecycle WITH Ids <- ConnectionId

(* The server implements ConnectionLifecycle.                              *)
ImplementsLifecycle == Lifecycle!Spec
====
