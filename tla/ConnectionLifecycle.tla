------------------------ MODULE ConnectionLifecycle ------------------------
(***************************************************************************)
(* What a server promises its application about connections, told by the   *)
(* public tags of their entities alone: an entity is `new' for exactly one *)
(* update, then connected; when its connection ends it is disconnected for *)
(* exactly one update, which no disconnection skips; it is then leaving    *)
(* until the next endUpdate, and its id is never used again.               *)
(*                                                                         *)
(* `stage' is what the application saw when control last came back to it,  *)
(* `tick' flips on each return of beginUpdate.                             *)
(***************************************************************************)
EXTENDS Naturals

CONSTANT Ids   \* ids that connections may get

VARIABLES stage, tick

Stage == {"none", "new", "connected", "disconnected", "leaving", "gone"}

(* Where one beginUpdate may take an entity.                               *)
OnBegin == [none         |-> {"none", "new"},
            new          |-> {"connected", "disconnected"},
            connected    |-> {"connected", "disconnected"},
            disconnected |-> {"leaving"},
            leaving      |-> {"leaving"},
            gone         |-> {"gone"}]

Init == stage = [e \in Ids |-> "none"] /\ tick = 0

BeginReturns ==
  /\ stage' \in [Ids -> Stage]
  /\ \A e \in Ids : stage'[e] \in OnBegin[stage[e]]
  /\ \A e, f \in Ids : e < f /\ stage'[e] = "none" => stage'[f] = "none"
  /\ tick' = 1 - tick

EndReturns ==
  /\ stage' = [e \in Ids |-> IF stage[e] = "leaving" THEN "gone" ELSE stage[e]]
  /\ UNCHANGED tick

Next == BeginReturns \/ EndReturns

Spec == Init /\ [][Next]_<<stage, tick>>
====
