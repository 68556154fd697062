------------------------------ MODULE TaskQueue ------------------------------
(***************************************************************************)
(* What the Redis list omnibrand:tasks promises to whoever pushes a         *)
(* campaign: its task is handed to at most one worker, at most once, and    *)
(* ends either worked off (or lost with its worker) or on the dead letter   *)
(* list, from where nothing brings it back. Module CampaignQueue            *)
(* implements it.                                                           *)
(***************************************************************************)
CONSTANT Campaigns

VARIABLE place  \* where the task of each campaign is

Init == place = [c \in Campaigns |-> "outside"]

Move(c, from, to) ==
  /\ place[c] = from
  /\ place' = [place EXCEPT ![c] = to]

Push(c) == Move(c, "outside", "listed")
Take(c) == Move(c, "listed", "held")
Leave(c) == Move(c, "held", "gone")
Bury(c) == Move(c, "held", "buried")

Next == \E c \in Campaigns : Push(c) \/ Take(c) \/ Leave(c) \/ Bury(c)

Spec == Init /\ [][Next]_place
=============================================================================
