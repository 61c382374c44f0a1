-------------------------- MODULE VerifiedContent --------------------------
(***************************************************************************)
(* What the transfer of content promises, whatever the transport: blocks   *)
(* are held one by one, in any order, and may be lost again.  The whole is *)
(* put in its place only when every block of it is held and the place is   *)
(* empty; from then on it stays.                                           *)
(***************************************************************************)
CONSTANT Blocks
VARIABLES held, place

Init == held \subseteq Blocks /\ place \in {"empty", "taken"}

Obtain == held \subseteq held' /\ held' \subseteq Blocks /\ UNCHANGED place
Lose == held' \subseteq held /\ UNCHANGED place
Offer == Blocks \subseteq held /\ held' \subseteq held /\ place = "empty" /\ place' = "whole"
Take == place = "empty" /\ place' = "taken" /\ held' \subseteq held

Next == Obtain \/ Lose \/ Offer \/ Take
Step == [Next]_<<held, place>>
Spec == Init /\ [][Next]_<<held, place>>
=============================================================================
