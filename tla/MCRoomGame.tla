----------------------------- MODULE MCRoomGame -----------------------------
(* RoomGame with small constants for TLC. *)
EXTENDS RoomGame

\* The four unit steps, and one that is no unit step.
AllSteps == UnitSteps \cup {<<1, 1>>}
=============================================================================
