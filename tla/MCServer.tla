------------------------------ MODULE MCServer ------------------------------
(* Server with small constants for TLC. *)
EXTENDS Server, TLC

\* A room of two seats.
TwoSeats == {[r \in RoomIds |-> 2]}
NoMoves == {}

\* Connections, descriptors and tokens are interchangeable.
Symmetry == Permutations(Conns) \cup Permutations(Fds) \cup Permutations(Tokens)
=============================================================================
