--------------------------- MODULE MCRoomService ---------------------------
(* RoomService with small constants for TLC. *)
EXTENDS RoomService, TLC

NoMoves == {}
OneMove == {<<0, 1>>}

\* A room for two players, and one that never starts: it has a seat more than
\* a game takes.
TwoSeats == {[r \in RoomIds |-> 2]}
TwoOrThreeSeats == {[r \in RoomIds |-> n] : n \in {2, 3}}

\* Room 1 starts at its first player; room 2 has more seats than a game.
TwoRooms == {[r \in RoomIds |-> r]}

\* Connections are interchangeable, and so are tokens.
Symmetry == Permutations(Conns) \cup Permutations(Tokens)
=============================================================================
