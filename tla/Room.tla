-------------------------------- MODULE Room --------------------------------
(***************************************************************************)
(* One room (class Room of room.cpp with its Roomstatemachine), as a       *)
(* record and one operator per method.                                     *)
(*                                                                         *)
(*   capacity        capacity_                                             *)
(*   next_player_id  next_player_id_, a uint64 that wraps to 0 = exhausted *)
(*   state           state_machine_.state_                                 *)
(*   tick_id         tick_id_                                              *)
(*   members         members_: player id -> the Connection its weak_ptr    *)
(*                   points to, NoConn when it is empty or has expired     *)
(*   players         game_state_                                           *)
(*   pending         pending_commands_, in the order they were submitted   *)
(*                                                                         *)
(* A method that can fail is a predicate (when it succeeds) and an         *)
(* operator (the room afterwards).  Player names are abstracted to their   *)
(* validity, which join checks.  The methods run on the base thread only.  *)
(***************************************************************************)
EXTENDS Gamestate, Sequences

CONSTANTS
    Conns,          \* addresses of Connection objects
    NoConn,         \* an empty or expired weak_ptr
    MaxPlayerId     \* the largest player id (2^64 - 1)

ASSUME RoomAssumption ==
    /\ NoConn \notin Conns
    /\ MaxPlayerId \in Nat \ {0}

\* A table (std::unordered_map) with one entry set, or some entries erased.
Put(f, key, value) ==
    [k \in DOMAIN f \cup {key} |-> IF k = key THEN value ELSE f[k]]

Drop(f, keys) == [k \in DOMAIN f \ keys |-> f[k]]

PlayerIds == 1 .. MaxPlayerId

States == {"waiting", "running", "finished"}

Members(room) == DOMAIN room.members

MemberCount(room) == Cardinality(Members(room))

\* What kind of value a room is: the typing facts every operation preserves.
IsRoom(room) ==
    /\ DOMAIN room = {"capacity", "next_player_id", "state", "tick_id",
                      "members", "players", "pending"}
    /\ room.capacity \in Nat
    /\ room.next_player_id \in 0 .. MaxPlayerId
    /\ room.state \in States
    /\ room.tick_id \in Nat
    /\ Members(room) \subseteq PlayerIds
    /\ \A id \in Members(room) : room.members[id] \in Conns \cup {NoConn}

NewRoom(capacity) ==
    [capacity       |-> capacity,
     next_player_id |-> 1,
     state          |-> "waiting",
     tick_id        |-> 0,
     members        |-> [id \in {} |-> NoConn],
     players        |-> NoPlayers,
     pending        |-> <<>>]

-----------------------------------------------------------------------------
(* Membership. *)

\* The checks of Room::join, in their order.
JoinState(room, name_ok) ==
    IF ~ name_ok THEN "invalid_player_name"
    ELSE IF room.state # "waiting" THEN "invalid_state"
    ELSE IF MemberCount(room) >= room.capacity THEN "room_full"
    ELSE IF room.next_player_id = 0 THEN "player_id_exhausted"
    ELSE "success"

\* Mutant: the last id is handed out again and again.
IncrementSaturates(id) == IF id = MaxPlayerId THEN id ELSE id + 1

\* ++ on a uint64: (id + 1) % 2^64.
Increment(id) == IF id = MaxPlayerId THEN 0 ELSE id + 1

AddMember(room, conn) ==
    [room EXCEPT
        !.members = Put(@, room.next_player_id, conn),
        !.next_player_id = Increment(@)]

\* Room::start(true): waiting, and the game accepts the members.
CanStart(room) == room.state = "waiting" /\ CanInitialize(Members(room))

Start(room) ==
    [room EXCEPT !.state   = "running",
                 !.players = InitialPlayers(Members(room)),
                 !.tick_id = 0,
                 !.pending = <<>>]

CanFinish(room) == room.state = "running"

Finish(room) == [room EXCEPT !.state = "finished", !.pending = <<>>]

CanLeave(room, id) ==
    /\ id \in Members(room)
    /\ room.state # "waiting" => CanRemove(room.players, id)

\* Mutants: leaving forgets the game; leaving forgets the seat.
RemoveMembersFromSeat(room, ids) == [room EXCEPT !.members = Drop(@, ids)]

RemoveMembersFromGame(room, ids) == [room EXCEPT !.players = RemovePlayers(@, ids)]

\* Room::leave for each id of a set; pending commands stay where they are.
RemoveMembers(room, ids) ==
    [room EXCEPT
        !.members = Drop(@, ids),
        !.players = IF room.state = "waiting" THEN @ ELSE RemovePlayers(@, ids)]

\* The connections a broadcast reaches: members whose weak_ptr locks.
Connections(room, excluded) ==
    {room.members[id] : id \in Members(room) \ {excluded}} \ {NoConn}

-----------------------------------------------------------------------------
(* Commands and the tick. *)

Move(id, dx, dy)   == [type |-> "move", player |-> id, dx |-> dx, dy |-> dy]

Attack(id, target) == [type |-> "attack", player |-> id, target |-> target]

HasPendingCommand(room, id) ==
    \E i \in 1 .. Len(room.pending) : room.pending[i].player = id

\* Mutant: a second command in the same tick is accepted.
SubmitStateAgain(room, id) ==
    IF room.state # "running" THEN "invalid_state"
    ELSE IF id \notin Members(room) THEN "player_not_found"
    ELSE "success"

\* The checks of submit_move and submit_attack, in their order.
SubmitState(room, id) ==
    IF room.state # "running" THEN "invalid_state"
    ELSE IF id \notin Members(room) THEN "player_not_found"
    ELSE IF HasPendingCommand(room, id) THEN "already_submitted"
    ELSE "success"

Submit(room, command) == [room EXCEPT !.pending = Append(@, command)]

\* process_command: a command the game rejects changes nothing.
ProcessCommand(players, command) ==
    IF command.type = "move"
    THEN IF CanMove(players, command.player, command.dx, command.dy)
         THEN MovePlayer(players, command.player, command.dx, command.dy)
         ELSE players
    ELSE IF CanAttack(players, command.player, command.target)
         THEN AttackPlayer(players, command.target)
         ELSE players

\* The players after the commands of the batch, applied in order: nobody is
\* added or removed by a tick.
ProcessBatch(players, commands) ==
    LET after[n \in 0 .. Len(commands)] ==
            IF n = 0 THEN players
            ELSE ProcessCommand(after[n - 1], commands[n])
    IN  [id \in DOMAIN players |-> after[Len(commands)][id]]

\* Room::tick of a running room: take the batch, settle it, count the tick.
Tick(room) ==
    [room EXCEPT !.players = ProcessBatch(@, room.pending),
                 !.pending = <<>>,
                 !.tick_id = @ + 1]

-----------------------------------------------------------------------------
(* The member's connection. *)

CanBind(room, id) == id \in Members(room) /\ room.members[id] = NoConn

Bind(room, id, conn) == [room EXCEPT !.members[id] = conn]

CanDetach(room, id, conn) == id \in Members(room) /\ room.members[id] = conn

Detach(room, id) == [room EXCEPT !.members[id] = NoConn]

\* The Connection object is gone: weak pointers to it no longer lock.
Expire(room, conn) ==
    [room EXCEPT !.members =
        [id \in Members(room) |-> IF room.members[id] = conn THEN NoConn
                                  ELSE room.members[id]]]

-----------------------------------------------------------------------------
(* Checkpoints: the connections and the pending commands are not saved. *)

\* Mutants: the dead are not saved; the next id is not saved.
MakeRoomCheckpointAlive(room) ==
    [capacity       |-> room.capacity,
     next_player_id |-> room.next_player_id,
     state          |-> room.state,
     tick_id        |-> room.tick_id,
     members        |-> Members(room),
     game_states    |-> RemovePlayers(room.players,
                            {id \in DOMAIN room.players : room.players[id].hp = 0})]

MakeRoomCheckpointFirstId(room) ==
    [capacity       |-> room.capacity,
     next_player_id |-> 1,
     state          |-> room.state,
     tick_id        |-> room.tick_id,
     members        |-> Members(room),
     game_states    |-> room.players]

MakeRoomCheckpoint(room) ==
    [capacity       |-> room.capacity,
     next_player_id |-> room.next_player_id,
     state          |-> room.state,
     tick_id        |-> room.tick_id,
     members        |-> Members(room),
     game_states    |-> room.players]

\* The checks of Room::restore_checkpoint; capacity is the room's own.
CanRestoreRoom(cp, capacity) ==
    /\ cp.capacity = capacity
    /\ Cardinality(cp.members) <= capacity
    /\ 0 \notin cp.members
    /\ cp.next_player_id # 0 => \A id \in cp.members : cp.next_player_id > id
    /\ IF cp.state = "waiting"
       THEN cp.tick_id = 0 /\ DOMAIN cp.game_states = {}
       ELSE DOMAIN cp.game_states = cp.members
    /\ CanRestoreGame(cp.game_states)

\* Mutant: the game restarts with the room.
RestoredRoomFresh(cp) ==
    [capacity       |-> cp.capacity,
     next_player_id |-> cp.next_player_id,
     state          |-> cp.state,
     tick_id        |-> cp.tick_id,
     members        |-> [id \in cp.members |-> NoConn],
     players        |-> InitialPlayers(DOMAIN cp.game_states),
     pending        |-> <<>>]

RestoredRoom(cp) ==
    [capacity       |-> cp.capacity,
     next_player_id |-> cp.next_player_id,
     state          |-> cp.state,
     tick_id        |-> cp.tick_id,
     members        |-> [id \in cp.members |-> NoConn],
     players        |-> cp.game_states,
     pending        |-> <<>>]
=============================================================================
