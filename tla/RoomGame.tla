------------------------------ MODULE RoomGame ------------------------------
(***************************************************************************)
(* One room driven through the public methods of class Room, in any order  *)
(* the base thread may call them: the membership, the commands, the ticks  *)
(* and the checkpoint of room.cpp and game_state.cpp.                      *)
(***************************************************************************)
EXTENDS Room

CONSTANTS
    Capacities,     \* the capacities the room may be created with
    Moves,          \* the (dx, dy) pairs clients ask for
    MaxTick         \* bound: ticks counted before the model stops ticking

ASSUME RoomGameAssumption ==
    /\ Capacities \subseteq Nat
    /\ Moves \subseteq Int \X Int
    /\ MaxTick \in Nat

VARIABLES
    room,
    departed        \* history: the ids of players who left

vars == <<room, departed>>

TypeOK ==
    /\ IsRoom(room)
    /\ room.capacity \in Capacities
    /\ room.tick_id <= MaxTick
    /\ \A id \in DOMAIN room.players : room.players[id] \in PlayerGameState
    /\ \A i \in 1 .. Len(room.pending) : room.pending[i].player \in PlayerIds
    /\ departed \subseteq PlayerIds

Init == (\E n \in Capacities : room = NewRoom(n)) /\ departed = {}

\* Join, and start_if_full as RoomService calls it after a successful join;
\* a room that cannot start takes the join back.
JoinRoom(c) ==
    /\ JoinState(room, TRUE) = "success"
    /\ LET joined == AddMember(room, c)
           id     == room.next_player_id
       IN  \/ /\ MemberCount(joined) < room.capacity
              /\ room' = joined
              /\ UNCHANGED departed
           \/ /\ MemberCount(joined) = room.capacity
              /\ CanStart(joined)
              /\ room' = Start(joined)
              /\ UNCHANGED departed
           \/ /\ MemberCount(joined) = room.capacity
              /\ ~ CanStart(joined)
              /\ room' = RemoveMembers(joined, {id})
              /\ departed' = departed \cup {id}

LeaveRoom(id) ==
    /\ CanLeave(room, id)
    /\ room' = RemoveMembers(room, {id})
    /\ departed' = departed \cup {id}

SubmitMove(id, dx, dy) ==
    /\ SubmitState(room, id) = "success"
    /\ room' = Submit(room, Move(id, dx, dy))
    /\ UNCHANGED departed

SubmitAttack(id, target) ==
    /\ SubmitState(room, id) = "success"
    /\ room' = Submit(room, Attack(id, target))
    /\ UNCHANGED departed

TickRoom ==
    /\ room.state = "running"
    /\ room.tick_id < MaxTick
    /\ room' = Tick(room)
    /\ UNCHANGED departed

FinishRoom ==
    /\ CanFinish(room)
    /\ room' = Finish(room)
    /\ UNCHANGED departed

BindConnection(id, c) ==
    /\ CanBind(room, id)
    /\ room' = Bind(room, id, c)
    /\ UNCHANGED departed

DetachConnection(id, c) ==
    /\ CanDetach(room, id, c)
    /\ room' = Detach(room, id)
    /\ UNCHANGED departed

\* The server is stopped and started again from the checkpoint of this room.
RestoreRoom ==
    LET cp == MakeRoomCheckpoint(room)
    IN  /\ CanRestoreRoom(cp, room.capacity)
        /\ room' = RestoredRoom(cp)
        /\ UNCHANGED departed

Next ==
    \/ \E c \in Conns : JoinRoom(c)
    \/ \E id \in PlayerIds :
         \/ LeaveRoom(id)
         \/ \E step \in Moves : SubmitMove(id, step[1], step[2])
         \/ \E target \in 0 .. MaxPlayerId : SubmitAttack(id, target)
         \/ \E c \in Conns : BindConnection(id, c) \/ DetachConnection(id, c)
    \/ TickRoom
    \/ FinishRoom
    \/ RestoreRoom

Spec == Init /\ [][Next]_vars

-----------------------------------------------------------------------------
(* Safety. *)

\* The players after a batch of which only the commands that name members, as
\* mover, attacker and target, were settled.
ProcessPresent(players, commands, present) ==
    LET Names(command) == IF command.type = "move" THEN {command.player}
                          ELSE {command.player, command.target}
        after[n \in 0 .. Len(commands)] ==
            IF n = 0 THEN players
            ELSE IF Names(commands[n]) \subseteq present
                 THEN ProcessCommand(after[n - 1], commands[n])
                 ELSE after[n - 1]
    IN  [id \in DOMAIN players |-> after[Len(commands)][id]]

\* Room::leave leaves the queued command of a departed player in the batch; the
\* tick settles as if it were not there, and likewise an attack on a player
\* who left.
DepartedHaveNoEffect ==
    ProcessBatch(room.players, room.pending)
      = ProcessPresent(room.players, room.pending, Members(room))

\* next_player_id_ hands every id out once, up to the wrap to 0 at which
\* Room::join refuses: no member has the id of a player who left.
IdsAreNotReused ==
    /\ Members(room) \cap departed = {}
    /\ room.next_player_id # 0 =>
         \A id \in Members(room) \cup departed : id < room.next_player_id

\* Whatever state a room is in, the checkpoint it makes passes the checks of
\* Room::restore_checkpoint: a server never saves what it would refuse to load.
CheckpointIsRestorable == CanRestoreRoom(MakeRoomCheckpoint(room), room.capacity)

\* What Room::tick may do to a player, whatever batch it settles: move it by at
\* most one square and only by its own queued move, and take one hit for each
\* other player of the game who was alive and had an attack on it queued.
TickIsLocal ==
    [][room'.tick_id > room.tick_id =>
         \A id \in DOMAIN room.players :
           LET was  == room.players[id]
               is   == room'.players[id]
               mine == {i \in 1 .. Len(room.pending) : room.pending[i].player = id}
               hits == {i \in 1 .. Len(room.pending) :
                          /\ room.pending[i].type = "attack"
                          /\ room.pending[i].target = id
                          /\ room.pending[i].player \in DOMAIN room.players \ {id}
                          /\ room.players[room.pending[i].player].hp > 0}
           IN  /\ Distance(was, is) <= 1
               /\ was.x # is.x \/ was.y # is.y =>
                    \E i \in mine : room.pending[i].type = "move"
               /\ is.hp <= was.hp
               /\ was.hp - is.hp <= AttackDamage * Cardinality(hits)
      ]_vars

\* Hit points never come back, through ticks, leaves, reconnections and restores:
\* a player who was eliminated stays so.
DeadStayDead ==
    [][\A id \in DOMAIN room.players \cap DOMAIN room'.players :
         /\ room.players[id].hp = 0 => room'.players[id].hp = 0
         /\ room'.players[id].hp <= room.players[id].hp]_vars
=============================================================================
