--------------------------- MODULE RoomGameProofs ---------------------------
(***************************************************************************)
(* The properties of one room hold for any capacity, any board, any number *)
(* of players, connections and ticks, and any batch of commands.           *)
(***************************************************************************)
EXTENDS RoomGame, RoomProofs

\* The inductive invariant: the room is sound, and the ids it has handed out
\* are below the next one.
Inv ==
    /\ SoundRoom(room)
    /\ room.capacity \in Capacities
    /\ room.tick_id <= MaxTick
    /\ departed \subseteq PlayerIds
    /\ IdsAreNotReused

-----------------------------------------------------------------------------

\* Room::Room.
LEMMA InitInv == Init => Inv
  <1> SUFFICES ASSUME Init PROVE Inv
    OBVIOUS
  <1>0. PICK n \in Capacities : room = NewRoom(n)
    BY DEF Init
  <1>1. SoundRoom(room) /\ room.capacity \in Capacities /\ Members(room) = {}
    BY <1>0, NewRoomSound, NewRoomOK, RoomGameAssumption DEF NewRoom
  <1>2. room.tick_id = 0 /\ departed = {}
    BY <1>0 DEF Init, NewRoom
  <1> QED BY <1>1, <1>2, RoomGameAssumption DEF Inv, IdsAreNotReused

\* A step that neither adds nor removes a member keeps the ids.
LEMMA SameIds ==
    ASSUME IdsAreNotReused, Members(room') = Members(room),
           room'.next_player_id = room.next_player_id, UNCHANGED departed
    PROVE  IdsAreNotReused'
  BY DEF IdsAreNotReused

\* Joins, the start they cause, and joins that are taken back.
LEMMA JoinKeepsInv ==
    ASSUME Inv, NEW c \in Conns, JoinRoom(c)
    PROVE  Inv'
  <1> DEFINE joined == AddMember(room, c)
             id     == room.next_player_id
  <1>1. /\ SoundRoom(joined) /\ joined.capacity \in Capacities
        /\ RoomOK(room) /\ room.state = "waiting" /\ id # 0
    BY AddMemberSound DEF Inv, JoinRoom, JoinState, SoundRoom
  <1>2. /\ id \in PlayerIds
        /\ id \notin Members(room)
        /\ Members(joined) = Members(room) \cup {id}
    BY <1>1, AddMemberOK
  <1>3. joined.tick_id = room.tick_id /\ joined.next_player_id = Increment(id)
    BY <1>1 DEF RoomOK, IsRoom, AddMember
  <1> HIDE DEF joined
  <1>4. id \notin departed /\ Members(joined) \cap departed = {}
    BY <1>1, <1>2 DEF Inv, IdsAreNotReused, PlayerIds
  <1>5. joined.next_player_id # 0 =>
          \A i \in Members(joined) \cup departed : i < joined.next_player_id
    <2>1. \A i \in Members(room) \cup departed : i < id /\ i \in PlayerIds
      BY <1>1, <1>2 DEF Inv, IdsAreNotReused, RoomOK, IsRoom
    <2> QED BY <1>2, <1>3, <2>1 DEF Increment, PlayerIds
  <1>6. CASE room' = joined /\ UNCHANGED departed
    BY <1>1, <1>3, <1>4, <1>5, <1>6 DEF Inv, IdsAreNotReused
  <1>7. CASE CanStart(joined) /\ room' = Start(joined) /\ UNCHANGED departed
    <2>1. SoundRoom(room') /\ room'.capacity \in Capacities
      BY <1>1, <1>7, StartSound
    <2>2. /\ Members(room') = Members(joined)
          /\ room'.next_player_id = joined.next_player_id
          /\ room'.tick_id = 0
      BY <1>1, <1>7 DEF SoundRoom, RoomOK, IsRoom, Start, Members
    <2> QED BY <1>4, <1>5, <1>7, <2>1, <2>2, RoomGameAssumption DEF Inv, IdsAreNotReused
  <1>8. CASE room' = RemoveMembers(joined, {id}) /\ departed' = departed \cup {id}
    <2>1. SoundRoom(room') /\ room'.capacity \in Capacities
      BY <1>1, <1>8, RemoveMembersSound
    <2>2. Members(room') = Members(joined) \ {id}
      BY <1>1, <1>8, RemoveMembersOK DEF SoundRoom
    <2>3. /\ room'.next_player_id = joined.next_player_id
          /\ room'.tick_id = room.tick_id
      BY <1>1, <1>3, <1>8 DEF SoundRoom, RoomOK, IsRoom, RemoveMembers
    <2>4. IdsAreNotReused' /\ departed' \subseteq PlayerIds
      BY <1>2, <1>4, <1>5, <1>8, <2>2, <2>3 DEF Inv, IdsAreNotReused
    <2> QED BY <2>1, <2>3, <2>4 DEF Inv
  <1> QED BY <1>6, <1>7, <1>8 DEF JoinRoom, joined

\* The id of a player who leaves is not handed out again.
LEMMA LeaveKeepsInv ==
    ASSUME Inv, NEW id \in PlayerIds, LeaveRoom(id)
    PROVE  Inv'
  <1>1. SoundRoom(room') /\ room'.capacity \in Capacities
    BY RemoveMembersSound DEF Inv, LeaveRoom
  <1>2. Members(room') = Members(room) \ {id} /\ id \in Members(room)
    BY RemoveMembersOK DEF Inv, SoundRoom, LeaveRoom, CanLeave
  <1>3. room'.next_player_id = room.next_player_id /\ room'.tick_id = room.tick_id
    BY DEF Inv, LeaveRoom, SoundRoom, RoomOK, IsRoom, RemoveMembers
  <1>4. IdsAreNotReused' /\ departed' \subseteq PlayerIds
    BY <1>2, <1>3 DEF Inv, IdsAreNotReused, LeaveRoom
  <1> QED BY <1>1, <1>3, <1>4 DEF Inv

\* A command waits for the tick.
LEMMA SubmitKeepsInv ==
    ASSUME Inv, NEW command \in Command, SubmitState(room, command.player) = "success",
           room' = Submit(room, command), UNCHANGED departed
    PROVE  Inv'
  <1>1. SoundRoom(room') /\ room'.capacity \in Capacities
    BY SubmitSound DEF Inv
  <1>2. /\ Members(room') = Members(room)
        /\ room'.next_player_id = room.next_player_id
        /\ room'.tick_id = room.tick_id
    BY DEF Inv, SoundRoom, RoomOK, IsRoom, Submit, Members
  <1> QED BY <1>1, <1>2, SameIds DEF Inv

\* The moves and attacks clients can ask for are commands.
LEMMA RequestsAreCommands ==
    /\ \A id \in PlayerIds : \A step \in Moves : Move(id, step[1], step[2]) \in Command
    /\ \A id \in PlayerIds : \A target \in 0 .. MaxPlayerId : Attack(id, target) \in Command
  <1>1. ASSUME NEW id \in PlayerIds, NEW step \in Moves
        PROVE  Move(id, step[1], step[2]) \in Command
    <2>1. step[1] \in Int /\ step[2] \in Int
      BY RoomGameAssumption
    <2> QED BY <2>1 DEF Move, Command
  <1>2. ASSUME NEW id \in PlayerIds, NEW target \in 0 .. MaxPlayerId
        PROVE  Attack(id, target) \in Command
    BY DEF Attack, Command
  <1> QED BY <1>1, <1>2

\* A tick settles the batch and removes nobody.
LEMMA TickKeepsInv ==
    ASSUME Inv, TickRoom
    PROVE  Inv'
  <1>1. SoundRoom(room') /\ room'.capacity \in Capacities
    BY TickSound DEF Inv, TickRoom
  <1>2. /\ Members(room') = Members(room)
        /\ room'.next_player_id = room.next_player_id
        /\ room'.tick_id = room.tick_id + 1
        /\ room.tick_id \in Nat
    BY DEF Inv, TickRoom, SoundRoom, RoomOK, IsRoom, Tick, Members
  <1>3. room'.tick_id <= MaxTick
    BY <1>2, RoomGameAssumption DEF TickRoom
  <1> QED BY <1>1, <1>2, <1>3, SameIds DEF Inv, TickRoom

\* Room::finish keeps the members.
LEMMA FinishKeepsInv ==
    ASSUME Inv, FinishRoom
    PROVE  Inv'
  <1>1. SoundRoom(room') /\ room'.capacity \in Capacities
    BY FinishSound DEF Inv, FinishRoom
  <1>2. /\ Members(room') = Members(room)
        /\ room'.next_player_id = room.next_player_id
        /\ room'.tick_id = room.tick_id
    BY DEF Inv, FinishRoom, SoundRoom, RoomOK, IsRoom, Finish, Members
  <1> QED BY <1>1, <1>2, SameIds DEF Inv, FinishRoom

\* The connection of a member comes and goes.
LEMMA ConnectionKeepsInv ==
    ASSUME Inv, NEW id \in PlayerIds, NEW c \in Conns,
           BindConnection(id, c) \/ DetachConnection(id, c)
    PROVE  Inv'
  <1>1. id \in Members(room) /\ UNCHANGED departed
    BY DEF BindConnection, DetachConnection, CanBind, CanDetach
  <1>2. SoundRoom(room') /\ room'.capacity \in Capacities
    BY <1>1, BindSound, DetachSound DEF Inv, BindConnection, DetachConnection
  <1>3. Members(room') = Members(room)
    <2>1. RoomOK(room)
      BY DEF Inv, SoundRoom
    <2>2. CASE room' = Bind(room, id, c)
      BY <1>1, <2>1, <2>2, BindOK
    <2>3. CASE room' = Detach(room, id)
      BY <1>1, <2>1, <2>3, DetachOK
    <2> QED BY <2>2, <2>3 DEF BindConnection, DetachConnection
  <1>4. room'.next_player_id = room.next_player_id /\ room'.tick_id = room.tick_id
    BY DEF Inv, SoundRoom, RoomOK, IsRoom, BindConnection, DetachConnection, Bind, Detach
  <1> QED BY <1>1, <1>2, <1>3, <1>4, SameIds DEF Inv

\* A restored room goes on where the checkpoint was taken.
LEMMA RestoreKeepsInv ==
    ASSUME Inv, RestoreRoom
    PROVE  Inv'
  <1> DEFINE cp == MakeRoomCheckpoint(room)
  <1>1. /\ cp.capacity = room.capacity
        /\ cp.next_player_id = room.next_player_id
        /\ cp.state = room.state
        /\ cp.tick_id = room.tick_id
        /\ cp.members = Members(room)
        /\ cp.game_states = room.players
    BY DEF MakeRoomCheckpoint
  <1>2. CanRestoreRoom(cp, room.capacity) /\ room' = RestoredRoom(cp) /\ UNCHANGED departed
    BY DEF RestoreRoom
  <1> HIDE DEF cp
  <1>3. /\ cp.capacity \in Nat /\ cp.next_player_id \in 0 .. MaxPlayerId
        /\ cp.state \in States /\ cp.tick_id \in Nat /\ cp.members \subseteq PlayerIds
        /\ GameOK(cp.game_states)
    BY <1>1 DEF Inv, SoundRoom, RoomOK, IsRoom, Restorable
  <1>4. SoundRoom(room') /\ room'.capacity \in Capacities
    BY <1>1, <1>2, <1>3, RestoredRoomSound DEF Inv
  <1>5. /\ Members(room') = Members(room)
        /\ room'.next_player_id = room.next_player_id
        /\ room'.tick_id = room.tick_id
    BY <1>1, <1>2 DEF RestoredRoom, Members
  <1> QED BY <1>2, <1>4, <1>5, SameIds DEF Inv

\* Every step keeps the invariant.
LEMMA NextKeepsInv ==
    ASSUME Inv, [Next]_vars
    PROVE  Inv'
  <1>1. CASE UNCHANGED vars
    BY <1>1 DEF vars, Inv, IdsAreNotReused
  <1>2. ASSUME NEW id \in PlayerIds, NEW step \in Moves, SubmitMove(id, step[1], step[2])
        PROVE  Inv'
    <2> DEFINE command == Move(id, step[1], step[2])
    <2>1. command \in Command /\ command.player = id
      BY RequestsAreCommands DEF Move
    <2> QED BY <1>2, <2>1, SubmitKeepsInv DEF SubmitMove
  <1>3. ASSUME NEW id \in PlayerIds, NEW target \in 0 .. MaxPlayerId, SubmitAttack(id, target)
        PROVE  Inv'
    <2> DEFINE command == Attack(id, target)
    <2>1. command \in Command /\ command.player = id
      BY RequestsAreCommands DEF Attack
    <2> QED BY <1>3, <2>1, SubmitKeepsInv DEF SubmitAttack
  <1> QED BY <1>1, <1>2, <1>3, JoinKeepsInv, LeaveKeepsInv, ConnectionKeepsInv, TickKeepsInv,
             FinishKeepsInv, RestoreKeepsInv DEF Next

\* The invariant holds in every state of a room.
THEOREM Invariance == Spec => []Inv
  BY InitInv, NextKeepsInv, PTL DEF Spec

\* A room and its history always hold values of their kinds: nobody stands off
\* the board or has negative hit points, whatever batches were settled.
THEOREM TypeCorrect == Spec => []TypeOK
  <1>1. Inv => TypeOK
    <2> SUFFICES ASSUME Inv PROVE TypeOK
      OBVIOUS
    <2>1. \A i \in 1 .. Len(room.pending) : room.pending[i].player \in PlayerIds
      <3>1. \A i \in 1 .. Len(room.pending) : room.pending[i] \in Command
        BY LenProperties DEF Inv, SoundRoom, PendingOK
      <3>2. \A command \in Command : command.player \in PlayerIds
        BY DEF Command
      <3> QED BY <3>1, <3>2
    <2> QED BY <2>1 DEF Inv, TypeOK, SoundRoom, RoomOK, Restorable, GameOK
  <1> QED BY <1>1, Invariance, PTL

\* next_player_id_ hands every id out once, up to its wrap to 0.
THEOREM IdsNeverReused == Spec => []IdsAreNotReused
  <1>1. Inv => IdsAreNotReused
    BY DEF Inv
  <1> QED BY <1>1, Invariance, PTL

\* A room never makes a checkpoint that restore_checkpoint would refuse.
THEOREM CheckpointAlwaysRestorable == Spec => []CheckpointIsRestorable
  <1>1. Inv => CheckpointIsRestorable
    BY SoundIsRestorable DEF Inv, CheckpointIsRestorable
  <1> QED BY <1>1, Invariance, PTL

-----------------------------------------------------------------------------
(* What a step may do to the players. *)

\* Outside Room::tick the players of the game stay as they are, leave, or are
\* all new; the tick count does not grow.
LEMMA OtherStepsKeepPlayers ==
    ASSUME Inv, [Next]_vars, ~ TickRoom
    PROVE  /\ room'.tick_id <= room.tick_id
           /\ \A id \in DOMAIN room.players \cap DOMAIN room'.players :
                room'.players[id] = room.players[id]
  <1>0. RoomOK(room) /\ room.tick_id \in Nat
    BY DEF Inv, SoundRoom, RoomOK, IsRoom
  <1>1. CASE UNCHANGED vars
    BY <1>0, <1>1 DEF vars
  <1>2. ASSUME NEW c \in Conns, JoinRoom(c)
        PROVE  room'.tick_id <= room.tick_id /\ DOMAIN room.players = {}
    <2> DEFINE joined == AddMember(room, c)
    <2>1. DOMAIN room.players = {} /\ room.tick_id = 0
      BY <1>0, <1>2 DEF Inv, SoundRoom, RoomOK, GameMatches, Restorable, JoinRoom, JoinState
    <2>2. joined.tick_id = room.tick_id /\ DOMAIN joined = DOMAIN room
      BY <1>0 DEF RoomOK, IsRoom, AddMember
    <2> HIDE DEF joined
    <2>3. /\ Start(joined).tick_id = 0
          /\ \A ids : RemoveMembers(joined, ids).tick_id = joined.tick_id
      BY <1>0, <2>2 DEF RoomOK, IsRoom, Start, RemoveMembers
    <2>4. room'.tick_id = 0
      BY <1>2, <2>1, <2>2, <2>3 DEF JoinRoom, joined
    <2> QED BY <2>1, <2>4
  <1>3. ASSUME NEW id \in PlayerIds, LeaveRoom(id)
        PROVE  /\ room'.tick_id = room.tick_id
               /\ \A i \in DOMAIN room'.players : room'.players[i] = room.players[i]
    BY <1>0, <1>3 DEF LeaveRoom, RoomOK, IsRoom, RemoveMembers, RemovePlayers
  <1>4. ASSUME NEW command, room' = Submit(room, command)
        PROVE  room'.tick_id = room.tick_id /\ room'.players = room.players
    BY <1>0, <1>4 DEF RoomOK, IsRoom, Submit
  <1>5. ASSUME FinishRoom
        PROVE  room'.tick_id = room.tick_id /\ room'.players = room.players
    BY <1>0, <1>5 DEF FinishRoom, RoomOK, IsRoom, Finish
  <1>6. ASSUME NEW id \in PlayerIds, NEW c \in Conns,
               BindConnection(id, c) \/ DetachConnection(id, c)
        PROVE  room'.tick_id = room.tick_id /\ room'.players = room.players
    BY <1>0, <1>6 DEF BindConnection, DetachConnection, RoomOK, IsRoom, Bind, Detach
  <1>7. ASSUME RestoreRoom
        PROVE  room'.tick_id = room.tick_id /\ room'.players = room.players
    BY <1>7 DEF RestoreRoom, RestoredRoom, MakeRoomCheckpoint
  <1> QED BY <1>0, <1>1, <1>2, <1>3, <1>4, <1>5, <1>6, <1>7 DEF Next, SubmitMove, SubmitAttack

\* What Room::tick does to the players.
LEMMA TickEffect ==
    ASSUME Inv, TickRoom
    PROVE  /\ BatchEffect(room.players, room.pending, Len(room.pending), room'.players)
           /\ GameOK(room.players)
  BY TickSound DEF Inv, TickRoom, SoundRoom, Restorable

\* A player who was eliminated stays so, through every tick and every restart.
THEOREM DeadAlwaysStayDead == Spec => DeadStayDead
  <1> DEFINE A == \A id \in DOMAIN room.players \cap DOMAIN room'.players :
                    /\ room.players[id].hp = 0 => room'.players[id].hp = 0
                    /\ room'.players[id].hp <= room.players[id].hp
  <1>1. ASSUME Inv, [Next]_vars PROVE A
    <2>0. \A id \in DOMAIN room.players : room.players[id].hp \in Nat
      BY <1>1 DEF Inv, SoundRoom, Restorable, GameOK, PlayerGameState
    <2>1. CASE TickRoom
      <3>1. /\ DOMAIN room'.players = DOMAIN room.players
            /\ GameOK(room'.players)
            /\ \A id \in DOMAIN room.players : room'.players[id].hp <= room.players[id].hp
        BY <1>1, <2>1, TickEffect DEF BatchEffect
      <3>2. \A id \in DOMAIN room.players : room'.players[id].hp \in Nat
        BY <3>1 DEF GameOK, PlayerGameState
      <3> QED BY <2>0, <3>1, <3>2
    <2>2. CASE ~ TickRoom
      BY <1>1, <2>0, <2>2, OtherStepsKeepPlayers
    <2> QED BY <2>1, <2>2
  <1>2. Inv /\ [Next]_vars => [A]_vars
    BY <1>1
  <1> QED BY <1>2, Invariance, PTL DEF Spec, DeadStayDead

\* A tick moves a player by its own command only, by one square at most, and
\* takes one hit for each living player who had an attack on it queued.
THEOREM TickAlwaysLocal == Spec => TickIsLocal
  <1> DEFINE mine(id) == {i \in 1 .. Len(room.pending) : room.pending[i].player = id}
             hits(id) == {i \in 1 .. Len(room.pending) :
                            /\ room.pending[i].type = "attack"
                            /\ room.pending[i].target = id
                            /\ room.pending[i].player \in DOMAIN room.players \ {id}
                            /\ room.players[room.pending[i].player].hp > 0}
             A == room'.tick_id > room.tick_id =>
                    \A id \in DOMAIN room.players :
                      LET was == room.players[id]
                          is  == room'.players[id]
                      IN  /\ Distance(was, is) <= 1
                          /\ was.x # is.x \/ was.y # is.y =>
                               \E i \in mine(id) : room.pending[i].type = "move"
                          /\ is.hp <= was.hp
                          /\ was.hp - is.hp <= AttackDamage * Cardinality(hits(id))
  <1>1. ASSUME Inv, [Next]_vars PROVE A
    <2>1. CASE TickRoom
      <3>1. BatchEffect(room.players, room.pending, Len(room.pending), room'.players)
        BY <1>1, <2>1, TickEffect
      <3>2. ASSUME NEW id \in DOMAIN room.players
            PROVE  /\ Distance(room.players[id], room'.players[id]) <= 1
                   /\ \/ SamePlace(room.players[id], room'.players[id])
                      \/ \E i \in mine(id) : room.pending[i].type = "move"
                   /\ room'.players[id].hp <= room.players[id].hp
                   /\ room.players[id].hp - room'.players[id].hp
                        <= AttackDamage * Cardinality(hits(id))
        <4>1. hits(id) = {i \in 1 .. Len(room.pending) : Hits(room.players, room.pending[i], id)}
          BY DEF Hits
        <4> HIDE DEF hits
        <4> QED BY <3>1, <4>1 DEF BatchEffect, Walks
      <3> HIDE DEF hits, mine
      <3> QED BY <3>2 DEF SamePlace
    <2>2. CASE ~ TickRoom
      <3>1. room'.tick_id <= room.tick_id
        BY <1>1, <2>2, OtherStepsKeepPlayers
      <3>2. room.tick_id \in Nat /\ room'.tick_id \in Nat
        <4>1. Inv'
          BY <1>1, NextKeepsInv
        <4> QED BY <1>1, <4>1 DEF Inv, SoundRoom, RoomOK, IsRoom
      <3> QED BY <3>1, <3>2
    <2> QED BY <2>1, <2>2
  <1>2. Inv /\ [Next]_vars => [A]_vars
    BY <1>1
  <1> QED BY <1>2, Invariance, PTL DEF Spec, TickIsLocal

-----------------------------------------------------------------------------
(* The commands of players who left. *)

\* A command that names somebody who is not in the game changes nothing.
LEMMA AbsentCommand ==
    ASSUME NEW players, NEW command \in Command,
           \/ command.player \notin DOMAIN players
           \/ command.type = "attack" /\ command.target \notin DOMAIN players
    PROVE  ProcessCommand(players, command) = players
  BY DEF ProcessCommand, CanMove, CanAttack, Command

\* The two recursions compute the same.
LEMMA PresentSuffice ==
    ASSUME NEW players, GameOK(players), NEW commands \in Seq(Command), OnePerPlayer(commands),
           NEW present, DOMAIN players \subseteq present
    PROVE  ProcessBatch(players, commands) = ProcessPresent(players, commands, present)
  <1> DEFINE L == Len(commands)
             Names(command) == IF command.type = "move" THEN {command.player}
                               ELSE {command.player, command.target}
             Step(f) == [n \in 0 .. L |->
                           IF n = 0 THEN players
                           ELSE IF Names(commands[n]) \subseteq present
                                THEN ProcessCommand(f[n - 1], commands[n])
                                ELSE f[n - 1]]
             g == CHOOSE f : f = Step(f)
  <1>0. L \in Nat
    BY LenProperties
  <1>1. PICK after : BatchSettles(players, commands, after)
    BY <1>0, ProcessBatchSettles
  <1> DEFINE h == [n \in 0 .. L |-> after[n]]
  <1>2. ASSUME NEW n \in 1 .. L
        PROVE  /\ n - 1 \in 0 .. L
               /\ h[n] = ProcessCommand(h[n - 1], commands[n])
               /\ ~ (Names(commands[n]) \subseteq present) => h[n] = h[n - 1]
    <2>1. n \in 0 .. L /\ n - 1 \in 0 .. L
      BY <1>0
    <2>2. h[n] = after[n] /\ h[n - 1] = after[n - 1]
      BY <2>1
    <2>3. h[n] = ProcessCommand(h[n - 1], commands[n])
      BY <1>1, <2>2 DEF BatchSettles
    <2>4. DOMAIN h[n - 1] = DOMAIN players
      BY <1>1, <2>1, <2>2, PrefixEffect DEF BatchEffect
    <2>5. commands[n] \in Command
      BY LenProperties
    <2> HIDE DEF h
    <2>6. ~ (Names(commands[n]) \subseteq present) =>
            \/ commands[n].player \notin DOMAIN h[n - 1]
            \/ commands[n].type = "attack" /\ commands[n].target \notin DOMAIN h[n - 1]
      BY <2>4, <2>5 DEF Command
    <2> HIDE DEF Names
    <2> QED BY <2>1, <2>3, <2>5, <2>6, AbsentCommand
  <1>3. h[0] = players
    BY <1>0, <1>1 DEF BatchSettles
  <1>4. h = Step(h)
    <2>1. ASSUME NEW n \in 0 .. L PROVE h[n] = Step(h)[n]
      <3> HIDE DEF Names
      <3>1. Step(h)[n] = IF n = 0 THEN players
                         ELSE IF Names(commands[n]) \subseteq present
                              THEN ProcessCommand(h[n - 1], commands[n])
                              ELSE h[n - 1]
        OBVIOUS
      <3>2. n # 0 => n \in 1 .. L
        BY <1>0
      <3> HIDE DEF h, Step
      <3> QED BY <1>2, <1>3, <3>1, <3>2
    <2> QED BY <2>1
  <1>5. g = Step(g)
    <2> HIDE DEF Step
    <2> QED BY <1>4, Zenon
  <1>6. ProcessPresent(players, commands, present) = [id \in DOMAIN players |-> g[L][id]]
    BY DEF ProcessPresent
  <1>7. ProcessBatch(players, commands) = [id \in DOMAIN players |-> h[L][id]]
    BY <1>0, <1>1 DEF BatchSettles
  <1> HIDE DEF g, h
  <1>8. g[0] = players
    BY <1>0, <1>5
  <1>9. \A n \in 1 .. L : g[n] = IF Names(commands[n]) \subseteq present
                                 THEN ProcessCommand(g[n - 1], commands[n])
                                 ELSE g[n - 1]
    <2> HIDE DEF Names
    <2> QED BY <1>0, <1>5, SMTT(30)
  <1> HIDE DEF Names, Step, L
  <1> DEFINE S == {n \in Nat : n <= L => g[n] = h[n]}
  <1>10. 0 \in S
    BY <1>3, <1>8
  <1>11. ASSUME NEW n \in S PROVE n + 1 \in S
    <2>1. n \in Nat
      OBVIOUS
    <2>2. ASSUME n + 1 <= L PROVE g[n + 1] = h[n + 1]
      <3>1. n + 1 \in 1 .. L /\ (n + 1) - 1 = n /\ g[n] = h[n]
        BY <1>0, <2>1, <2>2
      <3>2. /\ h[n + 1] = ProcessCommand(h[n], commands[n + 1])
            /\ ~ (Names(commands[n + 1]) \subseteq present) => h[n + 1] = h[n]
        BY <1>2, <3>1
      <3>3. g[n + 1] = IF Names(commands[n + 1]) \subseteq present
                       THEN ProcessCommand(g[n], commands[n + 1])
                       ELSE g[n]
        BY <1>9, <3>1
      <3> QED BY <3>1, <3>2, <3>3
    <2> QED BY <2>1, <2>2
  <1>12. g[L] = h[L]
    <2> HIDE DEF S
    <2>1. S = Nat
      BY <1>10, <1>11, SetInduction DEF S
    <2> QED BY <1>0, <2>1 DEF S
  <1> QED BY <1>6, <1>7, <1>12

\* The queued commands of players who left, and attacks on them, have no effect.
THEOREM DepartedNeverMatter == Spec => []DepartedHaveNoEffect
  <1>1. Inv => DepartedHaveNoEffect
    <2> SUFFICES ASSUME Inv PROVE DepartedHaveNoEffect
      OBVIOUS
    <2>1. DOMAIN room.players \subseteq Members(room)
      BY DEF Inv, SoundRoom, RoomOK, GameMatches
    <2> QED BY <2>1, PresentSuffice
            DEF Inv, SoundRoom, PendingOK, Restorable, DepartedHaveNoEffect
  <1> QED BY <1>1, Invariance, PTL
=============================================================================
