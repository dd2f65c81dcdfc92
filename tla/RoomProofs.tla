----------------------------- MODULE RoomProofs -----------------------------
(***************************************************************************)
(* What each operation of Room does to the fields other parts of the       *)
(* server rely on, and that it preserves RoomOK: the room is well typed,   *)
(* the game holds exactly the members once it has started, and the next id *)
(* is fresh.  The second part is about the batch of a tick, whose commands *)
(* are settled one after the other by a recursive function; the third about*)
(* what a checkpoint needs to be accepted when it is restored.             *)
(***************************************************************************)
EXTENDS Room, SequenceTheorems, FiniteSetTheorems, TLAPS

GameMatches(room) ==
    DOMAIN room.players = IF room.state = "waiting" THEN {} ELSE Members(room)

NextIdIsFresh(room) ==
    room.next_player_id # 0 => \A id \in Members(room) : id < room.next_player_id

RoomOK(room) == IsRoom(room) /\ GameMatches(room) /\ NextIdIsFresh(room)

\* Room::Room: an empty waiting room.
LEMMA NewRoomOK ==
    ASSUME NEW capacity \in Nat
    PROVE  RoomOK(NewRoom(capacity)) /\ Members(NewRoom(capacity)) = {}
  BY RoomAssumption
     DEF RoomOK, IsRoom, GameMatches, NextIdIsFresh, NewRoom, NoPlayers, Members, States,
         PlayerIds

\* Room::join: the new member has an id no member has, and its connection; the
\* others keep theirs.
LEMMA AddMemberOK ==
    ASSUME NEW room, RoomOK(room), NEW c \in Conns,
           room.state = "waiting", room.next_player_id # 0
    PROVE  LET id == room.next_player_id
               n  == AddMember(room, c)
           IN  /\ RoomOK(n)
               /\ id \in PlayerIds
               /\ id \notin Members(room)
               /\ Members(n) = Members(room) \cup {id}
               /\ n.members[id] = c
               /\ \A i \in Members(room) : n.members[i] = room.members[i]
               /\ n.state = "waiting"
               /\ n.capacity = room.capacity
  <1> DEFINE id == room.next_player_id
             n  == AddMember(room, c)
  <1>1. id \in PlayerIds /\ id \notin Members(room)
    BY RoomAssumption DEF RoomOK, IsRoom, NextIdIsFresh, PlayerIds
  <1>2. /\ DOMAIN n = DOMAIN room
        /\ n.members = Put(room.members, id, c)
        /\ n.next_player_id = Increment(id)
        /\ n.state = room.state
        /\ n.capacity = room.capacity
        /\ n.tick_id = room.tick_id
        /\ n.players = room.players
    BY DEF RoomOK, IsRoom, AddMember
  <1>3. /\ Members(n) = Members(room) \cup {id}
        /\ n.members[id] = c
        /\ \A i \in Members(room) : n.members[i] = room.members[i]
    BY <1>1, <1>2 DEF Put, Members
  <1>4. IsRoom(n)
    BY <1>1, <1>2, <1>3, RoomAssumption DEF RoomOK, IsRoom, Increment, PlayerIds
  <1>5. GameMatches(n)
    BY <1>2 DEF RoomOK, GameMatches
  <1>6. NextIdIsFresh(n)
    BY <1>1, <1>2, <1>3, RoomAssumption
       DEF RoomOK, IsRoom, NextIdIsFresh, Increment, PlayerIds
  <1> QED BY <1>1, <1>2, <1>3, <1>4, <1>5, <1>6 DEF RoomOK

\* Room::leave, for any set of members: the others keep their connections.
LEMMA RemoveMembersOK ==
    ASSUME NEW room, RoomOK(room), NEW ids
    PROVE  LET n == RemoveMembers(room, ids)
           IN  /\ RoomOK(n)
               /\ Members(n) = Members(room) \ ids
               /\ \A i \in Members(n) : n.members[i] = room.members[i]
               /\ n.state = room.state
  <1> DEFINE n == RemoveMembers(room, ids)
  <1>1. /\ DOMAIN n = DOMAIN room
        /\ n.members = Drop(room.members, ids)
        /\ n.players = IF room.state = "waiting" THEN room.players
                       ELSE RemovePlayers(room.players, ids)
        /\ n.next_player_id = room.next_player_id
        /\ n.state = room.state
        /\ n.capacity = room.capacity
        /\ n.tick_id = room.tick_id
    BY DEF RoomOK, IsRoom, RemoveMembers
  <1>2. /\ Members(n) = Members(room) \ ids
        /\ \A i \in Members(n) : n.members[i] = room.members[i]
    BY <1>1 DEF Drop, Members
  <1>3. IsRoom(n)
    BY <1>1, <1>2 DEF RoomOK, IsRoom
  <1>4. GameMatches(n)
    BY <1>1, <1>2 DEF RoomOK, GameMatches, RemovePlayers
  <1>5. NextIdIsFresh(n)
    BY <1>1, <1>2 DEF RoomOK, NextIdIsFresh
  <1> QED BY <1>1, <1>2, <1>3, <1>4, <1>5 DEF RoomOK

\* Room::start gives every member a place in the game.
LEMMA StartOK ==
    ASSUME NEW room, RoomOK(room)
    PROVE  RoomOK(Start(room)) /\ Start(room).members = room.members
  <1> DEFINE n == Start(room)
  <1>1. /\ DOMAIN n = DOMAIN room
        /\ n.members = room.members
        /\ n.players = InitialPlayers(Members(room))
        /\ n.next_player_id = room.next_player_id
        /\ n.state = "running"
        /\ n.capacity = room.capacity
        /\ n.tick_id = 0
    BY DEF RoomOK, IsRoom, Start
  <1>2. IsRoom(n)
    BY <1>1 DEF RoomOK, IsRoom, Members, States
  <1>3. GameMatches(n)
    BY <1>1 DEF GameMatches, InitialPlayers, Members
  <1>4. NextIdIsFresh(n)
    BY <1>1 DEF RoomOK, NextIdIsFresh, Members
  <1> QED BY <1>1, <1>2, <1>3, <1>4 DEF RoomOK

\* submit_move and submit_attack only queue a command.
LEMMA SubmitOK ==
    ASSUME NEW room, RoomOK(room), NEW command
    PROVE  RoomOK(Submit(room, command)) /\ Submit(room, command).members = room.members
  BY DEF RoomOK, IsRoom, GameMatches, NextIdIsFresh, Submit, Members

\* Room::tick keeps the members and the players of the game.
LEMMA TickOK ==
    ASSUME NEW room, RoomOK(room)
    PROVE  RoomOK(Tick(room)) /\ Tick(room).members = room.members
  <1> DEFINE n == Tick(room)
  <1>1. /\ DOMAIN n = DOMAIN room
        /\ n.members = room.members
        /\ n.players = ProcessBatch(room.players, room.pending)
        /\ n.next_player_id = room.next_player_id
        /\ n.state = room.state
        /\ n.capacity = room.capacity
        /\ n.tick_id = room.tick_id + 1
    BY DEF RoomOK, IsRoom, Tick
  <1>2. DOMAIN n.players = DOMAIN room.players
    BY <1>1 DEF ProcessBatch
  <1>3. IsRoom(n)
    BY <1>1 DEF RoomOK, IsRoom, Members
  <1> QED BY <1>1, <1>2, <1>3 DEF RoomOK, GameMatches, NextIdIsFresh, Members

\* Room::bind_connection changes the connection of one member only.
LEMMA BindOK ==
    ASSUME NEW room, RoomOK(room), NEW id \in Members(room), NEW c \in Conns
    PROVE  LET n == Bind(room, id, c)
           IN  /\ RoomOK(n)
               /\ Members(n) = Members(room)
               /\ n.members = [room.members EXCEPT ![id] = c]
  BY DEF RoomOK, IsRoom, GameMatches, NextIdIsFresh, Bind, Members

\* Room::detach_connection clears the connection of one member only.
LEMMA DetachOK ==
    ASSUME NEW room, RoomOK(room), NEW id \in Members(room)
    PROVE  LET n == Detach(room, id)
           IN  /\ RoomOK(n)
               /\ Members(n) = Members(room)
               /\ n.members = [room.members EXCEPT ![id] = NoConn]
  BY DEF RoomOK, IsRoom, GameMatches, NextIdIsFresh, Detach, Members

\* The weak pointers to a connection that is gone expire.
LEMMA ExpireOK ==
    ASSUME NEW room, RoomOK(room), NEW c
    PROVE  LET n == Expire(room, c)
           IN  /\ RoomOK(n)
               /\ Members(n) = Members(room)
               /\ \A id \in Members(room) :
                    n.members[id] = IF room.members[id] = c THEN NoConn ELSE room.members[id]
  BY DEF RoomOK, IsRoom, GameMatches, NextIdIsFresh, Expire, Members

\* A room restored from a checkpoint that passed the checks is a good room
\* whose members have no connection.
LEMMA RestoredRoomOK ==
    ASSUME NEW cp, NEW capacity,
           cp.capacity \in Nat, cp.next_player_id \in 0 .. MaxPlayerId,
           cp.state \in States, cp.tick_id \in Nat, cp.members \subseteq PlayerIds,
           CanRestoreRoom(cp, capacity)
    PROVE  LET n == RestoredRoom(cp)
           IN  /\ RoomOK(n)
               /\ Members(n) = cp.members
               /\ \A id \in Members(n) : n.members[id] = NoConn
  BY DEF RoomOK, IsRoom, GameMatches, NextIdIsFresh, RestoredRoom, CanRestoreRoom, Members

-----------------------------------------------------------------------------
(* Induction over the natural numbers, from the well-foundedness of <. *)

\* A set of numbers that is not empty has a least element.
LEMMA LeastNumber ==
    ASSUME NEW T, T \subseteq Nat, T # {}
    PROVE  \E x \in T : \A y \in T : x <= y
  <1>1. PICK x \in T : \A y \in T : ~ (<<y, x>> \in OpToRel(<, Nat))
    BY NatLessThanWellFounded, WFMin
  <1>2. \A y \in T : ~ (y < x)
    BY <1>1 DEF OpToRel
  <1>3. ASSUME NEW y \in T PROVE x <= y
    <2>1. x \in Nat /\ y \in Nat /\ ~ (y < x)
      BY <1>2
    <2> QED BY <2>1
  <1> QED BY <1>3

\* A set that holds 0 and the successors of its elements holds every number.
LEMMA SetInduction ==
    ASSUME NEW S, S \subseteq Nat, 0 \in S, \A n \in S : n + 1 \in S
    PROVE  S = Nat
  <1> SUFFICES ASSUME Nat \ S # {} PROVE FALSE
    OBVIOUS
  <1>1. PICK x \in Nat \ S : \A y \in Nat \ S : x <= y
    BY LeastNumber
  <1>2. x # 0 /\ x - 1 \in Nat /\ x - 1 \in S
    BY <1>1
  <1> QED BY <1>1, <1>2

-----------------------------------------------------------------------------
(* The batch of a tick. *)

\* after holds the players before the first command and after each of the
\* first k commands.
Settles(players, commands, k, after) ==
    after = [n \in 0 .. k |-> IF n = 0 THEN players
                              ELSE ProcessCommand(after[n - 1], commands[n])]

\* Every batch can be settled, command by command.
LEMMA SettlesExists ==
    ASSUME NEW players, NEW commands
    PROVE  \A k \in Nat : \E after : Settles(players, commands, k, after)
  <1> DEFINE S == {k \in Nat : \E after : Settles(players, commands, k, after)}
  <1>1. 0 \in S
    <2>1. Settles(players, commands, 0, [n \in 0 .. 0 |-> players])
      BY DEF Settles
    <2> QED BY <2>1
  <1>2. ASSUME NEW k \in S PROVE k + 1 \in S
    <2>1. k \in Nat
      OBVIOUS
    <2>2. PICK f : Settles(players, commands, k, f)
      OBVIOUS
    <2> DEFINE last == ProcessCommand(f[k], commands[k + 1])
               g    == [n \in 0 .. k + 1 |-> IF n = k + 1 THEN last ELSE f[n]]
               h    == [n \in 0 .. k + 1 |-> IF n = 0 THEN players
                                             ELSE ProcessCommand(g[n - 1], commands[n])]
    <2>3. \A n \in 0 .. k : f[n] = IF n = 0 THEN players
                                   ELSE ProcessCommand(f[n - 1], commands[n])
      BY <2>2 DEF Settles
    <2>4. ASSUME NEW n \in 0 .. k + 1 PROVE g[n] = h[n]
      <3>1. h[n] = IF n = 0 THEN players ELSE ProcessCommand(g[n - 1], commands[n])
        OBVIOUS
      <3>2. CASE n = k + 1
        <4>1. n - 1 = k /\ k \in 0 .. k + 1 /\ k # k + 1 /\ n # 0
          BY <2>1, <3>2
        <4>2. g[k] = f[k] /\ g[n] = last
          BY <4>1, <3>2
        <4> HIDE DEF g, h
        <4> QED BY <4>1, <4>2, <3>1, <3>2
      <3>3. CASE n # k + 1
        <4>1. n \in 0 .. k /\ (n # 0 => n - 1 \in 0 .. k + 1 /\ n - 1 # k + 1)
          BY <2>1, <3>3
        <4>2. g[n] = f[n] /\ (n # 0 => g[n - 1] = f[n - 1])
          BY <4>1, <3>3
        <4> HIDE DEF g, h
        <4> QED BY <4>1, <4>2, <2>3, <3>1
      <3> QED BY <3>2, <3>3
    <2>5. g = h
      BY <2>4
    <2>6. Settles(players, commands, k + 1, g)
      BY <2>5 DEF Settles
    <2> QED BY <2>1, <2>6
  <1> HIDE DEF S
  <1>3. S = Nat
    BY <1>1, <1>2, SetInduction DEF S
  <1> QED BY <1>3 DEF S

\* after holds the players before and after each command of the batch, and the
\* last of them is what ProcessBatch computes.
BatchSettles(players, commands, after) ==
    /\ after[0] = players
    /\ \A n \in 1 .. Len(commands) : after[n] = ProcessCommand(after[n - 1], commands[n])
    /\ ProcessBatch(players, commands) = [id \in DOMAIN players |-> after[Len(commands)][id]]

\* The recursion of ProcessBatch is well defined.
LEMMA ProcessBatchSettles ==
    ASSUME NEW players, NEW commands, Len(commands) \in Nat
    PROVE  \E after : BatchSettles(players, commands, after)
  <1> DEFINE Step(f) == [n \in 0 .. Len(commands) |->
                           IF n = 0 THEN players ELSE ProcessCommand(f[n - 1], commands[n])]
             f == CHOOSE g : g = Step(g)
  <1>1. \E g : g = Step(g)
    <2>1. PICK g : Settles(players, commands, Len(commands), g)
      BY SettlesExists
    <2>2. g = Step(g)
      BY <2>1 DEF Settles
    <2> QED BY <2>2
  <1>2. f = Step(f)
    <2> HIDE DEF Step
    <2> QED BY <1>1, Zenon
  <1>3. ProcessBatch(players, commands) = [id \in DOMAIN players |-> f[Len(commands)][id]]
    BY DEF ProcessBatch
  <1> HIDE DEF f
  <1>4. f[0] = players
    BY <1>2
  <1>5. \A n \in 1 .. Len(commands) : f[n] = ProcessCommand(f[n - 1], commands[n])
    BY <1>2
  <1> QED BY <1>3, <1>4, <1>5 DEF BatchSettles

-----------------------------------------------------------------------------
(* The game. *)

\* Hit points are lost AttackDamage at a time.
Whole(hp) == \E k \in Nat : hp = k * AttackDamage

\* The values in the game of a room.
GameOK(players) ==
    \A id \in DOMAIN players :
        /\ id \in PlayerIds
        /\ players[id] \in PlayerGameState
        /\ Whole(players[id].hp)

Command ==
    [type : {"move"}, player : PlayerIds, dx : Int, dy : Int]
      \cup [type : {"attack"}, player : PlayerIds, target : Nat]

\* A command that can change a player: its own move, or the attack on it by
\* another player of the game who is alive.
Hits(players, command, id) ==
    /\ command.type = "attack"
    /\ command.target = id
    /\ command.player \in DOMAIN players \ {id}
    /\ players[command.player].hp > 0

Walks(command, id) == command.type = "move" /\ command.player = id

SamePlace(a, b) == a.x = b.x /\ a.y = b.y

\* A hit takes a whole AttackDamage: hp never becomes negative.
LEMMA HitOK ==
    ASSUME NEW hp \in 0 .. InitialHp, Whole(hp), hp > 0
    PROVE  hp - AttackDamage \in 0 .. InitialHp /\ Whole(hp - AttackDamage)
  <1>1. PICK k \in Nat : hp = k * AttackDamage
    BY DEF Whole
  <1>2. InitialHp \in Nat /\ AttackDamage \in Nat /\ AttackDamage > 0
    BY GamestateAssumption
  <1>3. k # 0
    BY <1>1, <1>2
  <1>4. k - 1 \in Nat /\ hp - AttackDamage = (k - 1) * AttackDamage
    BY <1>1, <1>2, <1>3
  <1>5. (k - 1) * AttackDamage >= 0
    BY <1>2, <1>4
  <1>6. hp - AttackDamage \in 0 .. InitialHp
    BY <1>2, <1>4, <1>5
  <1> QED BY <1>4, <1>6 DEF Whole

\* A game starts with whole hit points.
LEMMA InitialHpWhole == Whole(InitialHp)
  BY GamestateAssumption DEF Whole

\* What one command does (move_player, attack_player): nobody is added or
\* removed, only the mover moves, by one square, and only the target is hit.
CommandEffect(players, command, after) ==
    /\ DOMAIN after = DOMAIN players
    /\ GameOK(after)
    /\ \A id \in DOMAIN players :
         /\ after[id].hp <= players[id].hp
         /\ SamePlace(players[id], after[id]) \/ Walks(command, id)
         /\ Distance(players[id], after[id]) <= 1
         /\ \/ after[id].hp = players[id].hp
            \/ /\ Hits(players, command, id)
               /\ after[id].hp = players[id].hp - AttackDamage

\* process_command has this effect on every game.
LEMMA ProcessCommandOK ==
    ASSUME NEW players, GameOK(players), NEW command \in Command
    PROVE  CommandEffect(players, command, ProcessCommand(players, command))
  <1> DEFINE after == ProcessCommand(players, command)
  <1> SUFFICES CommandEffect(players, command, after)
    OBVIOUS
  <1>0. \A id \in DOMAIN players : /\ players[id] \in PlayerGameState
                                   /\ players[id].x \in Int
                                   /\ players[id].y \in Int
                                   /\ players[id].hp \in Int
                                   /\ players[id].hp \in 0 .. InitialHp
    BY DEF GameOK, PlayerGameState, Positions
  <1>1. CASE after = players
    BY <1>0, <1>1 DEF CommandEffect, SamePlace, Distance, Abs
  <1>2. CASE /\ command.type = "move"
             /\ CanMove(players, command.player, command.dx, command.dy)
             /\ after = MovePlayer(players, command.player, command.dx, command.dy)
    <2> DEFINE me  == command.player
               was == players[me]
               is  == [was EXCEPT !.x = was.x + command.dx, !.y = was.y + command.dy]
    <2>1. /\ me \in DOMAIN players
          /\ <<command.dx, command.dy>> \in UnitSteps
          /\ was.x + command.dx \in Positions
          /\ was.y + command.dy \in Positions
      BY <1>2 DEF CanMove
    <2>2. was \in PlayerGameState /\ Whole(was.hp)
      BY <2>1 DEF GameOK
    <2>3. /\ is \in PlayerGameState
          /\ is.hp = was.hp
          /\ is.x = was.x + command.dx
          /\ is.y = was.y + command.dy
      BY <2>1, <2>2 DEF PlayerGameState
    <2>4. /\ DOMAIN after = DOMAIN players
          /\ after[me] = is
          /\ \A id \in DOMAIN players : id # me => after[id] = players[id]
      BY <1>2, <2>1, <2>2 DEF MovePlayer, PlayerGameState
    <2> HIDE DEF is, after
    <2>5. Distance(was, is) <= 1
      <3>1. \/ command.dx = 1 /\ command.dy = 0
            \/ command.dx = -1 /\ command.dy = 0
            \/ command.dx = 0 /\ command.dy = 1
            \/ command.dx = 0 /\ command.dy = -1
        BY <2>1 DEF UnitSteps
      <3> QED BY <1>0, <2>1, <2>3, <3>1 DEF Distance, Abs
    <2>6. GameOK(after)
      BY <2>1, <2>2, <2>3, <2>4 DEF GameOK
    <2>7. ASSUME NEW id \in DOMAIN players
          PROVE  /\ after[id].hp <= players[id].hp
                 /\ SamePlace(players[id], after[id]) \/ Walks(command, id)
                 /\ Distance(players[id], after[id]) <= 1
                 /\ after[id].hp = players[id].hp
      <3>1. CASE id = me
        <4>1. after[id] = is /\ players[id] = was
          BY <3>1, <2>4
        <4>2. is.hp <= was.hp /\ Walks(command, id)
          BY <3>1, <1>0, <1>2, <2>3 DEF Walks
        <4> HIDE DEF was
        <4> QED BY <4>1, <4>2, <2>3, <2>5
      <3>2. CASE id # me
        BY <3>2, <1>0, <2>4 DEF SamePlace, Distance, Abs
      <3> QED BY <3>1, <3>2
    <2> QED BY <2>4, <2>6, <2>7 DEF CommandEffect
  <1>3. CASE /\ command.type = "attack"
             /\ CanAttack(players, command.player, command.target)
             /\ after = AttackPlayer(players, command.target)
    <2> DEFINE target == command.target
               was    == players[target]
               is     == [was EXCEPT !.hp = was.hp - AttackDamage]
    <2>1. /\ target \in DOMAIN players
          /\ Hits(players, command, target)
          /\ was.hp > 0
      BY <1>3 DEF CanAttack, Hits
    <2>2. was \in PlayerGameState /\ Whole(was.hp)
      BY <2>1 DEF GameOK
    <2>3. was.hp - AttackDamage \in 0 .. InitialHp /\ Whole(was.hp - AttackDamage)
      BY <2>1, <2>2, <1>0, HitOK
    <2>4. /\ is \in PlayerGameState
          /\ is.hp = was.hp - AttackDamage
          /\ is.x = was.x
          /\ is.y = was.y
      BY <2>2, <2>3 DEF PlayerGameState
    <2>5. /\ DOMAIN after = DOMAIN players
          /\ after[target] = is
          /\ \A id \in DOMAIN players : id # target => after[id] = players[id]
      BY <1>3, <2>1, <2>2 DEF AttackPlayer
    <2> HIDE DEF is, after
    <2>6. GameOK(after)
      BY <2>1, <2>2, <2>3, <2>4, <2>5 DEF GameOK
    <2>7. ASSUME NEW id \in DOMAIN players
          PROVE  /\ after[id].hp <= players[id].hp
                 /\ SamePlace(players[id], after[id])
                 /\ Distance(players[id], after[id]) <= 1
                 /\ \/ after[id].hp = players[id].hp
                    \/ /\ Hits(players, command, id)
                       /\ after[id].hp = players[id].hp - AttackDamage
      <3>1. CASE id = target
        <4>1. after[id] = is /\ players[id] = was
          BY <3>1, <2>5
        <4>2. is.hp <= was.hp
          BY <1>0, <2>1, <2>4, GamestateAssumption
        <4>3. SamePlace(was, is) /\ Distance(was, is) <= 1
          BY <1>0, <2>1, <2>4 DEF SamePlace, Distance, Abs
        <4> HIDE DEF was
        <4> QED BY <3>1, <4>1, <4>2, <4>3, <2>1, <2>4
      <3>2. CASE id # target
        BY <3>2, <1>0, <2>5 DEF SamePlace, Distance, Abs
      <3> QED BY <3>1, <3>2
    <2> QED BY <2>5, <2>6, <2>7 DEF CommandEffect
  <1>4. command.type \in {"move", "attack"}
    BY DEF Command
  <1> QED BY <1>1, <1>2, <1>3, <1>4 DEF ProcessCommand

\* At most one command of each player is in the batch.
OnePerPlayer(commands) ==
    \A i, j \in 1 .. Len(commands) : commands[i].player = commands[j].player => i = j

\* What the first n commands of a batch may have done to the players.
BatchEffect(players, commands, n, after) ==
    /\ DOMAIN after = DOMAIN players
    /\ GameOK(after)
    /\ \A id \in DOMAIN players :
         /\ after[id].hp <= players[id].hp
         /\ \/ SamePlace(players[id], after[id])
            \/ \E i \in 1 .. n : Walks(commands[i], id)
         /\ Distance(players[id], after[id]) <= 1
         /\ players[id].hp - after[id].hp
              <= AttackDamage * Cardinality({i \in 1 .. n : Hits(players, commands[i], id)})

\* One more command: the mover had not moved before, the attacker was alive
\* when the tick began.
LEMMA BatchEffectStep ==
    ASSUME NEW players, GameOK(players), NEW commands \in Seq(Command), OnePerPlayer(commands),
           NEW n \in Nat, n + 1 <= Len(commands),
           NEW q, BatchEffect(players, commands, n, q),
           NEW r, CommandEffect(q, commands[n + 1], r)
    PROVE  BatchEffect(players, commands, n + 1, r)
  <1> DEFINE command == commands[n + 1]
             hits(id, k) == {i \in 1 .. k : Hits(players, commands[i], id)}
  <1>1. command \in Command /\ n + 1 \in 1 .. Len(commands)
    BY LenProperties
  <1>2. DOMAIN r = DOMAIN players /\ GameOK(r)
    BY DEF BatchEffect, CommandEffect
  <1>3. ASSUME NEW id \in DOMAIN players
        PROVE  /\ r[id].hp <= players[id].hp
               /\ \/ SamePlace(players[id], r[id])
                  \/ \E i \in 1 .. n + 1 : Walks(commands[i], id)
               /\ Distance(players[id], r[id]) <= 1
               /\ players[id].hp - r[id].hp <= AttackDamage * Cardinality(hits(id, n + 1))
    <2>1. /\ id \in DOMAIN q
          /\ \A p \in {players[id], q[id], r[id]} : p.hp \in Int /\ p.x \in Int /\ p.y \in Int
      BY <1>2 DEF BatchEffect, GameOK, PlayerGameState, Positions
    <2>2. /\ q[id].hp <= players[id].hp
          /\ SamePlace(players[id], q[id]) \/ \E i \in 1 .. n : Walks(commands[i], id)
          /\ Distance(players[id], q[id]) <= 1
          /\ players[id].hp - q[id].hp <= AttackDamage * Cardinality(hits(id, n))
      BY DEF BatchEffect
    <2>3. /\ r[id].hp <= q[id].hp
          /\ SamePlace(q[id], r[id]) \/ Walks(command, id)
          /\ Distance(q[id], r[id]) <= 1
          /\ r[id].hp = q[id].hp \/ (Hits(q, command, id) /\ r[id].hp = q[id].hp - AttackDamage)
      BY <2>1 DEF CommandEffect
    <2>4. r[id].hp <= players[id].hp
      BY <2>1, <2>2, <2>3
    <2>5. ASSUME Walks(command, id) PROVE Distance(players[id], r[id]) <= 1
      <3>1. \A i \in 1 .. n : ~ Walks(commands[i], id)
        BY <1>1, <2>5 DEF OnePerPlayer, Walks
      <3>2. SamePlace(players[id], q[id])
        BY <2>2, <3>1
      <3> QED BY <2>3, <3>2 DEF SamePlace, Distance
    <2>6. ASSUME SamePlace(q[id], r[id])
          PROVE  /\ Distance(players[id], r[id]) <= 1
                 /\ \/ SamePlace(players[id], r[id])
                    \/ \E i \in 1 .. n + 1 : Walks(commands[i], id)
      <3>1. Distance(players[id], r[id]) <= 1
        BY <2>2, <2>6 DEF SamePlace, Distance
      <3>2. SamePlace(players[id], q[id]) => SamePlace(players[id], r[id])
        BY <2>6 DEF SamePlace
      <3> QED BY <2>2, <3>1, <3>2
    <2>7. players[id].hp - r[id].hp <= AttackDamage * Cardinality(hits(id, n + 1))
      <3>1. /\ IsFiniteSet(hits(id, n))
            /\ Cardinality(hits(id, n)) \in Nat
            /\ n + 1 \notin hits(id, n)
        <4>1. IsFiniteSet(1 .. n)
          BY FS_Interval
        <4>2. hits(id, n) \in SUBSET (1 .. n)
          OBVIOUS
        <4>3. n + 1 \notin hits(id, n)
          OBVIOUS
        <4> HIDE DEF hits
        <4> QED BY <4>1, <4>2, <4>3, FS_Subset, FS_CardinalityType
      <3>2. AttackDamage \in Nat
        BY GamestateAssumption
      <3>3. CASE Hits(players, command, id)
        <4>1. hits(id, n + 1) = hits(id, n) \cup {n + 1}
          BY <3>3
        <4> HIDE DEF hits
        <4>2. Cardinality(hits(id, n + 1)) = Cardinality(hits(id, n)) + 1
          BY <3>1, <4>1, FS_AddElement
        <4> DEFINE k == Cardinality(hits(id, n))
        <4>3. AttackDamage * (k + 1) = AttackDamage * k + AttackDamage
          BY <3>1, <3>2
        <4>4. players[id].hp - r[id].hp <= AttackDamage * k + AttackDamage
          <5>1. AttackDamage * k \in Int
            BY <3>1, <3>2
          <5> HIDE DEF k
          <5> QED BY <2>1, <2>2, <2>3, <3>2, <5>1, SMTT(30) DEF k
        <4> QED BY <4>2, <4>3, <4>4
      <3>4. CASE ~ Hits(players, command, id)
        <4>1. hits(id, n + 1) = hits(id, n)
          BY <3>4
        <4>2. ~ Hits(q, command, id)
          <5>1. ASSUME Hits(q, command, id) PROVE FALSE
            <6>1. command.player \in DOMAIN players /\ q[command.player].hp > 0
              BY <5>1 DEF Hits, BatchEffect
            <6>2. /\ q[command.player].hp <= players[command.player].hp
                  /\ q[command.player].hp \in Int
                  /\ players[command.player].hp \in Int
              <7>1. q[command.player].hp <= players[command.player].hp
                BY <6>1 DEF BatchEffect
              <7>2. /\ q[command.player] \in PlayerGameState
                    /\ players[command.player] \in PlayerGameState
                BY <6>1 DEF BatchEffect, GameOK
              <7> QED BY <7>1, <7>2 DEF PlayerGameState
            <6>3. players[command.player].hp > 0
              BY <6>1, <6>2
            <6> QED BY <3>4, <5>1, <6>3 DEF Hits, BatchEffect
          <5> QED BY <5>1
        <4> QED BY <2>2, <2>3, <4>1, <4>2
      <3> QED BY <3>3, <3>4
    <2> QED BY <2>3, <2>4, <2>5, <2>6, <2>7
  <1> QED BY <1>2, <1>3 DEF BatchEffect

\* What each prefix of the batch does to the players.
LEMMA PrefixEffect ==
    ASSUME NEW players, GameOK(players), NEW commands \in Seq(Command), OnePerPlayer(commands),
           NEW after, BatchSettles(players, commands, after)
    PROVE  \A n \in 0 .. Len(commands) : BatchEffect(players, commands, n, after[n])
  <1>0. Len(commands) \in Nat
    BY LenProperties
  <1> DEFINE S == {n \in Nat : n <= Len(commands) => BatchEffect(players, commands, n, after[n])}
  <1>2. 0 \in S
    <2>1. \A id \in DOMAIN players :
            players[id].hp \in Int /\ players[id].x \in Int /\ players[id].y \in Int
      BY DEF GameOK, PlayerGameState, Positions
    <2>2. {i \in 1 .. 0 : FALSE} = {} /\ \A id : {i \in 1 .. 0 : Hits(players, commands[i], id)} = {}
      OBVIOUS
    <2>3. AttackDamage * 0 = 0
      BY GamestateAssumption
    <2>4. \A id \in DOMAIN players :
            AttackDamage * Cardinality({i \in 1 .. 0 : Hits(players, commands[i], id)}) = 0
      BY <2>2, <2>3, FS_EmptySet
    <2>5. BatchEffect(players, commands, 0, players)
      BY <2>1, <2>4 DEF BatchEffect, SamePlace, Distance, Abs
    <2> QED BY <2>5 DEF BatchSettles
  <1>3. ASSUME NEW n \in S PROVE n + 1 \in S
    <2> SUFFICES ASSUME n + 1 <= Len(commands)
                 PROVE  BatchEffect(players, commands, n + 1, after[n + 1])
      OBVIOUS
    <2>1. n \in Nat /\ n + 1 \in 1 .. Len(commands) /\ (n + 1) - 1 = n
      BY <1>0
    <2>2. BatchEffect(players, commands, n, after[n])
      BY <1>0, <2>1
    <2>3. after[n + 1] = ProcessCommand(after[n], commands[n + 1])
      BY <2>1 DEF BatchSettles
    <2>4. commands[n + 1] \in Command
      BY <2>1, LenProperties
    <2>5. CommandEffect(after[n], commands[n + 1], after[n + 1])
      BY <2>2, <2>3, <2>4, ProcessCommandOK DEF BatchEffect
    <2> QED BY <2>1, <2>2, <2>5, BatchEffectStep
  <1> HIDE DEF S
  <1>4. S = Nat
    BY <1>2, <1>3, SetInduction DEF S
  <1> QED BY <1>0, <1>4 DEF S

\* What the tick does to the players, whatever the batch.
LEMMA ProcessBatchOK ==
    ASSUME NEW players, GameOK(players), NEW commands \in Seq(Command), OnePerPlayer(commands)
    PROVE  BatchEffect(players, commands, Len(commands), ProcessBatch(players, commands))
  <1>0. Len(commands) \in Nat
    BY LenProperties
  <1>1. PICK after : BatchSettles(players, commands, after)
    BY <1>0, ProcessBatchSettles
  <1>4. BatchEffect(players, commands, Len(commands), after[Len(commands)])
    BY <1>0, <1>1, PrefixEffect
  <1> DEFINE last   == after[Len(commands)]
             result == ProcessBatch(players, commands)
  <1>5. DOMAIN result = DOMAIN players /\ \A id \in DOMAIN players : result[id] = last[id]
    BY <1>1 DEF BatchSettles
  <1> HIDE DEF last, result
  <1>6. BatchEffect(players, commands, Len(commands), result)
    BY <1>4, <1>5 DEF BatchEffect, GameOK, last
  <1> QED BY <1>6 DEF result

-----------------------------------------------------------------------------
(* What makes the checkpoint of a room acceptable. *)

\* The queued commands.
PendingOK(room) == room.pending \in Seq(Command) /\ OnePerPlayer(room.pending)

\* What restore_checkpoint demands beyond RoomOK, and GameOK for the commands
\* still to come.
Restorable(room) ==
    /\ MemberCount(room) <= room.capacity
    /\ room.state = "waiting" => room.tick_id = 0
    /\ Cardinality(DOMAIN room.players) <= MaxPlayers
    /\ GameOK(room.players)

SoundRoom(room) == RoomOK(room) /\ PendingOK(room) /\ Restorable(room)

\* A room has finitely many members.
LEMMA MembersFinite ==
    ASSUME NEW room, RoomOK(room)
    PROVE  IsFiniteSet(Members(room)) /\ Cardinality(Members(room)) \in Nat
  <1>1. IsFiniteSet(PlayerIds)
    BY RoomAssumption, FS_Interval DEF PlayerIds
  <1>2. Members(room) \in SUBSET PlayerIds
    BY DEF RoomOK, IsRoom
  <1> QED BY <1>1, <1>2, FS_Subset, FS_CardinalityType

\* make_checkpoint of a sound room passes every check of restore_checkpoint.
LEMMA SoundIsRestorable ==
    ASSUME NEW room, SoundRoom(room)
    PROVE  /\ CanRestoreRoom(MakeRoomCheckpoint(room), room.capacity)
           /\ GameOK(MakeRoomCheckpoint(room).game_states)
  <1> DEFINE cp == MakeRoomCheckpoint(room)
  <1>1. /\ cp.capacity = room.capacity
        /\ cp.next_player_id = room.next_player_id
        /\ cp.state = room.state
        /\ cp.tick_id = room.tick_id
        /\ cp.members = Members(room)
        /\ cp.game_states = room.players
    BY DEF MakeRoomCheckpoint
  <1> HIDE DEF cp
  <1>2. Cardinality(cp.members) <= room.capacity
    BY <1>1 DEF SoundRoom, Restorable, MemberCount
  <1>3. /\ 0 \notin cp.members
        /\ cp.next_player_id # 0 => \A id \in cp.members : cp.next_player_id > id
    BY <1>1 DEF SoundRoom, RoomOK, IsRoom, NextIdIsFresh, PlayerIds
  <1>4. IF cp.state = "waiting"
        THEN cp.tick_id = 0 /\ DOMAIN cp.game_states = {}
        ELSE DOMAIN cp.game_states = cp.members
    BY <1>1 DEF SoundRoom, RoomOK, GameMatches, Restorable
  <1>5. CanRestoreGame(cp.game_states)
    BY <1>1 DEF SoundRoom, Restorable, GameOK, CanRestoreGame, PlayerIds
  <1>6. CanRestoreRoom(cp, room.capacity) /\ GameOK(cp.game_states)
    BY <1>1, <1>2, <1>3, <1>4, <1>5 DEF CanRestoreRoom, SoundRoom, Restorable
  <1> QED BY <1>6 DEF cp

\* A room that was restored is sound, if its game is one the room could have.
LEMMA RestoredRoomSound ==
    ASSUME NEW cp, NEW capacity,
           cp.capacity \in Nat, cp.next_player_id \in 0 .. MaxPlayerId,
           cp.state \in States, cp.tick_id \in Nat, cp.members \subseteq PlayerIds,
           CanRestoreRoom(cp, capacity), GameOK(cp.game_states)
    PROVE  SoundRoom(RestoredRoom(cp)) /\ RestoredRoom(cp).capacity = capacity
  <1> DEFINE n == RestoredRoom(cp)
  <1>1. RoomOK(n) /\ Members(n) = cp.members
    BY RestoredRoomOK
  <1>2. /\ n.capacity = cp.capacity
        /\ n.state = cp.state
        /\ n.tick_id = cp.tick_id
        /\ n.players = cp.game_states
        /\ n.pending = <<>>
    BY DEF RestoredRoom
  <1> HIDE DEF n
  <1>3. PendingOK(n)
    BY <1>2 DEF PendingOK, OnePerPlayer
  <1>4. Restorable(n) /\ n.capacity = capacity
    BY <1>1, <1>2 DEF Restorable, MemberCount, CanRestoreRoom, CanRestoreGame
  <1> QED BY <1>1, <1>3, <1>4 DEF SoundRoom, n

\* Room::Room.
LEMMA NewRoomSound ==
    ASSUME NEW capacity \in Nat
    PROVE  SoundRoom(NewRoom(capacity)) /\ NewRoom(capacity).capacity = capacity
  <1> DEFINE n == NewRoom(capacity)
  <1>1. RoomOK(n) /\ Members(n) = {}
    BY NewRoomOK
  <1>2. /\ n.capacity = capacity
        /\ n.tick_id = 0
        /\ DOMAIN n.players = {}
        /\ n.pending = <<>>
    BY DEF NewRoom, NoPlayers
  <1> HIDE DEF n
  <1>3. PendingOK(n)
    BY <1>2 DEF PendingOK, OnePerPlayer
  <1>4. Restorable(n)
    BY <1>1, <1>2, FS_EmptySet, GamestateAssumption DEF Restorable, MemberCount, GameOK
  <1> QED BY <1>1, <1>2, <1>3, <1>4 DEF SoundRoom, n

\* A step that leaves the game, the queue and the number of members alone.
LEMMA SameGameSound ==
    ASSUME NEW room, SoundRoom(room), NEW n, RoomOK(n),
           Members(n) = Members(room), n.capacity = room.capacity, n.state = room.state,
           n.tick_id = room.tick_id, n.players = room.players, n.pending = room.pending
    PROVE  SoundRoom(n)
  BY DEF SoundRoom, PendingOK, Restorable, MemberCount

\* Room::join, when it succeeds.
LEMMA AddMemberSound ==
    ASSUME NEW room, SoundRoom(room), NEW c \in Conns, NEW name_ok \in BOOLEAN,
           JoinState(room, name_ok) = "success"
    PROVE  SoundRoom(AddMember(room, c)) /\ AddMember(room, c).capacity = room.capacity
  <1> DEFINE n  == AddMember(room, c)
             id == room.next_player_id
  <1>1. /\ room.state = "waiting"
        /\ id # 0
        /\ ~ (Cardinality(Members(room)) >= room.capacity)
        /\ RoomOK(room)
    BY DEF JoinState, MemberCount, SoundRoom
  <1>2. /\ RoomOK(n)
        /\ id \notin Members(room)
        /\ Members(n) = Members(room) \cup {id}
        /\ n.capacity = room.capacity
        /\ n.state = "waiting"
    BY <1>1, AddMemberOK
  <1>3. /\ n.tick_id = room.tick_id
        /\ n.players = room.players
        /\ n.pending = room.pending
    BY <1>1 DEF RoomOK, IsRoom, AddMember
  <1> HIDE DEF n
  <1>4. Cardinality(Members(n)) = Cardinality(Members(room)) + 1
    BY <1>1, <1>2, MembersFinite, FS_AddElement
  <1>5. Cardinality(Members(room)) \in Nat /\ room.capacity \in Nat
    BY <1>1, MembersFinite DEF RoomOK, IsRoom
  <1>6. MemberCount(n) <= n.capacity
    BY <1>1, <1>2, <1>4, <1>5 DEF MemberCount
  <1>7. PendingOK(n) /\ Restorable(n)
    BY <1>1, <1>2, <1>3, <1>6 DEF SoundRoom, PendingOK, Restorable
  <1> QED BY <1>2, <1>7 DEF SoundRoom, n

\* Room::leave, for any set of members; their commands stay queued.
LEMMA RemoveMembersSound ==
    ASSUME NEW room, SoundRoom(room), NEW ids
    PROVE  /\ SoundRoom(RemoveMembers(room, ids))
           /\ RemoveMembers(room, ids).capacity = room.capacity
  <1> DEFINE n == RemoveMembers(room, ids)
  <1>1. RoomOK(room)
    BY DEF SoundRoom
  <1>2. RoomOK(n) /\ Members(n) = Members(room) \ ids /\ n.state = room.state
    BY <1>1, RemoveMembersOK
  <1>3. /\ n.tick_id = room.tick_id
        /\ n.capacity = room.capacity
        /\ n.pending = room.pending
        /\ n.players = IF room.state = "waiting" THEN room.players
                       ELSE RemovePlayers(room.players, ids)
    BY <1>1 DEF RoomOK, IsRoom, RemoveMembers
  <1> HIDE DEF n
  <1>4. /\ DOMAIN n.players \subseteq DOMAIN room.players
        /\ \A id \in DOMAIN n.players : n.players[id] = room.players[id]
    BY <1>3 DEF RemovePlayers
  <1>5. IsFiniteSet(DOMAIN room.players)
    <2>1. DOMAIN room.players = {} \/ DOMAIN room.players = Members(room)
      BY <1>1 DEF RoomOK, GameMatches
    <2> QED BY <1>1, <2>1, MembersFinite, FS_EmptySet
  <1>6. Cardinality(Members(n)) <= Cardinality(Members(room))
    BY <1>1, <1>2, MembersFinite, FS_Subset
  <1>7. Cardinality(DOMAIN n.players) <= Cardinality(DOMAIN room.players)
    BY <1>4, <1>5, FS_Subset
  <1>8. /\ Cardinality(Members(n)) \in Nat /\ Cardinality(Members(room)) \in Nat
        /\ Cardinality(DOMAIN n.players) \in Nat /\ Cardinality(DOMAIN room.players) \in Nat
        /\ room.capacity \in Nat /\ MaxPlayers \in Nat
    <2>1. IsFiniteSet(DOMAIN n.players)
      BY <1>4, <1>5, FS_Subset
    <2>2. room.capacity \in Nat /\ MaxPlayers \in Nat
      BY <1>1, GamestateAssumption DEF RoomOK, IsRoom
    <2> QED BY <1>1, <1>2, <1>5, <2>1, <2>2, MembersFinite, FS_CardinalityType
  <1>9. Cardinality(Members(room)) <= room.capacity /\ Cardinality(DOMAIN room.players) <= MaxPlayers
    BY DEF SoundRoom, Restorable, MemberCount
  <1>10. MemberCount(n) <= n.capacity /\ Cardinality(DOMAIN n.players) <= MaxPlayers
    BY <1>3, <1>6, <1>7, <1>8, <1>9 DEF MemberCount
  <1>11. GameOK(n.players)
    BY <1>4 DEF GameOK, SoundRoom, Restorable
  <1>12. PendingOK(n) /\ Restorable(n)
    BY <1>2, <1>3, <1>10, <1>11 DEF SoundRoom, PendingOK, Restorable
  <1> QED BY <1>2, <1>3, <1>12 DEF SoundRoom, n

\* Gamestate::initialize: everyone gets a square on the board.
LEMMA InitialPlayersOK ==
    ASSUME NEW ids, IsFiniteSet(ids), ids \subseteq PlayerIds, CanInitialize(ids)
    PROVE  DOMAIN InitialPlayers(ids) = ids /\ GameOK(InitialPlayers(ids))
  <1> DEFINE Before(id) == {other \in ids : other < id}
             p == InitialPlayers(ids)
  <1>1. \A id \in ids : p[id] = [x |-> Cardinality(Before(id)), y |-> 0, hp |-> InitialHp]
    BY DEF InitialPlayers
  <1>2. DOMAIN p = ids
    BY DEF InitialPlayers
  <1>3. ASSUME NEW id \in ids PROVE Cardinality(Before(id)) \in Positions
    <2>1. Before(id) \in SUBSET (ids \ {id})
      BY DEF PlayerIds
    <2> HIDE DEF Before
    <2>2. IsFiniteSet(ids \ {id}) /\ Cardinality(ids \ {id}) = Cardinality(ids) - 1
      BY FS_RemoveElement
    <2>3. /\ Cardinality(Before(id)) \in Nat
          /\ Cardinality(Before(id)) <= Cardinality(ids) - 1
      BY <2>1, <2>2, FS_Subset, FS_CardinalityType
    <2>4. Cardinality(ids) \in Nat /\ Cardinality(ids) <= MaxPlayers
      BY FS_CardinalityType DEF CanInitialize
    <2> QED BY <2>3, <2>4, GamestateAssumption DEF Positions
  <1> HIDE DEF p, Before
  <1>4. ASSUME NEW id \in ids
        PROVE  p[id] \in PlayerGameState /\ p[id].hp = InitialHp
    <2>1. 0 \in Positions /\ InitialHp \in 0 .. InitialHp
      BY GamestateAssumption DEF Positions
    <2> DEFINE k == Cardinality(Before(id))
    <2>2. k \in Positions /\ p[id] = [x |-> k, y |-> 0, hp |-> InitialHp]
      BY <1>1, <1>3
    <2> HIDE DEF k
    <2> QED BY <2>1, <2>2 DEF PlayerGameState
  <1>5. GameOK(p)
    BY <1>2, <1>4, InitialHpWhole DEF GameOK
  <1> QED BY <1>2, <1>5 DEF p

\* Room::start, when it succeeds.
LEMMA StartSound ==
    ASSUME NEW room, SoundRoom(room), CanStart(room)
    PROVE  SoundRoom(Start(room)) /\ Start(room).capacity = room.capacity
  <1> DEFINE n == Start(room)
  <1>1. RoomOK(room)
    BY DEF SoundRoom
  <1>2. RoomOK(n) /\ n.members = room.members
    BY <1>1, StartOK
  <1>3. /\ n.capacity = room.capacity
        /\ n.state = "running"
        /\ n.players = InitialPlayers(Members(room))
        /\ n.pending = <<>>
    BY <1>1 DEF RoomOK, IsRoom, Start
  <1> HIDE DEF n
  <1>4. /\ DOMAIN n.players = Members(room)
        /\ GameOK(n.players)
    <2>1. IsFiniteSet(Members(room)) /\ Members(room) \subseteq PlayerIds
      BY <1>1, MembersFinite DEF RoomOK, IsRoom
    <2> QED BY <1>3, <2>1, InitialPlayersOK DEF CanStart
  <1>5. Restorable(n)
    BY <1>2, <1>3, <1>4 DEF Restorable, SoundRoom, MemberCount, Members, CanStart, CanInitialize
  <1>6. PendingOK(n)
    BY <1>3 DEF PendingOK, OnePerPlayer
  <1> QED BY <1>2, <1>3, <1>5, <1>6 DEF SoundRoom, n

\* Room::finish keeps the game and drops the queue.
LEMMA FinishSound ==
    ASSUME NEW room, SoundRoom(room), CanFinish(room)
    PROVE  SoundRoom(Finish(room)) /\ Finish(room).capacity = room.capacity
  <1> DEFINE n == Finish(room)
  <1>1. RoomOK(room) /\ room.state = "running"
    BY DEF SoundRoom, CanFinish
  <1>2. /\ DOMAIN n = DOMAIN room
        /\ n.capacity = room.capacity
        /\ n.next_player_id = room.next_player_id
        /\ n.state = "finished"
        /\ n.tick_id = room.tick_id
        /\ n.members = room.members
        /\ n.players = room.players
        /\ n.pending = <<>>
    BY <1>1 DEF RoomOK, IsRoom, Finish
  <1> HIDE DEF n
  <1>3. RoomOK(n)
    BY <1>1, <1>2 DEF RoomOK, IsRoom, GameMatches, NextIdIsFresh, Members, States
  <1>4. PendingOK(n) /\ Restorable(n)
    BY <1>1, <1>2 DEF SoundRoom, PendingOK, Restorable, OnePerPlayer, MemberCount, Members
  <1> QED BY <1>2, <1>3, <1>4 DEF SoundRoom, n

\* submit_move and submit_attack, when they succeed: one command per player.
LEMMA SubmitSound ==
    ASSUME NEW room, SoundRoom(room), NEW command \in Command,
           SubmitState(room, command.player) = "success"
    PROVE  /\ SoundRoom(Submit(room, command))
           /\ Submit(room, command).capacity = room.capacity
  <1> DEFINE n == Submit(room, command)
  <1>1. RoomOK(room) /\ ~ HasPendingCommand(room, command.player)
    BY DEF SoundRoom, SubmitState
  <1>2. RoomOK(n) /\ n.members = room.members
    BY <1>1, SubmitOK
  <1>3. /\ n.capacity = room.capacity
        /\ n.state = room.state
        /\ n.tick_id = room.tick_id
        /\ n.players = room.players
        /\ n.pending = Append(room.pending, command)
    BY <1>1 DEF RoomOK, IsRoom, Submit
  <1> HIDE DEF n
  <1>4. room.pending \in Seq(Command) /\ OnePerPlayer(room.pending)
    BY DEF SoundRoom, PendingOK
  <1>5. /\ n.pending \in Seq(Command)
        /\ Len(n.pending) = Len(room.pending) + 1
        /\ \A i \in 1 .. Len(room.pending) : n.pending[i] = room.pending[i]
        /\ n.pending[Len(room.pending) + 1] = command
    BY <1>3, <1>4, AppendProperties
  <1>6. OnePerPlayer(n.pending)
    <2>1. Len(room.pending) \in Nat
      BY <1>4, LenProperties
    <2>2. \A i \in 1 .. Len(room.pending) : room.pending[i].player # command.player
      BY <1>1 DEF HasPendingCommand
    <2>3. \A i \in 1 .. Len(n.pending) : i \in 1 .. Len(room.pending) \/ i = Len(room.pending) + 1
      BY <1>5, <2>1
    <2> QED BY <1>4, <1>5, <2>1, <2>2, <2>3 DEF OnePerPlayer
  <1>7. PendingOK(n) /\ Restorable(n)
    BY <1>2, <1>3, <1>5, <1>6 DEF SoundRoom, PendingOK, Restorable, MemberCount, Members
  <1> QED BY <1>2, <1>3, <1>7 DEF SoundRoom, n

\* Room::tick of a running room.
LEMMA TickSound ==
    ASSUME NEW room, SoundRoom(room), room.state = "running"
    PROVE  /\ SoundRoom(Tick(room))
           /\ Tick(room).capacity = room.capacity
           /\ BatchEffect(room.players, room.pending, Len(room.pending), Tick(room).players)
  <1> DEFINE n == Tick(room)
  <1>1. RoomOK(room)
    BY DEF SoundRoom
  <1>2. RoomOK(n) /\ n.members = room.members
    BY <1>1, TickOK
  <1>3. /\ n.capacity = room.capacity
        /\ n.state = room.state
        /\ n.players = ProcessBatch(room.players, room.pending)
        /\ n.pending = <<>>
    BY <1>1 DEF RoomOK, IsRoom, Tick
  <1> HIDE DEF n
  <1>4. BatchEffect(room.players, room.pending, Len(room.pending), n.players)
    BY <1>3, ProcessBatchOK DEF SoundRoom, Restorable, PendingOK
  <1>5. DOMAIN n.players = DOMAIN room.players /\ GameOK(n.players)
    BY <1>4 DEF BatchEffect
  <1>6. PendingOK(n) /\ Restorable(n)
    BY <1>2, <1>3, <1>5 DEF SoundRoom, PendingOK, Restorable, OnePerPlayer, MemberCount, Members
  <1> QED BY <1>2, <1>3, <1>4, <1>6 DEF SoundRoom, n

\* Room::bind_connection touches the connection of a member only.
LEMMA BindSound ==
    ASSUME NEW room, SoundRoom(room), NEW id \in Members(room), NEW c \in Conns
    PROVE  SoundRoom(Bind(room, id, c)) /\ Bind(room, id, c).capacity = room.capacity
  <1> DEFINE n == Bind(room, id, c)
  <1>1. RoomOK(room)
    BY DEF SoundRoom
  <1>2. RoomOK(n) /\ Members(n) = Members(room)
    BY <1>1, BindOK
  <1>3. /\ n.capacity = room.capacity
        /\ n.state = room.state
        /\ n.tick_id = room.tick_id
        /\ n.players = room.players
        /\ n.pending = room.pending
    BY <1>1 DEF RoomOK, IsRoom, Bind
  <1> HIDE DEF n
  <1> QED BY <1>2, <1>3, SameGameSound DEF n

\* Room::detach_connection touches the connection of a member only.
LEMMA DetachSound ==
    ASSUME NEW room, SoundRoom(room), NEW id \in Members(room)
    PROVE  SoundRoom(Detach(room, id)) /\ Detach(room, id).capacity = room.capacity
  <1> DEFINE n == Detach(room, id)
  <1>1. RoomOK(room)
    BY DEF SoundRoom
  <1>2. RoomOK(n) /\ Members(n) = Members(room)
    BY <1>1, DetachOK
  <1>3. /\ n.capacity = room.capacity
        /\ n.state = room.state
        /\ n.tick_id = room.tick_id
        /\ n.players = room.players
        /\ n.pending = room.pending
    BY <1>1 DEF RoomOK, IsRoom, Detach
  <1> HIDE DEF n
  <1> QED BY <1>2, <1>3, SameGameSound DEF n

\* The weak pointers to a connection that is gone expire.
LEMMA ExpireSound ==
    ASSUME NEW room, SoundRoom(room), NEW c
    PROVE  SoundRoom(Expire(room, c)) /\ Expire(room, c).capacity = room.capacity
  <1> DEFINE n == Expire(room, c)
  <1>1. RoomOK(room)
    BY DEF SoundRoom
  <1>2. RoomOK(n) /\ Members(n) = Members(room)
    BY <1>1, ExpireOK
  <1>3. /\ n.capacity = room.capacity
        /\ n.state = room.state
        /\ n.tick_id = room.tick_id
        /\ n.players = room.players
        /\ n.pending = room.pending
    BY <1>1 DEF RoomOK, IsRoom, Expire
  <1> HIDE DEF n
  <1> QED BY <1>2, <1>3, SameGameSound DEF n
=============================================================================
