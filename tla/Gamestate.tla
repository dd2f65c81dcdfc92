------------------------------ MODULE Gamestate ------------------------------
(***************************************************************************)
(* The authoritative game state of one room: Gamestate::players_ of        *)
(* game_state.h, a function from the ids of the players to their position  *)
(* and hit points.  Every operation of the class is a predicate saying     *)
(* when it succeeds and an operator giving the new players_; when it fails *)
(* players_ is unchanged, and its callers in room.cpp use only success or  *)
(* failure.                                                                *)
(***************************************************************************)
EXTENDS Integers, FiniteSets

CONSTANTS
    InitialHp,      \* INITIAL_HP (100)
    AttackDamage,   \* ATTACK_DAMAGE (10)
    MaxPosition,    \* MAX_POSITION (100); MIN_POSITION is 0
    MaxPlayers      \* MAX_PLAYERS (101): one start square per player

ASSUME GamestateAssumption ==
    /\ InitialHp \in Nat \ {0}
    /\ AttackDamage \in Nat \ {0}
    /\ MaxPosition \in Nat
    /\ MaxPlayers \in Nat
    /\ MaxPlayers <= MaxPosition + 1
    /\ \E hits \in 1 .. InitialHp : InitialHp = hits * AttackDamage

Positions == 0 .. MaxPosition

PlayerGameState == [x : Positions, y : Positions, hp : 0 .. InitialHp]

\* players_ of a room that has not started.
NoPlayers == [id \in {} |-> [x |-> 0, y |-> 0, hp |-> InitialHp]]

CanInitialize(ids) == ids # {} /\ Cardinality(ids) <= MaxPlayers /\ 0 \notin ids

\* The players stand on the row y = 0 in the order of their ids.
InitialPlayers(ids) ==
    [id \in ids |-> [x  |-> Cardinality({other \in ids : other < id}),
                     y  |-> 0,
                     hp |-> InitialHp]]

CanRemove(players, id) == id # 0 /\ id \in DOMAIN players

RemovePlayers(players, ids) == [id \in DOMAIN players \ ids |-> players[id]]

\* One square up, down, left or right.
UnitSteps == {<<1, 0>>, <<-1, 0>>, <<0, 1>>, <<0, -1>>}

\* Mutant: the board's edges are not checked.
CanMoveOffBoard(players, id, dx, dy) == id \in DOMAIN players /\ <<dx, dy>> \in UnitSteps

CanMove(players, id, dx, dy) ==
    /\ id # 0
    /\ id \in DOMAIN players
    /\ <<dx, dy>> \in UnitSteps
    /\ players[id].x + dx \in Positions
    /\ players[id].y + dy \in Positions

MovePlayer(players, id, dx, dy) ==
    [players EXCEPT ![id].x = @ + dx, ![id].y = @ + dy]

Abs(n) == IF n < 0 THEN -n ELSE n

Distance(a, b) == Abs(a.x - b.x) + Abs(a.y - b.y)

\* Mutant: an attacker who is not found still hits.
CanAttackUnseen(players, attacker, target) ==
    /\ attacker # target
    /\ target \in DOMAIN players
    /\ players[target].hp > 0
    /\ attacker \in DOMAIN players =>
         players[attacker].hp > 0 /\ Distance(players[attacker], players[target]) <= 1

\* Mutant: the dead may attack.
CanAttackDead(players, attacker, target) ==
    /\ attacker # target
    /\ {attacker, target} \subseteq DOMAIN players
    /\ players[target].hp > 0
    /\ Distance(players[attacker], players[target]) <= 1

CanAttack(players, attacker, target) ==
    /\ attacker # 0 /\ target # 0
    /\ attacker # target
    /\ {attacker, target} \subseteq DOMAIN players
    /\ players[attacker].hp > 0
    /\ players[target].hp > 0
    /\ Distance(players[attacker], players[target]) <= 1

AttackPlayer(players, target) == [players EXCEPT ![target].hp = @ - AttackDamage]

\* restore() takes what a checkpoint holds: an empty table and hp = 0 are fine.
CanRestoreGame(players) ==
    /\ Cardinality(DOMAIN players) <= MaxPlayers
    /\ \A id \in DOMAIN players : id # 0 /\ players[id] \in PlayerGameState
=============================================================================
