------------------------- MODULE RoomServiceProofs -------------------------
(***************************************************************************)
(* The identity invariants of RoomService hold for any number of rooms,    *)
(* players, connections, tokens, ticks and restarts.                       *)
(***************************************************************************)
EXTENDS RoomService, RoomProofs

RoomsOK == \A r \in RoomIds : RoomOK(rooms[r])

\* The values in a checkpoint; whether it passes the checks is decided when it
\* is restored.
RoomCheckpointOK(cp) ==
    /\ cp.capacity \in Nat
    /\ cp.next_player_id \in 0 .. MaxPlayerId
    /\ cp.state \in States
    /\ cp.tick_id \in Nat
    /\ cp.members \subseteq PlayerIds

SavedOK ==
    /\ \A r \in RoomIds : RoomCheckpointOK(saved.rooms[r])
    /\ DOMAIN saved.sessions \subseteq Tokens
    /\ \A t \in DOMAIN saved.sessions :
         saved.sessions[t] \in [room : RoomIds, player : PlayerIds]

\* The inductive invariant.
Inv ==
    /\ TypeOK
    /\ RoomsOK
    /\ SeatsHaveSessions
    /\ BindingsAreOnline
    /\ ConnectionsAgree
    /\ SavedOK

-----------------------------------------------------------------------------

\* A broadcast goes to connections only.
LEMMA ConnectionsType ==
    ASSUME NEW room, RoomOK(room), NEW excluded
    PROVE  Connections(room, excluded) \subseteq Conns
  BY DEF RoomOK, IsRoom, Connections

\* send_frame and broadcast_frame touch roster and doomed only.
LEMMA SendTypes ==
    ASSUME NEW STATE to, NEW STATE told, TypeOK, to \subseteq Conns,
           told \in [Conns -> SUBSET PlayerIds], Send(to, told)
    PROVE  roster' \in [Conns -> SUBSET PlayerIds] /\ doomed' \subseteq Conns
  BY DEF TypeOK, Send

\* A step that leaves the tables alone keeps the invariant.
LEMMA TablesUnchanged ==
    ASSUME Inv, UNCHANGED <<rooms, sessions, bindings, saved>>,
           conns' \in [Conns -> ConnState], roster' \in [Conns -> SUBSET PlayerIds],
           doomed' \subseteq Conns, restarts' \in Nat
    PROVE  Inv'
  BY DEF Inv, TypeOK, RoomsOK, SeatsHaveSessions, BindingsAreOnline, ConnectionsAgree, SavedOK

\* An error frame keeps the invariant.
LEMMA ErrorKeepsInv ==
    ASSUME Inv, NEW c \in Conns, SendError(c)
    PROVE  Inv'
  <1>1. roster' \in [Conns -> SUBSET PlayerIds] /\ doomed' \subseteq Conns
    BY SendTypes DEF Inv, TypeOK, SendError
  <1> QED BY <1>1, TablesUnchanged DEF Inv, TypeOK, SendError

\* The checkpoint taken in a good state holds values of the right kind.
LEMMA CheckpointOK ==
    ASSUME TypeOK
    PROVE  /\ \A r \in RoomIds : RoomCheckpointOK(Checkpoint.rooms[r])
           /\ DOMAIN Checkpoint.sessions \subseteq Tokens
           /\ \A t \in DOMAIN Checkpoint.sessions :
                Checkpoint.sessions[t] \in [room : RoomIds, player : PlayerIds]
  <1>1. ASSUME NEW r \in RoomIds PROVE RoomCheckpointOK(Checkpoint.rooms[r])
    <2>1. RoomCheckpointOK(MakeRoomCheckpoint(rooms[r]))
      BY DEF TypeOK, IsRoom, MakeRoomCheckpoint, RoomCheckpointOK
    <2> QED BY <2>1 DEF Checkpoint
  <1>2. DOMAIN Checkpoint.sessions = DOMAIN sessions
    BY DEF Checkpoint
  <1>3. ASSUME NEW t \in DOMAIN sessions
        PROVE  Checkpoint.sessions[t] \in [room : RoomIds, player : PlayerIds]
    <2>1. sessions[t].room \in RoomIds /\ sessions[t].player \in PlayerIds
      BY DEF TypeOK, Session
    <2> QED BY <2>1 DEF Checkpoint
  <1> QED BY <1>1, <1>2, <1>3 DEF TypeOK

-----------------------------------------------------------------------------

\* RoomService starts in a good state.
LEMMA InitInv == Init => Inv
  <1> SUFFICES ASSUME Init PROVE Inv
    OBVIOUS
  <1>0. PICK capacity \in Capacities : rooms = [r \in RoomIds |-> NewRoom(capacity[r])]
    BY DEF Init
  <1>1. \A r \in RoomIds : RoomOK(rooms[r]) /\ Members(rooms[r]) = {}
    BY <1>0, NewRoomOK, RoomServiceAssumption
  <1>2. TypeOK
    BY <1>1 DEF Init, TypeOK, NoSessions, NoBindings, ConnState, RoomOK
  <1>3. SeatsHaveSessions /\ BindingsAreOnline /\ ConnectionsAgree
    BY <1>1 DEF Init, SeatsHaveSessions, BindingsAreOnline, ConnectionsAgree,
                NoSessions, NoBindings
  <1>4. SavedOK
    BY <1>2, CheckpointOK DEF Init, SavedOK
  <1> QED BY <1>1, <1>2, <1>3, <1>4 DEF Inv, RoomsOK

-----------------------------------------------------------------------------
(* The actions that keep every member and its connection. *)

\* A step that changes rooms but no member and no member's connection.
LEMMA SameSeats ==
    ASSUME Inv, DOMAIN rooms' = RoomIds,
           \A r \in RoomIds :
             /\ RoomOK(rooms'[r])
             /\ Members(rooms'[r]) = Members(rooms[r])
             /\ \A id \in Members(rooms[r]) :
                  rooms'[r].members[id] = rooms[r].members[id],
           UNCHANGED <<sessions, bindings, conns, roster, doomed, saved, restarts>>
    PROVE  Inv'
  <1>1. TypeOK'
    BY DEF Inv, TypeOK, RoomOK
  <1>2. RoomsOK'
    BY DEF RoomsOK
  <1>3. \A t \in DOMAIN sessions :
          sessions[t].room \in RoomIds /\ sessions[t].player \in Members(rooms[sessions[t].room])
    BY DEF Inv, TypeOK, Session, SeatsHaveSessions
  <1>4. SeatsHaveSessions' /\ ConnectionsAgree'
    BY <1>3 DEF Inv, SeatsHaveSessions, ConnectionsAgree
  <1> QED BY <1>1, <1>2, <1>4 DEF Inv, BindingsAreOnline, SavedOK

\* A command is queued in the room of the session.
LEMMA CommandKeepsInv ==
    ASSUME Inv, NEW c \in Conns, NEW STATE command, HandleCommand(c, command)
    PROVE  Inv'
  <1>1. CASE SendError(c)
    BY <1>1, ErrorKeepsInv
  <1>2. CASE /\ Bound(c)
             /\ rooms' = [rooms EXCEPT ![Identity(c).room] = Submit(@, command)]
             /\ UNCHANGED <<sessions, bindings, conns, roster, doomed, saved, restarts>>
    <2> DEFINE q == Identity(c).room
    <2>1. q \in RoomIds
      BY <1>2 DEF Inv, TypeOK, Session, Bound, LookupState, Identity
    <2>2. /\ RoomOK(Submit(rooms[q], command))
          /\ Submit(rooms[q], command).members = rooms[q].members
      BY <2>1, SubmitOK DEF Inv, RoomsOK
    <2>3. /\ DOMAIN rooms' = RoomIds
          /\ rooms'[q] = Submit(rooms[q], command)
          /\ \A r \in RoomIds : r # q => rooms'[r] = rooms[r]
      BY <1>2, <2>1 DEF Inv, TypeOK
    <2>4. \A r \in RoomIds :
             /\ RoomOK(rooms'[r])
             /\ rooms'[r].members = rooms[r].members
      BY <2>2, <2>3 DEF Inv, RoomsOK
    <2> QED BY <1>2, <2>3, <2>4, SameSeats DEF Members
  <1> QED BY <1>1, <1>2 DEF HandleCommand, NotInRoom

\* A tick settles the running rooms.
LEMMA TickKeepsInv ==
    ASSUME Inv, HandleTick
    PROVE  Inv'
  <1>1. DOMAIN rooms' = RoomIds
    BY DEF HandleTick, TickRooms
  <1>2. \A r \in RoomIds : rooms'[r] = Tick(rooms[r]) \/ rooms'[r] = rooms[r]
    BY DEF HandleTick, TickRooms
  <1>3. \A r \in RoomIds : RoomOK(rooms'[r]) /\ rooms'[r].members = rooms[r].members
    BY <1>2, TickOK DEF Inv, RoomsOK
  <1> QED BY <1>1, <1>3, SameSeats DEF HandleTick, TickRooms, Members

\* A new connection changes no table (TcpServer::handle_accept).
LEMMA AcceptKeepsInv ==
    ASSUME Inv, NEW c \in Conns, Accept(c)
    PROVE  Inv'
  <1>1. /\ conns' \in [Conns -> ConnState]
        /\ roster' \in [Conns -> SUBSET PlayerIds]
    BY DEF Accept, Inv, TypeOK, ConnState
  <1> QED BY <1>1, TablesUnchanged DEF Accept, Inv, TypeOK

\* A chat message is relayed and changes no table (handle_chat).
LEMMA ChatKeepsInv ==
    ASSUME Inv, NEW c \in Conns, NEW message_ok \in BOOLEAN, HandleChat(c, message_ok)
    PROVE  Inv'
  <1>1. CASE SendError(c)
    BY <1>1, ErrorKeepsInv
  <1>2. CASE /\ Bound(c)
             /\ Send(Connections(rooms[Identity(c).room], 0), roster)
             /\ UNCHANGED <<rooms, sessions, bindings, conns, saved, restarts>>
    <2>1. Identity(c).room \in RoomIds
      BY <1>2 DEF Inv, TypeOK, Session, Bound, LookupState, Identity
    <2>2. Connections(rooms[Identity(c).room], 0) \subseteq Conns
      BY <2>1, ConnectionsType DEF Inv, RoomsOK
    <2>3. roster' \in [Conns -> SUBSET PlayerIds] /\ doomed' \subseteq Conns
      BY <1>2, <2>2, SendTypes DEF Inv, TypeOK
    <2> QED BY <1>2, <2>3, TablesUnchanged DEF Inv, TypeOK
  <1> QED BY <1>1, <1>2 DEF HandleChat, NotInRoom

\* make_checkpoint reads the tables.
LEMMA SaveKeepsInv ==
    ASSUME Inv, SaveCheckpoint
    PROVE  Inv'
  <1>1. SavedOK'
    BY CheckpointOK DEF Inv, SaveCheckpoint, SavedOK
  <1> QED BY <1>1 DEF SaveCheckpoint, Inv, TypeOK, RoomsOK, SeatsHaveSessions,
                      BindingsAreOnline, ConnectionsAgree

-----------------------------------------------------------------------------
(* The actions on sessions, bindings and members. *)

\* The clock changes how long sessions may stay offline and nothing else.
LEMMA AdvanceKeepsInv ==
    ASSUME Inv, Advance
    PROVE  Inv'
  <1>1. /\ DOMAIN sessions' = DOMAIN sessions
        /\ \A t \in DOMAIN sessions :
             /\ sessions'[t] \in Session
             /\ sessions'[t].room = sessions[t].room
             /\ sessions'[t].player = sessions[t].player
             /\ sessions'[t].state = sessions[t].state
             /\ sessions'[t].conn = sessions[t].conn
    BY RoomServiceAssumption DEF Advance, Inv, TypeOK, Session
  <1>2. UNCHANGED <<rooms, bindings, conns, roster, doomed, saved, restarts>>
    BY DEF Advance
  <1> QED BY <1>1, <1>2 DEF Inv, TypeOK, RoomsOK, SeatsHaveSessions, BindingsAreOnline,
                            ConnectionsAgree, SavedOK

\* When a Connection object goes, its weak pointers expire in both tables.
LEMMA FreeKeepsInv ==
    ASSUME Inv, NEW c \in Conns, Free(c)
    PROVE  Inv'
  <1>1. /\ DOMAIN rooms' = RoomIds
        /\ \A r \in RoomIds :
             /\ RoomOK(rooms'[r])
             /\ Members(rooms'[r]) = Members(rooms[r])
             /\ \A id \in Members(rooms[r]) :
                  rooms'[r].members[id] = IF rooms[r].members[id] = c THEN NoConn
                                          ELSE rooms[r].members[id]
    BY ExpireOK DEF Free, Inv, RoomsOK
  <1>2. /\ DOMAIN sessions' = DOMAIN sessions
        /\ \A t \in DOMAIN sessions :
             /\ sessions'[t] \in Session
             /\ sessions'[t].room = sessions[t].room
             /\ sessions'[t].player = sessions[t].player
             /\ sessions'[t].state = sessions[t].state
             /\ sessions'[t].conn = IF sessions[t].conn = c THEN NoConn
                                    ELSE sessions[t].conn
    BY DEF Free, Inv, TypeOK, Session
  <1>3. /\ UNCHANGED <<bindings, roster, saved, restarts>>
        /\ conns' \in [Conns -> ConnState]
        /\ doomed' \subseteq Conns
    BY DEF Free, Inv, TypeOK, ConnState
  <1>4. \A t \in DOMAIN sessions :
          sessions[t].room \in RoomIds /\ sessions[t].player \in Members(rooms[sessions[t].room])
    BY DEF Inv, TypeOK, Session, SeatsHaveSessions
  <1>5. TypeOK' /\ RoomsOK'
    BY <1>1, <1>2, <1>3 DEF Inv, TypeOK, RoomsOK, RoomOK
  <1>6. SeatsHaveSessions'
    <2>1. \A t \in DOMAIN sessions' :
            sessions'[t].player \in Members(rooms'[sessions'[t].room])
      BY <1>1, <1>2, <1>4
    <2>2. ASSUME NEW r \in RoomIds, NEW id \in Members(rooms'[r])
          PROVE  \E t \in DOMAIN sessions' : sessions'[t].room = r /\ sessions'[t].player = id
      BY <1>1, <1>2 DEF Inv, SeatsHaveSessions
    <2>3. \A t, u \in DOMAIN sessions' :
            sessions'[t].room = sessions'[u].room /\ sessions'[t].player = sessions'[u].player
              => t = u
      BY <1>2 DEF Inv, SeatsHaveSessions
    <2> QED BY <2>1, <2>2, <2>3 DEF SeatsHaveSessions
  <1>7. BindingsAreOnline'
    BY <1>2, <1>3 DEF Inv, BindingsAreOnline
  <1>8. ConnectionsAgree'
    BY <1>1, <1>2, <1>3, <1>4 DEF Inv, ConnectionsAgree
  <1> QED BY <1>3, <1>5, <1>6, <1>7, <1>8 DEF Inv, SavedOK

\* A member of a waiting room is added and its session created, or the join is
\* taken back.
LEMMA JoinKeepsInv ==
    ASSUME Inv, NEW c \in Conns, NEW r, NEW name_ok \in BOOLEAN, HandleJoin(c, r, name_ok)
    PROVE  Inv'
  <1> DEFINE id     == rooms[r].next_player_id
             joined == AddMember(rooms[r], c)
             undone == RemoveMembers(joined, {id})
  <1>1. CASE SendError(c)
    BY <1>1, ErrorKeepsInv
  <1>2. ASSUME r \in RoomIds, JoinState(rooms[r], name_ok) = "success"
        PROVE  /\ RoomOK(joined)
               /\ id \in PlayerIds
               /\ id \notin Members(rooms[r])
               /\ Members(joined) = Members(rooms[r]) \cup {id}
               /\ joined.members[id] = c
               /\ \A i \in Members(rooms[r]) : joined.members[i] = rooms[r].members[i]
    <2>1. rooms[r].state = "waiting" /\ id # 0
      BY <1>2 DEF JoinState
    <2>2. RoomOK(rooms[r])
      BY <1>2 DEF Inv, RoomsOK
    <2> QED BY <2>1, <2>2, AddMemberOK
  <1>3. CASE /\ r \in RoomIds
             /\ JoinState(rooms[r], name_ok) = "success"
             /\ rooms' = [rooms EXCEPT ![r] = undone]
             /\ UNCHANGED <<sessions, bindings, roster, doomed>>
             /\ UNCHANGED <<conns, saved, restarts>>
    <2>1. /\ RoomOK(undone)
          /\ Members(undone) = Members(rooms[r])
          /\ \A i \in Members(rooms[r]) : undone.members[i] = rooms[r].members[i]
      <3> HIDE DEF joined
      <3>1. /\ RoomOK(joined)
            /\ id \notin Members(rooms[r])
            /\ Members(joined) = Members(rooms[r]) \cup {id}
            /\ \A i \in Members(rooms[r]) : joined.members[i] = rooms[r].members[i]
        BY <1>2, <1>3
      <3>2. /\ RoomOK(undone)
            /\ Members(undone) = Members(joined) \ {id}
            /\ \A i \in Members(undone) : undone.members[i] = joined.members[i]
        BY <3>1, RemoveMembersOK
      <3> HIDE DEF undone
      <3>3. Members(undone) = Members(rooms[r])
        BY <3>1, <3>2
      <3> QED BY <3>1, <3>2, <3>3
    <2>2. /\ DOMAIN rooms' = RoomIds
          /\ rooms'[r] = undone
          /\ \A q \in RoomIds : q # r => rooms'[q] = rooms[q]
      BY <1>3 DEF Inv, TypeOK
    <2>3. \A q \in RoomIds :
             /\ RoomOK(rooms'[q])
             /\ Members(rooms'[q]) = Members(rooms[q])
             /\ \A i \in Members(rooms[q]) : rooms'[q].members[i] = rooms[q].members[i]
      BY <2>1, <2>2 DEF Inv, RoomsOK
    <2> QED BY <1>3, <2>2, <2>3, SameSeats
  <1>4. ASSUME r \in RoomIds, JoinState(rooms[r], name_ok) = "success",
               c \notin DOMAIN bindings,
               NEW t \in Tokens \ DOMAIN sessions,
               rooms' = [rooms EXCEPT ![r] = StartIfFull(joined)],
               sessions' = Put(sessions, t, NewSession(r, id, c)),
               bindings' = Put(bindings, c, t),
               Send({c} \cup Connections(joined, id),
                    [d \in Conns |-> IF d = c THEN Members(joined) ELSE roster[d] \cup {id}]),
               UNCHANGED <<conns, saved, restarts>>
        PROVE  Inv'
    <2> DEFINE n == StartIfFull(joined)
    <2>1. /\ RoomOK(n)
          /\ n.members = joined.members
      BY <1>2, <1>4, StartOK DEF StartIfFull
    <2>2. /\ id \in PlayerIds
          /\ id \notin Members(rooms[r])
          /\ Members(n) = Members(rooms[r]) \cup {id}
          /\ n.members[id] = c
          /\ \A i \in Members(rooms[r]) : n.members[i] = rooms[r].members[i]
      BY <1>2, <1>4, <2>1 DEF Members
    <2>3. /\ DOMAIN rooms' = RoomIds
          /\ rooms'[r] = n
          /\ \A q \in RoomIds : q # r => rooms'[q] = rooms[q]
      BY <1>4 DEF Inv, TypeOK
    <2> HIDE DEF n
    <2>4. /\ DOMAIN sessions' = DOMAIN sessions \cup {t}
          /\ sessions'[t] = NewSession(r, id, c)
          /\ \A u \in DOMAIN sessions : sessions'[u] = sessions[u]
      BY <1>4 DEF Put
    <2>5. /\ DOMAIN bindings' = DOMAIN bindings \cup {c}
          /\ bindings'[c] = t
          /\ \A d \in DOMAIN bindings : bindings'[d] = bindings[d]
      BY <1>4 DEF Put
    <2>6. /\ sessions'[t].room = r
          /\ sessions'[t].player = id
          /\ sessions'[t].state = "online"
          /\ sessions'[t].conn = c
          /\ sessions'[t] \in Session
      BY <1>4, <2>2, <2>4, RoomServiceAssumption DEF NewSession, Session
    <2>7. roster' \in [Conns -> SUBSET PlayerIds] /\ doomed' \subseteq Conns
      <3>1. {c} \cup Connections(joined, id) \subseteq Conns
        BY <1>2, <1>4, ConnectionsType
      <3>2. Members(joined) \subseteq PlayerIds
        BY <1>2, <1>4 DEF RoomOK, IsRoom
      <3>3. [d \in Conns |-> IF d = c THEN Members(joined) ELSE roster[d] \cup {id}]
              \in [Conns -> SUBSET PlayerIds]
        BY <2>2, <3>2 DEF Inv, TypeOK
      <3> QED BY <1>4, <3>1, <3>3, SendTypes DEF Inv
    <2>8. \A u \in DOMAIN sessions :
             /\ sessions[u].room \in RoomIds
             /\ sessions[u].player \in Members(rooms[sessions[u].room])
      BY DEF Inv, TypeOK, Session, SeatsHaveSessions
    <2>9. RoomsOK'
      BY <2>1, <2>3 DEF Inv, RoomsOK
    <2>10. TypeOK'
      BY <1>4, <2>3, <2>4, <2>5, <2>6, <2>7, <2>9 DEF Inv, TypeOK, RoomsOK, RoomOK
    <2>11. SeatsHaveSessions'
      BY <1>4, <2>2, <2>3, <2>4, <2>6, <2>8 DEF Inv, SeatsHaveSessions
    <2>12. BindingsAreOnline'
      BY <1>4, <2>4, <2>5, <2>6 DEF Inv, BindingsAreOnline
    <2>13. ConnectionsAgree'
      BY <1>4, <2>2, <2>3, <2>4, <2>5, <2>6, <2>8 DEF Inv, ConnectionsAgree
    <2> QED BY <1>4, <2>9, <2>10, <2>11, <2>12, <2>13 DEF Inv, SavedOK
  <1> QED BY <1>1, <1>3, <1>4 DEF HandleJoin, LookupState

\* Session::bind keeps whose session it is.
LEMMA OnlineOK ==
    ASSUME NEW s \in Session, NEW c \in Conns
    PROVE  /\ Online(s, c) \in Session
           /\ Online(s, c).room = s.room
           /\ Online(s, c).player = s.player
           /\ Online(s, c).state = "online"
           /\ Online(s, c).conn = c
  <1>1. ReconnectTimeout \in 0 .. ReconnectTimeout
    BY RoomServiceAssumption
  <1> QED BY <1>1 DEF Online, Session

\* Session::detach keeps whose session it is.
LEMMA OfflineOK ==
    ASSUME NEW s \in Session
    PROVE  /\ Offline(s) \in Session
           /\ Offline(s).room = s.room
           /\ Offline(s).player = s.player
           /\ Offline(s).state = "offline"
           /\ Offline(s).conn = NoConn
  <1>1. ReconnectTimeout \in 0 .. ReconnectTimeout
    BY RoomServiceAssumption
  <1> QED BY <1>1 DEF Offline, Session

\* A restored session is offline and belongs to the saved player.
LEMMA RestoredSessionOK ==
    ASSUME NEW identity \in [room : RoomIds, player : PlayerIds]
    PROVE  /\ RestoredSession(identity) \in Session
           /\ RestoredSession(identity).room = identity.room
           /\ RestoredSession(identity).player = identity.player
           /\ RestoredSession(identity).state = "offline"
           /\ RestoredSession(identity).conn = NoConn
  <1>1. ReconnectTimeout \in 0 .. ReconnectTimeout
    BY RoomServiceAssumption
  <1> QED BY <1>1 DEF RestoredSession, Session

\* An offline session and its member get the new connection together.
LEMMA ResumeKeepsInv ==
    ASSUME Inv, NEW c \in Conns, NEW t \in Tokens, HandleResume(c, t)
    PROVE  Inv'
  <1>1. CASE SendError(c)
    BY <1>1, ErrorKeepsInv
  <1>2. CASE UNCHANGED vars
    BY <1>2, TablesUnchanged DEF Inv, TypeOK, vars
  <1>3. CASE /\ ResumeState(c, t) = "success"
             /\ CanBind(rooms[sessions[t].room], sessions[t].player)
             /\ sessions' = [sessions EXCEPT ![t] = Online(@, c)]
             /\ bindings' = Put(bindings, c, t)
             /\ rooms' = [rooms EXCEPT ![sessions[t].room] = Bind(@, sessions[t].player, c)]
             /\ Send({c}, [d \in Conns |-> Members(rooms[sessions[t].room])])
             /\ UNCHANGED <<conns, saved, restarts>>
    <2> DEFINE r  == sessions[t].room
               id == sessions[t].player
               n  == Bind(rooms[r], id, c)
    <2>1. /\ c \notin DOMAIN bindings
          /\ t \in DOMAIN sessions
          /\ sessions[t].state = "offline"
      BY <1>3 DEF ResumeState
    <2>2. /\ \A u \in DOMAIN sessions :
               /\ sessions[u].room \in RoomIds
               /\ sessions[u].player \in Members(rooms[sessions[u].room])
          /\ sessions[t] \in Session
      BY <2>1 DEF Inv, TypeOK, Session, SeatsHaveSessions
    <2>3. /\ RoomOK(n)
          /\ Members(n) = Members(rooms[r])
          /\ n.members = [rooms[r].members EXCEPT ![id] = c]
      BY <2>1, <2>2, BindOK DEF Inv, RoomsOK
    <2>4. /\ n.members[id] = c
          /\ \A i \in Members(rooms[r]) : i # id => n.members[i] = rooms[r].members[i]
      BY <2>1, <2>2, <2>3 DEF Members
    <2>5. /\ DOMAIN rooms' = RoomIds
          /\ rooms'[r] = n
          /\ \A q \in RoomIds : q # r => rooms'[q] = rooms[q]
      BY <1>3, <2>1, <2>2 DEF Inv, TypeOK
    <2> HIDE DEF n
    <2>6. /\ DOMAIN sessions' = DOMAIN sessions
          /\ sessions'[t] = Online(sessions[t], c)
          /\ \A u \in DOMAIN sessions : u # t => sessions'[u] = sessions[u]
      BY <1>3, <2>1
    <2>7. /\ sessions'[t] \in Session
          /\ sessions'[t].room = r
          /\ sessions'[t].player = id
          /\ sessions'[t].state = "online"
          /\ sessions'[t].conn = c
      BY <2>2, <2>6, OnlineOK
    <2>8. /\ DOMAIN bindings' = DOMAIN bindings \cup {c}
          /\ bindings'[c] = t
          /\ \A d \in DOMAIN bindings : bindings'[d] = bindings[d]
      BY <1>3, <2>1 DEF Put
    <2>9. roster' \in [Conns -> SUBSET PlayerIds] /\ doomed' \subseteq Conns
      <3>1. Members(rooms[r]) \subseteq PlayerIds
        BY <2>1, <2>2 DEF Inv, TypeOK, IsRoom
      <3> QED BY <1>3, <3>1, SendTypes DEF Inv
    <2>10. RoomsOK'
      BY <2>3, <2>5 DEF Inv, RoomsOK
    <2>11. TypeOK'
      BY <1>3, <2>5, <2>6, <2>7, <2>8, <2>9, <2>10 DEF Inv, TypeOK, RoomsOK, RoomOK
    <2>12. SeatsHaveSessions'
      BY <2>1, <2>2, <2>3, <2>5, <2>6, <2>7, SMTT(30) DEF Inv, SeatsHaveSessions
    <2>13. BindingsAreOnline'
      BY <2>1, <2>6, <2>7, <2>8 DEF Inv, BindingsAreOnline
    <2>14. ConnectionsAgree'
      <3> SUFFICES ASSUME NEW u \in DOMAIN sessions'
                   PROVE  LET s == sessions'[u]
                          IN  /\ rooms'[s.room].members[s.player] = s.conn
                              /\ s.state = "offline" => s.conn = NoConn
                              /\ s.conn # NoConn =>
                                   s.conn \in DOMAIN bindings' /\ bindings'[s.conn] = u
        BY DEF ConnectionsAgree
      <3>1. CASE u = t
        BY <3>1, <2>4, <2>5, <2>7, <2>8
      <3>2. CASE u # t
        <4>1. sessions'[u] = sessions[u] /\ u \in DOMAIN sessions
          BY <3>2, <2>6
        <4>2. sessions[u].room = r => sessions[u].player # id
          BY <3>2, <4>1, <2>1 DEF Inv, SeatsHaveSessions
        <4>3. rooms'[sessions[u].room].members[sessions[u].player]
                = rooms[sessions[u].room].members[sessions[u].player]
          BY <4>1, <4>2, <2>2, <2>4, <2>5
        <4> QED BY <4>1, <4>3, <2>8 DEF Inv, ConnectionsAgree
      <3> QED BY <3>1, <3>2
    <2> QED BY <1>3, <2>10, <2>11, <2>12, <2>13, <2>14 DEF Inv, SavedOK
  <1> QED BY <1>1, <1>2, <1>3 DEF HandleResume, BindConnection, ResumeState

\* The player who leaves takes its session and its binding along.
LEMMA LeaveKeepsInv ==
    ASSUME Inv, NEW c \in Conns, HandleLeave(c)
    PROVE  Inv'
  <1> DEFINE t  == bindings[c]
             r  == sessions[t].room
             id == sessions[t].player
             n  == RemoveMembers(rooms[r], {id})
  <1>1. CASE SendError(c)
    BY <1>1, ErrorKeepsInv
  <1>2. CASE /\ Bound(c)
             /\ rooms' = [rooms EXCEPT ![r] = n]
             /\ Send({c} \cup Connections(n, 0),
                     [d \in Conns |-> IF d = c THEN {} ELSE roster[d] \ {id}])
             /\ sessions' = Drop(sessions, {t})
             /\ bindings' = Drop(bindings, {c})
             /\ UNCHANGED <<conns, saved, restarts>>
    <2>1. c \in DOMAIN bindings /\ t \in DOMAIN sessions
      BY <1>2 DEF Bound, LookupState
    <2>2. \A u \in DOMAIN sessions :
             /\ sessions[u].room \in RoomIds
             /\ sessions[u].player \in Members(rooms[sessions[u].room])
      BY DEF Inv, TypeOK, Session, SeatsHaveSessions
    <2>3. /\ RoomOK(n)
          /\ Members(n) = Members(rooms[r]) \ {id}
          /\ \A i \in Members(n) : n.members[i] = rooms[r].members[i]
      BY <2>1, <2>2, RemoveMembersOK DEF Inv, RoomsOK
    <2>4. /\ DOMAIN rooms' = RoomIds
          /\ rooms'[r] = n
          /\ \A q \in RoomIds : q # r => rooms'[q] = rooms[q]
      BY <1>2, <2>1, <2>2 DEF Inv, TypeOK
    <2>5. roster' \in [Conns -> SUBSET PlayerIds] /\ doomed' \subseteq Conns
      <3>1. {c} \cup Connections(n, 0) \subseteq Conns
        BY <2>3, ConnectionsType
      <3>2. [d \in Conns |-> IF d = c THEN {} ELSE roster[d] \ {id}]
              \in [Conns -> SUBSET PlayerIds]
        BY DEF Inv, TypeOK
      <3> QED BY <1>2, <3>1, <3>2, SendTypes DEF Inv
    <2> HIDE DEF n
    <2>6. /\ DOMAIN sessions' = DOMAIN sessions \ {t}
          /\ \A u \in DOMAIN sessions' : sessions'[u] = sessions[u]
          /\ DOMAIN bindings' = DOMAIN bindings \ {c}
          /\ \A d \in DOMAIN bindings' : bindings'[d] = bindings[d]
      BY <1>2 DEF Drop
    <2>7. RoomsOK'
      BY <2>3, <2>4 DEF Inv, RoomsOK
    <2>8. TypeOK'
      BY <1>2, <2>4, <2>5, <2>6, <2>7 DEF Inv, TypeOK, RoomsOK, RoomOK
    <2>9. SeatsHaveSessions'
      <3>1. \A u \in DOMAIN sessions' :
              sessions'[u].player \in Members(rooms'[sessions'[u].room])
        BY <2>1, <2>2, <2>3, <2>4, <2>6 DEF Inv, SeatsHaveSessions
      <3>2. ASSUME NEW q \in RoomIds, NEW i \in Members(rooms'[q])
            PROVE  \E u \in DOMAIN sessions' : sessions'[u].room = q /\ sessions'[u].player = i
        <4>1. i \in Members(rooms[q]) /\ (q = r => i # id)
          BY <3>2, <2>3, <2>4
        <4>2. PICK u \in DOMAIN sessions : sessions[u].room = q /\ sessions[u].player = i
          BY <4>1 DEF Inv, SeatsHaveSessions
        <4> QED BY <4>1, <4>2, <2>6
      <3>3. \A u, v \in DOMAIN sessions' :
              sessions'[u].room = sessions'[v].room /\ sessions'[u].player = sessions'[v].player
                => u = v
        BY <2>6 DEF Inv, SeatsHaveSessions
      <3> QED BY <3>1, <3>2, <3>3 DEF SeatsHaveSessions
    <2>10. BindingsAreOnline'
      BY <2>1, <2>6 DEF Inv, BindingsAreOnline
    <2>11. ConnectionsAgree'
      BY <2>1, <2>2, <2>3, <2>4, <2>6, <2>9 DEF Inv, ConnectionsAgree, SeatsHaveSessions
    <2> QED BY <1>2, <2>7, <2>8, <2>9, <2>10, <2>11 DEF Inv, SavedOK
  <1> QED BY <1>1, <1>2 DEF HandleLeave, LeaveRoom, EraseByConnection, NotInRoom, Identity

\* Expired sessions and their seats go together; they have no binding.
LEMMA TimeoutsKeepInv ==
    ASSUME Inv, HandleSessionTimeouts
    PROVE  Inv'
  <1> DEFINE gone    == {t \in Expired : CanLeave(rooms[sessions[t].room], sessions[t].player)}
             Gone(r) == {sessions[t].player : t \in {u \in gone : sessions[u].room = r}}
             after   == [r \in RoomIds |-> RemoveMembers(rooms[r], Gone(r))]
             Left(c) == UNION {Gone(r) : r \in {q \in RoomIds : c \in Connections(after[q], 0)}}
  <1>1. /\ rooms' = after
        /\ sessions' = Drop(sessions, gone)
        /\ Send({c \in Conns : Left(c) # {}}, [c \in Conns |-> roster[c] \ Left(c)])
        /\ UNCHANGED <<bindings, conns, saved, restarts>>
    BY DEF HandleSessionTimeouts
  <1>2. \A t \in gone : t \in DOMAIN sessions /\ sessions[t].state = "offline"
    BY DEF Expired
  <1>3. DOMAIN rooms' = RoomIds
    BY <1>1
  <1>4. ASSUME NEW r \in RoomIds
        PROVE  /\ RoomOK(rooms'[r])
               /\ Members(rooms'[r]) = Members(rooms[r]) \ Gone(r)
               /\ \A i \in Members(rooms'[r]) : rooms'[r].members[i] = rooms[r].members[i]
    <2>1. rooms'[r] = RemoveMembers(rooms[r], Gone(r))
      BY <1>1
    <2>2. RoomOK(rooms[r])
      BY DEF Inv, RoomsOK
    <2> HIDE DEF Gone
    <2> QED BY <2>1, <2>2, RemoveMembersOK
  <1>5. roster' \in [Conns -> SUBSET PlayerIds] /\ doomed' \subseteq Conns
    <2> HIDE DEF Left
    <2>1. [c \in Conns |-> roster[c] \ Left(c)] \in [Conns -> SUBSET PlayerIds]
      BY DEF Inv, TypeOK
    <2>2. {c \in Conns : Left(c) # {}} \subseteq Conns
      OBVIOUS
    <2> QED BY <1>1, <2>1, <2>2, SendTypes DEF Inv
  <1>6. ASSUME NEW t \in DOMAIN sessions, t \notin gone
        PROVE  /\ sessions[t].room \in RoomIds
               /\ sessions[t].player \in Members(rooms[sessions[t].room])
               /\ sessions[t].player \notin Gone(sessions[t].room)
    <2>1. /\ sessions[t].room \in RoomIds
          /\ sessions[t].player \in Members(rooms[sessions[t].room])
      BY DEF Inv, TypeOK, Session, SeatsHaveSessions
    <2>2. \A u \in gone : ~ (sessions[u].room = sessions[t].room
                             /\ sessions[u].player = sessions[t].player)
      BY <1>2, <1>6 DEF Inv, SeatsHaveSessions
    <2> HIDE DEF gone
    <2> QED BY <2>1, <2>2
  <1>7. /\ DOMAIN sessions' = DOMAIN sessions \ gone
        /\ \A t \in DOMAIN sessions' : sessions'[t] = sessions[t]
    BY <1>1 DEF Drop
  <1>8. RoomsOK'
    BY <1>4 DEF RoomsOK
  <1>9. TypeOK'
    BY <1>1, <1>3, <1>5, <1>7, <1>8 DEF Inv, TypeOK, RoomsOK, RoomOK
  <1>10. SeatsHaveSessions'
    <2>1. \A u \in DOMAIN sessions' :
            sessions'[u].player \in Members(rooms'[sessions'[u].room])
      <3> HIDE DEF gone, Gone
      <3> QED BY <1>4, <1>6, <1>7
    <2>2. ASSUME NEW q \in RoomIds, NEW i \in Members(rooms'[q])
          PROVE  \E u \in DOMAIN sessions' : sessions'[u].room = q /\ sessions'[u].player = i
      <3>1. i \in Members(rooms[q]) /\ i \notin Gone(q)
        BY <1>4, <2>2
      <3>2. PICK u \in DOMAIN sessions : sessions[u].room = q /\ sessions[u].player = i
        BY <3>1 DEF Inv, SeatsHaveSessions
      <3>3. u \notin gone
        BY <3>1, <3>2
      <3> QED BY <3>2, <3>3, <1>7
    <2>3. \A u, v \in DOMAIN sessions' :
            sessions'[u].room = sessions'[v].room /\ sessions'[u].player = sessions'[v].player
              => u = v
      BY <1>7 DEF Inv, SeatsHaveSessions
    <2> QED BY <2>1, <2>2, <2>3 DEF SeatsHaveSessions
  <1>11. BindingsAreOnline'
    <2>1. \A c \in DOMAIN bindings : bindings[c] \notin gone
      BY <1>2 DEF Inv, BindingsAreOnline
    <2> HIDE DEF gone
    <2> QED BY <1>1, <1>7, <2>1 DEF Inv, BindingsAreOnline
  <1>12. ConnectionsAgree'
    <2> HIDE DEF gone, Gone
    <2>1. \A u \in DOMAIN sessions' :
            rooms'[sessions[u].room].members[sessions[u].player]
              = rooms[sessions[u].room].members[sessions[u].player]
      BY <1>4, <1>6, <1>7
    <2> QED BY <1>1, <1>7, <2>1 DEF Inv, ConnectionsAgree
  <1> QED BY <1>1, <1>8, <1>9, <1>10, <1>11, <1>12 DEF Inv, SavedOK

\* The close of the bound connection detaches member and session together.
LEMMA ClosedKeepsInv ==
    ASSUME Inv, NEW c \in Conns, HandleConnectionClosed(c)
    PROVE  Inv'
  <1>1. /\ conns' \in [Conns -> ConnState]
        /\ UNCHANGED <<roster, doomed, saved, restarts>>
    BY DEF HandleConnectionClosed, Inv, TypeOK, ConnState
  <1>2. CASE UNCHANGED <<rooms, sessions, bindings>>
    BY <1>1, <1>2, TablesUnchanged DEF Inv, TypeOK
  <1>3. CASE /\ Bound(c)
             /\ CanDetach(rooms[Identity(c).room], Identity(c).player, c)
             /\ rooms' = [rooms EXCEPT ![Identity(c).room] = Detach(@, Identity(c).player)]
             /\ IF Identity(c).state = "online" /\ Identity(c).conn = c
                THEN /\ sessions' = [sessions EXCEPT ![bindings[c]] = Offline(@)]
                     /\ bindings' = Drop(bindings, {c})
                ELSE UNCHANGED <<sessions, bindings>>
    <2> DEFINE t  == bindings[c]
               r  == sessions[t].room
               id == sessions[t].player
               n  == Detach(rooms[r], id)
    <2>1. /\ c \in DOMAIN bindings
          /\ t \in DOMAIN sessions
          /\ sessions[t] \in Session
          /\ rooms[r].members[id] = c
      BY <1>3 DEF Bound, LookupState, Identity, CanDetach, Inv, TypeOK
    <2>2. sessions[t].state = "online" /\ sessions[t].conn = c
      BY <2>1 DEF Inv, BindingsAreOnline, ConnectionsAgree
    <2>3. /\ sessions' = [sessions EXCEPT ![t] = Offline(@)]
          /\ bindings' = Drop(bindings, {c})
      BY <1>3, <2>2 DEF Identity
    <2>4. \A u \in DOMAIN sessions :
             /\ sessions[u].room \in RoomIds
             /\ sessions[u].player \in Members(rooms[sessions[u].room])
      BY DEF Inv, TypeOK, Session, SeatsHaveSessions
    <2>5. /\ RoomOK(n)
          /\ Members(n) = Members(rooms[r])
          /\ n.members = [rooms[r].members EXCEPT ![id] = NoConn]
      BY <2>1, <2>4, DetachOK DEF Inv, RoomsOK
    <2>6. /\ n.members[id] = NoConn
          /\ \A i \in Members(rooms[r]) : i # id => n.members[i] = rooms[r].members[i]
      BY <2>1, <2>4, <2>5 DEF Members
    <2>7. /\ DOMAIN rooms' = RoomIds
          /\ rooms'[r] = n
          /\ \A q \in RoomIds : q # r => rooms'[q] = rooms[q]
      BY <1>3, <2>1, <2>4 DEF Inv, TypeOK, Identity
    <2> HIDE DEF n
    <2>8. /\ DOMAIN sessions' = DOMAIN sessions
          /\ sessions'[t] = Offline(sessions[t])
          /\ \A u \in DOMAIN sessions : u # t => sessions'[u] = sessions[u]
      BY <2>1, <2>3
    <2>9. /\ sessions'[t] \in Session
          /\ sessions'[t].room = r
          /\ sessions'[t].player = id
          /\ sessions'[t].state = "offline"
          /\ sessions'[t].conn = NoConn
      BY <2>1, <2>8, OfflineOK
    <2>10. /\ DOMAIN bindings' = DOMAIN bindings \ {c}
           /\ \A d \in DOMAIN bindings' : bindings'[d] = bindings[d]
      BY <2>3 DEF Drop
    <2>11. RoomsOK'
      BY <2>5, <2>7 DEF Inv, RoomsOK
    <2>12. TypeOK'
      BY <1>1, <2>7, <2>8, <2>9, <2>10, <2>11 DEF Inv, TypeOK, RoomsOK, RoomOK
    <2>13. SeatsHaveSessions'
      <3>1. \A u \in DOMAIN sessions :
              sessions'[u].room = sessions[u].room /\ sessions'[u].player = sessions[u].player
        BY <2>8, <2>9
      <3>2. \A q \in RoomIds : Members(rooms'[q]) = Members(rooms[q])
        BY <2>5, <2>7
      <3> QED BY <2>4, <2>8, <3>1, <3>2 DEF Inv, SeatsHaveSessions
    <2>14. BindingsAreOnline'
      BY <2>1, <2>8, <2>9, <2>10 DEF Inv, BindingsAreOnline
    <2>15. ConnectionsAgree'
      <3> SUFFICES ASSUME NEW u \in DOMAIN sessions'
                   PROVE  LET s == sessions'[u]
                          IN  /\ rooms'[s.room].members[s.player] = s.conn
                              /\ s.state = "offline" => s.conn = NoConn
                              /\ s.conn # NoConn =>
                                   s.conn \in DOMAIN bindings' /\ bindings'[s.conn] = u
        BY DEF ConnectionsAgree
      <3>1. CASE u = t
        BY <3>1, <2>6, <2>7, <2>9
      <3>2. CASE u # t
        <4>1. sessions'[u] = sessions[u] /\ u \in DOMAIN sessions
          BY <3>2, <2>8
        <4>2. sessions[u].room = r => sessions[u].player # id
          BY <3>2, <4>1, <2>1 DEF Inv, SeatsHaveSessions
        <4>3. rooms'[sessions[u].room].members[sessions[u].player]
                = rooms[sessions[u].room].members[sessions[u].player]
          BY <4>1, <4>2, <2>4, <2>6, <2>7
        <4>4. sessions[u].conn # NoConn => sessions[u].conn # c
          BY <3>2, <4>1 DEF Inv, ConnectionsAgree
        <4> QED BY <4>1, <4>3, <4>4, <2>10 DEF Inv, ConnectionsAgree
      <3> QED BY <3>1, <3>2
    <2> QED BY <1>1, <2>11, <2>12, <2>13, <2>14, <2>15 DEF Inv, SavedOK
  <1> QED BY <1>2, <1>3 DEF HandleConnectionClosed, DetachConnection, DetachSession

\* A restored server has the seats and the sessions of the checkpoint, all of
\* them offline.
LEMMA RestartKeepsInv ==
    ASSUME Inv, Restart
    PROVE  Inv'
  <1>1. /\ DOMAIN rooms' = RoomIds
        /\ \A r \in RoomIds :
             /\ RoomOK(rooms'[r])
             /\ Members(rooms'[r]) = saved.rooms[r].members
             /\ \A id \in Members(rooms'[r]) : rooms'[r].members[id] = NoConn
    <2>1. DOMAIN rooms' = RoomIds /\ \A r \in RoomIds : rooms'[r] = RestoredRoom(saved.rooms[r])
      BY DEF Restart
    <2>2. ASSUME NEW r \in RoomIds
          PROVE  /\ RoomCheckpointOK(saved.rooms[r])
                 /\ CanRestoreRoom(saved.rooms[r], saved.rooms[r].capacity)
      BY DEF Restart, CanRestore, Inv, SavedOK
    <2> QED BY <2>1, <2>2, RestoredRoomOK DEF RoomCheckpointOK
  <1>2. /\ DOMAIN saved.sessions \subseteq Tokens
        /\ \A t \in DOMAIN saved.sessions :
             /\ saved.sessions[t] \in [room : RoomIds, player : PlayerIds]
             /\ saved.sessions[t].room \in RoomIds
    BY DEF Inv, SavedOK
  <1>3. /\ DOMAIN sessions' = DOMAIN saved.sessions
        /\ \A t \in DOMAIN saved.sessions : sessions'[t] = RestoredSession(saved.sessions[t])
    BY DEF Restart
  <1>4. \A t \in DOMAIN saved.sessions :
          /\ sessions'[t] \in Session
          /\ sessions'[t].room = saved.sessions[t].room
          /\ sessions'[t].player = saved.sessions[t].player
          /\ sessions'[t].state = "offline"
          /\ sessions'[t].conn = NoConn
    BY <1>2, <1>3, RestoredSessionOK
  <1>5. DOMAIN bindings' = {}
    BY DEF Restart, NoBindings
  <1>6. /\ UNCHANGED saved
        /\ conns' \in [Conns -> ConnState]
        /\ roster' \in [Conns -> SUBSET PlayerIds]
        /\ doomed' \subseteq Conns
        /\ restarts' \in Nat
    BY DEF Restart, ConnState, Inv, TypeOK
  <1>7. TypeOK' /\ RoomsOK'
    BY <1>1, <1>2, <1>3, <1>4, <1>5, <1>6 DEF TypeOK, RoomsOK, RoomOK
  <1>8. SeatsHaveSessions'
    <2> DEFINE owners == {<<saved.sessions[t].room, saved.sessions[t].player>> :
                             t \in DOMAIN saved.sessions}
               seats  == UNION {{r} \X saved.rooms[r].members : r \in RoomIds}
    <2>1. owners = seats
      BY DEF Restart, CanRestore, IdentitiesMatch
    <2>2. \A t \in DOMAIN saved.sessions :
            saved.sessions[t].player \in saved.rooms[saved.sessions[t].room].members
      <3> SUFFICES ASSUME NEW t \in DOMAIN saved.sessions
                   PROVE  saved.sessions[t].player \in saved.rooms[saved.sessions[t].room].members
        OBVIOUS
      <3>1. <<saved.sessions[t].room, saved.sessions[t].player>> \in seats
        BY <2>1
      <3> QED BY <3>1
    <2>3. \A r \in RoomIds : \A id \in saved.rooms[r].members :
            \E t \in DOMAIN saved.sessions :
              saved.sessions[t].room = r /\ saved.sessions[t].player = id
      <3> SUFFICES ASSUME NEW r \in RoomIds, NEW id \in saved.rooms[r].members
                   PROVE  \E t \in DOMAIN saved.sessions :
                            saved.sessions[t].room = r /\ saved.sessions[t].player = id
        OBVIOUS
      <3>1. <<r, id>> \in {r} \X saved.rooms[r].members
        OBVIOUS
      <3>2. <<r, id>> \in seats
        BY <3>1
      <3>3. <<r, id>> \in owners
        BY <2>1, <3>2
      <3> QED BY <3>3
    <2>4. ASSUME NEW t \in DOMAIN saved.sessions, NEW u \in DOMAIN saved.sessions,
                 saved.sessions[t].room = saved.sessions[u].room,
                 saved.sessions[t].player = saved.sessions[u].player
          PROVE  t = u
      <3>1. saved.sessions[t] = saved.sessions[u]
        BY <1>2, <2>4
      <3> QED BY <3>1 DEF Restart, CanRestore
    <2> HIDE DEF owners, seats
    <2> QED BY <1>1, <1>2, <1>3, <1>4, <2>2, <2>3, <2>4 DEF SeatsHaveSessions
  <1>9. BindingsAreOnline'
    BY <1>3, <1>4, <1>5 DEF BindingsAreOnline
  <1>10. ConnectionsAgree'
    BY <1>1, <1>2, <1>3, <1>4, <1>8 DEF ConnectionsAgree, SeatsHaveSessions
  <1> QED BY <1>6, <1>7, <1>8, <1>9, <1>10 DEF Inv, SavedOK

-----------------------------------------------------------------------------

\* Every step keeps the invariant.
LEMMA NextKeepsInv ==
    ASSUME Inv, [Next]_vars
    PROVE  Inv'
  <1>1. CASE UNCHANGED vars
    BY <1>1, TablesUnchanged DEF Inv, TypeOK, vars
  <1>2. ASSUME NEW c \in Conns, Request(c) PROVE Inv'
    <2>1. ASSUME NEW r, NEW name_ok \in BOOLEAN, HandleJoin(c, r, name_ok) PROVE Inv'
      BY <2>1, JoinKeepsInv
    <2>2. ASSUME NEW t \in Tokens, HandleResume(c, t) PROVE Inv'
      BY <2>2, ResumeKeepsInv
    <2>3. ASSUME HandleLeave(c) PROVE Inv'
      BY <2>3, LeaveKeepsInv
    <2>4. ASSUME NEW message_ok \in BOOLEAN, HandleChat(c, message_ok) PROVE Inv'
      BY <2>4, ChatKeepsInv
    <2>5. ASSUME NEW dx, NEW dy, HandleMove(c, dx, dy) PROVE Inv'
      BY <2>5, CommandKeepsInv DEF HandleMove
    <2>6. ASSUME NEW target, HandleAttack(c, target) PROVE Inv'
      BY <2>6, CommandKeepsInv DEF HandleAttack
    <2>7. ASSUME HandleMalformed(c) PROVE Inv'
      BY <2>7, ErrorKeepsInv DEF HandleMalformed
    <2> QED BY <1>2, <2>1, <2>2, <2>3, <2>4, <2>5, <2>6, <2>7 DEF Request
  <1>3. ASSUME NEW c \in Conns, Accept(c) \/ Free(c) \/ HandleConnectionClosed(c) PROVE Inv'
    BY <1>3, AcceptKeepsInv, FreeKeepsInv, ClosedKeepsInv
  <1>4. ASSUME Advance \/ HandleTick \/ HandleSessionTimeouts PROVE Inv'
    BY <1>4, AdvanceKeepsInv, TickKeepsInv, TimeoutsKeepInv
  <1>5. ASSUME SaveCheckpoint \/ Restart PROVE Inv'
    BY <1>5, SaveKeepsInv, RestartKeepsInv
  <1> QED BY <1>1, <1>2, <1>3, <1>4, <1>5 DEF Next

\* The invariant holds in every state of RoomService.
THEOREM Invariance == Spec => []Inv
  BY InitInv, NextKeepsInv, PTL DEF Spec

\* The tables and variables of RoomService always hold values of their kinds.
THEOREM TypeCorrect == Spec => []TypeOK
  <1>1. Inv => TypeOK
    BY DEF Inv
  <1> QED BY <1>1, Invariance, PTL

\* Every member has exactly one session and every session a seat, through every
\* join, rollback, resume, leave, timeout, close and restart.
THEOREM SeatsAlwaysHaveSessions == Spec => []SeatsHaveSessions
  <1>1. Inv => SeatsHaveSessions
    BY DEF Inv
  <1> QED BY <1>1, Invariance, PTL

\* Bindings and online sessions correspond one to one, even if frames are
\* handled after the close of their connection.
THEOREM BindingsAlwaysOnline == Spec => []BindingsAreOnline
  <1>1. Inv => BindingsAreOnline
    BY DEF Inv
  <1> QED BY <1>1, Invariance, PTL

\* Room and session always refer to the same connection, none while offline; a
\* connection they refer to is bound to that session.
THEOREM ConnectionsAlwaysAgree == Spec => []ConnectionsAgree
  <1>1. Inv => ConnectionsAgree
    BY DEF Inv
  <1> QED BY <1>1, Invariance, PTL

\* The game of a room holds exactly its members once it has started.
THEOREM GamesAlwaysMatchMembers == Spec => []GamesMatchMembers
  <1>1. Inv => GamesMatchMembers
    BY DEF Inv, RoomsOK, RoomOK, GameMatches, GamesMatchMembers
  <1> QED BY <1>1, Invariance, PTL

-----------------------------------------------------------------------------
(* Rooms stay sound and checkpoints acceptable. *)

RoomsSound == \A r \in RoomIds : SoundRoom(rooms[r])

SavedSound ==
    /\ CanRestore(saved)
    /\ \A r \in RoomIds : GameOK(saved.rooms[r].game_states)

\* A checkpoint taken in a good state passes every check made while it is
\* restored (identities_match, Room::restore_checkpoint, restore_sessions).
LEMMA CheckpointSound ==
    ASSUME Inv, RoomsSound
    PROVE  /\ CanRestore(Checkpoint)
           /\ \A r \in RoomIds : GameOK(Checkpoint.rooms[r].game_states)
  <1>1. \A r \in RoomIds : Checkpoint.rooms[r] = MakeRoomCheckpoint(rooms[r])
    BY DEF Checkpoint
  <1>2. /\ DOMAIN Checkpoint.sessions = DOMAIN sessions
        /\ \A t \in DOMAIN sessions :
             /\ Checkpoint.sessions[t].room = sessions[t].room
             /\ Checkpoint.sessions[t].player = sessions[t].player
    BY DEF Checkpoint
  <1>3. ASSUME NEW r \in RoomIds
        PROVE  /\ CanRestoreRoom(Checkpoint.rooms[r], Checkpoint.rooms[r].capacity)
               /\ GameOK(Checkpoint.rooms[r].game_states)
               /\ Checkpoint.rooms[r].members = Members(rooms[r])
    <2>1. MakeRoomCheckpoint(rooms[r]).capacity = rooms[r].capacity
      BY DEF MakeRoomCheckpoint
    <2>2. MakeRoomCheckpoint(rooms[r]).members = Members(rooms[r])
      BY DEF MakeRoomCheckpoint
    <2> QED BY <1>1, <2>1, <2>2, SoundIsRestorable DEF RoomsSound
  <1> DEFINE cp == Checkpoint
  <1> HIDE DEF cp
  <1>4. IdentitiesMatch(Checkpoint)
    <2> DEFINE owners == {<<cp.sessions[t].room, cp.sessions[t].player>> :
                             t \in DOMAIN cp.sessions}
               seats  == UNION {{r} \X cp.rooms[r].members : r \in RoomIds}
    <2>1. \A t \in DOMAIN cp.sessions :
            /\ t \in DOMAIN sessions
            /\ cp.sessions[t].room = sessions[t].room
            /\ cp.sessions[t].player = sessions[t].player
            /\ sessions[t].room \in RoomIds
      BY <1>2 DEF cp, Inv, TypeOK, Session
    <2>2. ASSUME NEW p \in owners PROVE p \in seats
      <3>1. PICK t \in DOMAIN cp.sessions : p = <<cp.sessions[t].room, cp.sessions[t].player>>
        OBVIOUS
      <3>2. p = <<sessions[t].room, sessions[t].player>> /\ sessions[t].room \in RoomIds
        BY <2>1, <3>1
      <3>3. sessions[t].player \in cp.rooms[sessions[t].room].members
        BY <1>3, <2>1 DEF cp, Inv, SeatsHaveSessions
      <3>4. p \in {sessions[t].room} \X cp.rooms[sessions[t].room].members
        BY <3>2, <3>3
      <3> QED BY <3>2, <3>4
    <2>3. ASSUME NEW p \in seats PROVE p \in owners
      <3>1. PICK r \in RoomIds : p \in {r} \X cp.rooms[r].members
        OBVIOUS
      <3>2. PICK id \in cp.rooms[r].members : p = <<r, id>>
        BY <3>1
      <3>3. id \in Members(rooms[r])
        BY <1>3 DEF cp
      <3>4. PICK t \in DOMAIN sessions : sessions[t].room = r /\ sessions[t].player = id
        BY <3>3 DEF Inv, SeatsHaveSessions
      <3>5. t \in DOMAIN cp.sessions /\ cp.sessions[t].room = r /\ cp.sessions[t].player = id
        BY <1>2, <3>4 DEF cp
      <3> QED BY <3>2, <3>5
    <2>4. owners = seats
      BY <2>2, <2>3
    <2> QED BY <2>4 DEF IdentitiesMatch, cp
  <1>5. \A t, u \in DOMAIN Checkpoint.sessions :
          Checkpoint.sessions[t] = Checkpoint.sessions[u] => t = u
    <2>1. ASSUME NEW t \in DOMAIN sessions, NEW u \in DOMAIN sessions,
                 Checkpoint.sessions[t] = Checkpoint.sessions[u]
          PROVE  t = u
      <3>1. sessions[t].room = sessions[u].room /\ sessions[t].player = sessions[u].player
        BY <1>2, <2>1
      <3> QED BY <3>1 DEF Inv, SeatsHaveSessions
    <2> QED BY <1>2, <2>1
  <1> QED BY <1>3, <1>4, <1>5 DEF CanRestore

\* New rooms are sound and so is what would be saved of them.
LEMMA InitSound == Init => RoomsSound /\ SavedSound
  <1> SUFFICES ASSUME Init PROVE RoomsSound /\ SavedSound
    OBVIOUS
  <1>1. RoomsSound
    <2>1. PICK capacity \in Capacities : rooms = [r \in RoomIds |-> NewRoom(capacity[r])]
      BY DEF Init
    <2> QED BY <2>1, NewRoomSound, RoomServiceAssumption DEF RoomsSound
  <1>2. SavedSound
    BY <1>1, InitInv, CheckpointSound DEF Init, SavedSound
  <1> QED BY <1>1, <1>2

\* A handler that changes one room.
LEMMA OneRoomSound ==
    ASSUME Inv, RoomsSound, NEW r \in RoomIds, NEW n, SoundRoom(n),
           rooms' = [rooms EXCEPT ![r] = n]
    PROVE  RoomsSound'
  BY DEF Inv, TypeOK, RoomsSound

\* The identity a handler looks up.
LEMMA BoundIdentity ==
    ASSUME Inv, NEW c \in Conns, Bound(c)
    PROVE  /\ c \in DOMAIN bindings
           /\ bindings[c] \in DOMAIN sessions
           /\ Identity(c) = sessions[bindings[c]]
           /\ Identity(c) \in Session
           /\ Identity(c).room \in RoomIds
           /\ Identity(c).player \in PlayerIds
           /\ Identity(c).player \in Members(rooms[Identity(c).room])
  <1>1. /\ c \in DOMAIN bindings
        /\ bindings[c] \in DOMAIN sessions
        /\ Identity(c) = sessions[bindings[c]]
    BY DEF Bound, LookupState, Identity
  <1>2. Identity(c) \in Session
    BY <1>1 DEF Inv, TypeOK
  <1> QED BY <1>1, <1>2 DEF Session, Inv, SeatsHaveSessions

\* A request that changes a room: join, resume, leave, a command.
LEMMA RequestKeepsSound ==
    ASSUME Inv, RoomsSound, NEW c \in Conns, Request(c)
    PROVE  RoomsSound'
  <1>1. ASSUME UNCHANGED rooms PROVE RoomsSound'
    BY <1>1 DEF RoomsSound
  <1>2. ASSUME NEW r, NEW name_ok \in BOOLEAN, HandleJoin(c, r, name_ok) PROVE RoomsSound'
    <2> DEFINE id     == rooms[r].next_player_id
               joined == AddMember(rooms[r], c)
               undone == RemoveMembers(joined, {id})
    <2>1. CASE SendError(c)
      BY <1>1, <2>1 DEF SendError
    <2>2. ASSUME r \in RoomIds, JoinState(rooms[r], name_ok) = "success"
          PROVE  SoundRoom(joined) /\ SoundRoom(undone)
      BY <2>2, AddMemberSound, RemoveMembersSound DEF RoomsSound
    <2>3. ASSUME r \in RoomIds, JoinState(rooms[r], name_ok) = "success", ~ StartFails(joined)
          PROVE  SoundRoom(StartIfFull(joined))
      <3>1. SoundRoom(joined)
        BY <2>2, <2>3
      <3>2. MemberCount(joined) \in Nat /\ joined.capacity \in Nat
        BY <3>1, MembersFinite DEF SoundRoom, RoomOK, IsRoom, MemberCount
      <3> HIDE DEF joined
      <3>3. ~ (MemberCount(joined) < joined.capacity) => CanStart(joined)
        BY <2>3, <3>2 DEF StartFails
      <3> QED BY <3>1, <3>3, StartSound DEF StartIfFull
    <2>4. CASE /\ r \in RoomIds
               /\ JoinState(rooms[r], name_ok) = "success"
               /\ rooms' = [rooms EXCEPT ![r] = undone]
      BY <2>2, <2>4, OneRoomSound
    <2>5. CASE /\ r \in RoomIds
               /\ JoinState(rooms[r], name_ok) = "success"
               /\ ~ StartFails(joined)
               /\ rooms' = [rooms EXCEPT ![r] = StartIfFull(joined)]
      BY <2>3, <2>5, OneRoomSound
    <2> QED BY <1>2, <2>1, <2>4, <2>5 DEF HandleJoin
  <1>3. ASSUME NEW t \in Tokens, HandleResume(c, t) PROVE RoomsSound'
    <2>1. CASE SendError(c) \/ UNCHANGED vars
      BY <1>1, <2>1 DEF SendError, vars
    <2>2. CASE /\ ResumeState(c, t) = "success"
               /\ CanBind(rooms[sessions[t].room], sessions[t].player)
               /\ rooms' = [rooms EXCEPT ![sessions[t].room] = Bind(@, sessions[t].player, c)]
      <3>1. t \in DOMAIN sessions /\ sessions[t].room \in RoomIds
        BY <2>2 DEF ResumeState, Inv, TypeOK, Session
      <3>2. SoundRoom(Bind(rooms[sessions[t].room], sessions[t].player, c))
        BY <2>2, <3>1, BindSound DEF CanBind, RoomsSound
      <3> QED BY <2>2, <3>1, <3>2, OneRoomSound
    <2> QED BY <1>3, <2>1, <2>2 DEF HandleResume, BindConnection, ResumeState
  <1>4. ASSUME HandleLeave(c) PROVE RoomsSound'
    <2>1. CASE SendError(c)
      BY <1>1, <2>1 DEF SendError
    <2>2. CASE /\ Bound(c)
               /\ rooms' = [rooms EXCEPT ![Identity(c).room] = LeaveRoom(Identity(c))]
      <3>1. SoundRoom(LeaveRoom(Identity(c))) /\ Identity(c).room \in RoomIds
        BY <2>2, BoundIdentity, RemoveMembersSound DEF LeaveRoom, RoomsSound
      <3> QED BY <2>2, <3>1, OneRoomSound
    <2> QED BY <1>4, <2>1, <2>2 DEF HandleLeave, NotInRoom
  <1>5. ASSUME NEW message_ok \in BOOLEAN, HandleChat(c, message_ok) PROVE RoomsSound'
    BY <1>1, <1>5 DEF HandleChat, NotInRoom, SendError
  <1>6. ASSUME NEW command, HandleCommand(c, command),
               Bound(c) => command \in Command /\ command.player = Identity(c).player
        PROVE  RoomsSound'
    <2>1. CASE SendError(c)
      BY <1>1, <2>1 DEF SendError
    <2>2. CASE /\ Bound(c)
               /\ SubmitState(rooms[Identity(c).room], Identity(c).player) = "success"
               /\ rooms' = [rooms EXCEPT ![Identity(c).room] = Submit(@, command)]
      <3>1. Identity(c).room \in RoomIds
        BY <2>2, BoundIdentity
      <3>2. SoundRoom(Submit(rooms[Identity(c).room], command))
        BY <1>6, <2>2, <3>1, SubmitSound DEF RoomsSound
      <3> QED BY <2>2, <3>1, <3>2, OneRoomSound
    <2> QED BY <1>6, <2>1, <2>2 DEF HandleCommand, NotInRoom
  <1>7. ASSUME NEW step \in Moves, HandleMove(c, step[1], step[2]) PROVE RoomsSound'
    <2> DEFINE command == Move(Identity(c).player, step[1], step[2])
    <2>1. step[1] \in Int /\ step[2] \in Int
      BY RoomServiceAssumption
    <2>2. Bound(c) => command \in Command /\ command.player = Identity(c).player
      BY <2>1, BoundIdentity DEF Move, Command
    <2> QED BY <1>6, <1>7, <2>2 DEF HandleMove
  <1>8. ASSUME NEW target \in Targets, HandleAttack(c, target) PROVE RoomsSound'
    <2> DEFINE command == Attack(Identity(c).player, target)
    <2>1. target \in Nat
      BY RoomServiceAssumption
    <2>2. Bound(c) => command \in Command /\ command.player = Identity(c).player
      BY <2>1, BoundIdentity DEF Attack, Command
    <2> QED BY <1>6, <1>8, <2>2 DEF HandleAttack
  <1>9. ASSUME HandleMalformed(c) PROVE RoomsSound'
    BY <1>1, <1>9 DEF HandleMalformed, SendError
  <1> QED BY <1>2, <1>3, <1>4, <1>5, <1>7, <1>8, <1>9 DEF Request

\* The timers, closes, expired pointers and restarts keep the rooms sound.
LEMMA NextKeepsSound ==
    ASSUME Inv, RoomsSound, SavedSound, [Next]_vars
    PROVE  RoomsSound' /\ SavedSound'
  <1>0. Inv'
    BY NextKeepsInv
  <1>1. ASSUME UNCHANGED rooms PROVE RoomsSound'
    BY <1>1 DEF RoomsSound
  <1>2. ASSUME UNCHANGED saved PROVE SavedSound'
    BY <1>2 DEF SavedSound, CanRestore, IdentitiesMatch
  <1>3. CASE UNCHANGED vars
    BY <1>1, <1>2, <1>3 DEF vars
  <1>4. ASSUME NEW c \in Conns, Request(c) PROVE RoomsSound' /\ UNCHANGED saved
    <2>1. UNCHANGED saved
      BY <1>4 DEF Request, HandleJoin, HandleResume, HandleLeave, HandleChat, HandleMove,
                  HandleAttack, HandleCommand, HandleMalformed, NotInRoom, SendError, vars
    <2> QED BY <1>4, <2>1, RequestKeepsSound
  <1>5. ASSUME NEW c \in Conns, Accept(c) PROVE RoomsSound' /\ UNCHANGED saved
    BY <1>1, <1>5 DEF Accept
  <1>6. ASSUME NEW c \in Conns, Free(c) PROVE RoomsSound' /\ UNCHANGED saved
    <2>1. UNCHANGED saved /\ \A r \in RoomIds : rooms'[r] = Expire(rooms[r], c)
      BY <1>6 DEF Free
    <2> QED BY <2>1, ExpireSound DEF RoomsSound
  <1>7. ASSUME NEW c \in Conns, HandleConnectionClosed(c) PROVE RoomsSound' /\ UNCHANGED saved
    <2>1. CASE UNCHANGED <<rooms, sessions, bindings>>
      BY <1>1, <1>7, <2>1 DEF HandleConnectionClosed
    <2>2. CASE /\ Bound(c)
               /\ rooms' = [rooms EXCEPT ![Identity(c).room] = Detach(@, Identity(c).player)]
      <3>1. SoundRoom(Detach(rooms[Identity(c).room], Identity(c).player))
        BY <2>2, BoundIdentity, DetachSound DEF RoomsSound
      <3>2. RoomsSound'
        BY <2>2, <3>1, BoundIdentity, OneRoomSound
      <3> QED BY <1>7, <3>2 DEF HandleConnectionClosed
    <2> QED BY <1>7, <2>1, <2>2 DEF HandleConnectionClosed, DetachConnection
  <1>8. ASSUME Advance PROVE RoomsSound' /\ UNCHANGED saved
    BY <1>1, <1>8 DEF Advance
  <1>9. ASSUME HandleTick PROVE RoomsSound' /\ UNCHANGED saved
    <2>1. /\ UNCHANGED saved
          /\ \A r \in RoomIds : rooms'[r] = IF rooms[r].state = "running" THEN Tick(rooms[r])
                                            ELSE rooms[r]
      BY <1>9 DEF HandleTick, TickRooms
    <2> QED BY <2>1, TickSound DEF RoomsSound
  <1>10. ASSUME HandleSessionTimeouts PROVE RoomsSound' /\ UNCHANGED saved
    <2>1. UNCHANGED saved /\ \A r \in RoomIds : \E ids : rooms'[r] = RemoveMembers(rooms[r], ids)
      BY <1>10 DEF HandleSessionTimeouts
    <2> QED BY <2>1, RemoveMembersSound DEF RoomsSound
  <1>11. ASSUME SaveCheckpoint PROVE RoomsSound' /\ SavedSound'
    <2>1. UNCHANGED rooms /\ saved' = Checkpoint
      BY <1>11 DEF SaveCheckpoint
    <2>2. SavedSound'
      BY <2>1, CheckpointSound DEF SavedSound, CanRestore, IdentitiesMatch
    <2> QED BY <1>1, <2>1, <2>2
  <1>12. ASSUME Restart PROVE RoomsSound' /\ UNCHANGED saved
    <2>1. UNCHANGED saved /\ \A r \in RoomIds : rooms'[r] = RestoredRoom(saved.rooms[r])
      BY <1>12 DEF Restart
    <2>2. ASSUME NEW r \in RoomIds
          PROVE  /\ RoomCheckpointOK(saved.rooms[r])
                 /\ CanRestoreRoom(saved.rooms[r], saved.rooms[r].capacity)
                 /\ GameOK(saved.rooms[r].game_states)
      BY DEF Inv, SavedOK, SavedSound, CanRestore
    <2>3. ASSUME NEW r \in RoomIds PROVE SoundRoom(rooms'[r])
      BY <2>1, <2>2, RestoredRoomSound DEF RoomCheckpointOK
    <2> QED BY <2>1, <2>3 DEF RoomsSound
  <1> QED BY <1>2, <1>3, <1>4, <1>5, <1>6, <1>7, <1>8, <1>9, <1>10, <1>11, <1>12 DEF Next

\* Rooms are sound and the saved checkpoint is acceptable in every state.
THEOREM Soundness == Spec => [](RoomsSound /\ SavedSound)
  <1>1. Inv /\ (RoomsSound /\ SavedSound) /\ [Next]_vars => (RoomsSound /\ SavedSound)'
    BY NextKeepsSound
  <1> QED BY <1>1, InitSound, Invariance, PTL DEF Spec

\* A checkpoint can be taken at any time and the server that finds it on disk
\* accepts it.
THEOREM CheckpointsAlwaysRestorable == Spec => []CheckpointsAreRestorable
  <1>1. Inv /\ RoomsSound /\ SavedSound => CheckpointsAreRestorable
    BY CheckpointSound DEF SavedSound, CheckpointsAreRestorable
  <1> QED BY <1>1, Invariance, Soundness, PTL

\* At most one command of a player waits for the tick.
THEOREM OneCommandAlways == Spec => []OneCommandPerTick
  <1>1. RoomsSound => OneCommandPerTick
    BY DEF RoomsSound, SoundRoom, PendingOK, OnePerPlayer, OneCommandPerTick
  <1> QED BY <1>1, Soundness, PTL

-----------------------------------------------------------------------------
(* What a step may do to a session. *)

\* The connection of session t is closed in this step.
OwnClose(t) ==
    \E c \in Conns : sessions[t].conn = c /\ conns[c] = "open" /\ conns'[c] = "closed"

\* While the server runs, a session keeps its room and its player; it goes when
\* its player leaves or its window is over, and goes offline by its own close.
LEMMA SessionSteps ==
    ASSUME Inv, [Next]_vars, restarts' = restarts, NEW t \in DOMAIN sessions
    PROVE  /\ t \in DOMAIN sessions' => /\ sessions'[t].room = sessions[t].room
                                        /\ sessions'[t].player = sessions[t].player
           /\ t \notin DOMAIN sessions' => sessions[t].state = "online" \/ sessions[t].left = 0
           /\ /\ t \in DOMAIN sessions'
              /\ sessions[t].state = "online"
              /\ sessions'[t].state = "offline"
              => OwnClose(t)
  <1> DEFINE Goal == /\ t \in DOMAIN sessions' => /\ sessions'[t].room = sessions[t].room
                                                  /\ sessions'[t].player = sessions[t].player
                     /\ t \notin DOMAIN sessions' =>
                          sessions[t].state = "online" \/ sessions[t].left = 0
                     /\ /\ t \in DOMAIN sessions'
                        /\ sessions[t].state = "online"
                        /\ sessions'[t].state = "offline"
                        => OwnClose(t)
  <1> SUFFICES Goal
    OBVIOUS
  <1>1. ASSUME t \in DOMAIN sessions', sessions'[t] = sessions[t] PROVE Goal
    BY <1>1
  <1>2. ASSUME UNCHANGED sessions PROVE Goal
    BY <1>1, <1>2
  <1>3. sessions[t] \in Session
    BY DEF Inv, TypeOK
  <1>4. ASSUME NEW c \in Conns, NEW r, NEW name_ok \in BOOLEAN, HandleJoin(c, r, name_ok)
        PROVE  Goal
    <2>1. CASE UNCHANGED sessions
      BY <1>2, <2>1
    <2>2. CASE \E u \in Tokens \ DOMAIN sessions : \E s : sessions' = Put(sessions, u, s)
      <3>1. t \in DOMAIN sessions' /\ sessions'[t] = sessions[t]
        BY <2>2 DEF Put
      <3> QED BY <1>1, <3>1
    <2> QED BY <1>4, <2>1, <2>2 DEF HandleJoin, SendError
  <1>5. ASSUME NEW c \in Conns, NEW u \in Tokens, HandleResume(c, u) PROVE Goal
    <2>1. CASE UNCHANGED sessions
      BY <1>2, <2>1
    <2>2. CASE /\ u \in DOMAIN sessions
               /\ sessions' = [sessions EXCEPT ![u] = Online(@, c)]
      <3>1. CASE u = t
        <4>1. t \in DOMAIN sessions' /\ sessions'[t] = Online(sessions[t], c)
          BY <2>2, <3>1
        <4>2. /\ sessions'[t].room = sessions[t].room
              /\ sessions'[t].player = sessions[t].player
              /\ sessions'[t].state = "online"
          BY <1>3, <4>1, OnlineOK
        <4> QED BY <4>1, <4>2
      <3>2. CASE u # t
        BY <1>1, <2>2, <3>2
      <3> QED BY <3>1, <3>2
    <2> QED BY <1>5, <2>1, <2>2 DEF HandleResume, ResumeState, SendError, vars
  <1>6. ASSUME NEW c \in Conns, HandleLeave(c) PROVE Goal
    <2>1. CASE UNCHANGED sessions
      BY <1>2, <2>1
    <2>2. CASE Bound(c) /\ sessions' = Drop(sessions, {bindings[c]})
      <3>1. bindings[c] = t => sessions[t].state = "online"
        BY <2>2, BoundIdentity DEF Inv, BindingsAreOnline
      <3>2. /\ DOMAIN sessions' = DOMAIN sessions \ {bindings[c]}
            /\ \A u \in DOMAIN sessions' : sessions'[u] = sessions[u]
        BY <2>2 DEF Drop
      <3> QED BY <3>1, <3>2
    <2> QED BY <1>6, <2>1, <2>2 DEF HandleLeave, NotInRoom, SendError, EraseByConnection
  <1>7. ASSUME NEW c \in Conns, Request(c) PROVE Goal
    <2>1. ASSUME NEW message_ok \in BOOLEAN, HandleChat(c, message_ok) PROVE Goal
      BY <1>2, <2>1 DEF HandleChat, NotInRoom, SendError
    <2>2. ASSUME NEW command, HandleCommand(c, command) PROVE Goal
      BY <1>2, <2>2 DEF HandleCommand, NotInRoom, SendError
    <2>3. ASSUME HandleMalformed(c) PROVE Goal
      BY <1>2, <2>3 DEF HandleMalformed, SendError
    <2> HIDE DEF Goal
    <2> QED BY <1>4, <1>5, <1>6, <1>7, <2>1, <2>2, <2>3 DEF Request, HandleMove, HandleAttack
  <1>8. ASSUME NEW c \in Conns, Free(c) PROVE Goal
    <2>1. /\ t \in DOMAIN sessions'
          /\ sessions'[t] = IF sessions[t].conn = c THEN [sessions[t] EXCEPT !.conn = NoConn]
                            ELSE sessions[t]
      BY <1>8 DEF Free
    <2>2. /\ sessions'[t].room = sessions[t].room
          /\ sessions'[t].player = sessions[t].player
          /\ sessions'[t].state = sessions[t].state
      BY <1>3, <2>1 DEF Session
    <2> QED BY <2>1, <2>2
  <1>9. ASSUME Advance PROVE Goal
    <2>1. /\ t \in DOMAIN sessions'
          /\ sessions'[t] = IF sessions[t].state = "offline" /\ sessions[t].left > 0
                            THEN [sessions[t] EXCEPT !.left = @ - 1] ELSE sessions[t]
      BY <1>9 DEF Advance
    <2>2. /\ sessions'[t].room = sessions[t].room
          /\ sessions'[t].player = sessions[t].player
          /\ sessions'[t].state = sessions[t].state
      BY <1>3, <2>1 DEF Session
    <2> QED BY <2>1, <2>2
  <1>10. ASSUME HandleSessionTimeouts PROVE Goal
    <2>1. PICK gone : gone \subseteq Expired /\ sessions' = Drop(sessions, gone)
      BY <1>10 DEF HandleSessionTimeouts
    <2>2. /\ DOMAIN sessions' = DOMAIN sessions \ gone
          /\ \A u \in DOMAIN sessions' : sessions'[u] = sessions[u]
      BY <2>1 DEF Drop
    <2>3. t \in gone => sessions[t].left = 0
      BY <2>1 DEF Expired
    <2> QED BY <2>2, <2>3
  <1>11. ASSUME NEW c \in Conns, HandleConnectionClosed(c) PROVE Goal
    <2>1. CASE UNCHANGED sessions
      BY <1>2, <2>1
    <2>2. CASE /\ Bound(c)
               /\ Identity(c).conn = c
               /\ sessions' = [sessions EXCEPT ![bindings[c]] = Offline(@)]
      <3>1. /\ bindings[c] \in DOMAIN sessions
            /\ sessions[bindings[c]].conn = c
        BY <2>2, BoundIdentity
      <3>2. CASE t = bindings[c]
        <4>1. t \in DOMAIN sessions' /\ sessions'[t] = Offline(sessions[t])
          BY <2>2, <3>1, <3>2
        <4>2. /\ sessions'[t].room = sessions[t].room
              /\ sessions'[t].player = sessions[t].player
          BY <1>3, <4>1, OfflineOK
        <4>3. conns[c] = "open" /\ conns'[c] = "closed"
          BY <1>11 DEF HandleConnectionClosed, Inv, TypeOK
        <4>4. OwnClose(t)
          BY <3>1, <3>2, <4>3 DEF OwnClose
        <4> QED BY <4>1, <4>2, <4>4
      <3>3. CASE t # bindings[c]
        BY <1>1, <2>2, <3>1, <3>3
      <3> QED BY <3>2, <3>3
    <2> QED BY <1>11, <2>1, <2>2 DEF HandleConnectionClosed, DetachSession
  <1>12. ASSUME Restart PROVE FALSE
    BY <1>12 DEF Restart, Inv, TypeOK
  <1>13. ASSUME UNCHANGED vars PROVE Goal
    BY <1>2, <1>13 DEF vars
  <1>14. ASSUME NEW c \in Conns, Accept(c) PROVE Goal
    BY <1>2, <1>14 DEF Accept
  <1>15. ASSUME HandleTick \/ SaveCheckpoint PROVE Goal
    BY <1>2, <1>15 DEF HandleTick, SaveCheckpoint
  <1> HIDE DEF Goal
  <1> QED BY <1>7, <1>8, <1>9, <1>10, <1>11, <1>12, <1>13, <1>14, <1>15 DEF Next

\* Within its reconnection window a player keeps the seat and the session.
THEOREM SeatAlwaysKeptInWindow == Spec => SeatKeptInWindow
  <1> DEFINE A == restarts' = restarts =>
                    \A t \in DOMAIN sessions :
                      sessions[t].state = "offline" /\ sessions[t].left > 0 =>
                        /\ t \in DOMAIN sessions'
                        /\ sessions[t].player \in Members(rooms'[sessions[t].room])
  <1>1. ASSUME Inv, [Next]_vars PROVE A
    <2> SUFFICES ASSUME restarts' = restarts, NEW t \in DOMAIN sessions,
                        sessions[t].state = "offline", sessions[t].left > 0
                 PROVE  /\ t \in DOMAIN sessions'
                        /\ sessions[t].player \in Members(rooms'[sessions[t].room])
      OBVIOUS
    <2>1. /\ t \in DOMAIN sessions'
          /\ sessions'[t].room = sessions[t].room
          /\ sessions'[t].player = sessions[t].player
      BY <1>1, SessionSteps
    <2>2. SeatsHaveSessions'
      BY <1>1, NextKeepsInv DEF Inv
    <2> QED BY <2>1, <2>2 DEF SeatsHaveSessions
  <1>2. Inv /\ [Next]_vars => [A]_vars
    BY <1>1
  <1> QED BY <1>2, Invariance, PTL DEF Spec, SeatKeptInWindow

\* A session goes offline only by the close of the connection it is bound to.
THEOREM OwnCloseAlways == Spec => OwnCloseOnly
  <1> DEFINE A == restarts' = restarts =>
                    \A t \in DOMAIN sessions \cap DOMAIN sessions' :
                      sessions[t].state = "online" /\ sessions'[t].state = "offline" =>
                        \E c \in Conns : /\ sessions[t].conn = c
                                         /\ conns[c] = "open"
                                         /\ conns'[c] = "closed"
  <1>1. ASSUME Inv, [Next]_vars PROVE A
    BY <1>1, SessionSteps DEF OwnClose
  <1>2. Inv /\ [Next]_vars => [A]_vars
    BY <1>1
  <1> QED BY <1>2, Invariance, PTL DEF Spec, OwnCloseOnly

-----------------------------------------------------------------------------
(* What clients know of their rooms. *)

\* The weak pointer of a session points to an object that exists.
PointersAreLive ==
    \A t \in DOMAIN sessions : sessions[t].conn # NoConn => conns[sessions[t].conn] # "none"

RostersOK == RostersAreAccurate /\ PointersAreLive

\* A connection speaks for one member of one room.
LEMMA OneSeatPerConnection ==
    ASSUME Inv, NEW t \in DOMAIN sessions, sessions[t].conn # NoConn,
           NEW r \in RoomIds, NEW id \in Members(rooms[r]), rooms[r].members[id] = sessions[t].conn
    PROVE  r = sessions[t].room /\ id = sessions[t].player
  <1>1. PICK u \in DOMAIN sessions : sessions[u].room = r /\ sessions[u].player = id
    BY DEF Inv, SeatsHaveSessions
  <1>2. sessions[u].conn = sessions[t].conn
    BY <1>1 DEF Inv, ConnectionsAgree
  <1>3. u = t
    BY <1>2 DEF Inv, ConnectionsAgree
  <1> QED BY <1>1, <1>3

\* The connection of a session is among those a broadcast to its room reaches,
\* and no other broadcast reaches it.
LEMMA BroadcastReaches ==
    ASSUME Inv, NEW t \in DOMAIN sessions, sessions[t].conn \in Conns,
           NEW r \in RoomIds, NEW n,
           Members(n) \subseteq Members(rooms[r]),
           \A i \in Members(n) : n.members[i] = rooms[r].members[i],
           NEW excluded
    PROVE  sessions[t].conn \in Connections(n, excluded)
             <=> /\ sessions[t].room = r
                 /\ sessions[t].player \in Members(n) \ {excluded}
  <1>1. sessions[t].conn # NoConn
    BY RoomAssumption
  <1>2. ASSUME sessions[t].conn \in Connections(n, excluded)
        PROVE  sessions[t].room = r /\ sessions[t].player \in Members(n) \ {excluded}
    <2>1. PICK i \in Members(n) \ {excluded} : n.members[i] = sessions[t].conn
      BY <1>2 DEF Connections
    <2> QED BY <1>1, <2>1, OneSeatPerConnection
  <1>3. ASSUME sessions[t].room = r, sessions[t].player \in Members(n) \ {excluded}
        PROVE  sessions[t].conn \in Connections(n, excluded)
    <2>1. n.members[sessions[t].player] = sessions[t].conn
      BY <1>3 DEF Inv, ConnectionsAgree
    <2> QED BY <1>1, <1>3, <2>1 DEF Connections
  <1> QED BY <1>2, <1>3

\* After a send, whoever is not doomed was told, or was not addressed.
LEMMA SendTells ==
    ASSUME NEW STATE to, NEW STATE told, Send(to, told), NEW c \in Conns \ doomed'
    PROVE  /\ c \notin doomed
           /\ roster'[c] = IF c \in to THEN told[c] ELSE roster[c]
  BY DEF Send

\* A step that changes no session's place and no seat, and tells nobody anything.
LEMMA SameRosters ==
    ASSUME Inv, RostersOK, DOMAIN sessions' = DOMAIN sessions,
           \A t \in DOMAIN sessions :
             /\ sessions'[t].room = sessions[t].room
             /\ \/ sessions'[t].conn = NoConn
                \/ /\ sessions'[t].conn = sessions[t].conn
                   /\ sessions[t].conn # NoConn =>
                        /\ conns'[sessions[t].conn] # "none"
                        /\ roster'[sessions[t].conn] = roster[sessions[t].conn]
                        /\ sessions[t].conn \in doomed => sessions[t].conn \in doomed',
           \A r \in RoomIds : Members(rooms'[r]) = Members(rooms[r])
    PROVE  RostersOK'
  <1>1. \A t \in DOMAIN sessions : sessions[t].room \in RoomIds
    BY DEF Inv, TypeOK, Session
  <1>2. PointersAreLive'
    BY DEF PointersAreLive
  <1>3. RostersAreAccurate'
    BY <1>1, RoomAssumption DEF RostersOK, RostersAreAccurate
  <1> QED BY <1>2, <1>3 DEF RostersOK

\* Frames that say nothing about the members.
LEMMA SilentSend ==
    ASSUME Inv, RostersOK, NEW STATE to, Send(to, roster),
           UNCHANGED <<rooms, sessions, conns>>
    PROVE  RostersOK'
  <1>1. \A c \in Conns : roster'[c] = roster[c]
    BY DEF Send
  <1>2. doomed \subseteq doomed'
    BY DEF Send
  <1>3. \A t \in DOMAIN sessions : sessions[t].conn \in Conns \cup {NoConn}
    BY DEF Inv, TypeOK, Session
  <1> QED BY <1>1, <1>2, <1>3, SameRosters DEF RostersOK, PointersAreLive

\* join_ok tells the new member all of its room, player_joined the others of it.
LEMMA JoinKeepsRosters ==
    ASSUME Inv, RostersOK, NEW c \in Conns, NEW r, NEW name_ok \in BOOLEAN,
           HandleJoin(c, r, name_ok)
    PROVE  RostersOK'
  <1> DEFINE id     == rooms[r].next_player_id
             joined == AddMember(rooms[r], c)
             undone == RemoveMembers(joined, {id})
  <1>1. CASE SendError(c)
    BY <1>1, SilentSend DEF SendError
  <1>2. ASSUME r \in RoomIds, JoinState(rooms[r], name_ok) = "success"
        PROVE  /\ RoomOK(joined)
               /\ id \in PlayerIds
               /\ id \notin Members(rooms[r])
               /\ Members(joined) = Members(rooms[r]) \cup {id}
               /\ \A i \in Members(rooms[r]) : joined.members[i] = rooms[r].members[i]
               /\ Members(undone) = Members(rooms[r])
    <2>1. rooms[r].state = "waiting" /\ id # 0 /\ RoomOK(rooms[r])
      BY <1>2 DEF JoinState, Inv, RoomsOK
    <2>2. /\ RoomOK(joined)
          /\ id \in PlayerIds
          /\ id \notin Members(rooms[r])
          /\ Members(joined) = Members(rooms[r]) \cup {id}
          /\ \A i \in Members(rooms[r]) : joined.members[i] = rooms[r].members[i]
      BY <2>1, AddMemberOK
    <2> HIDE DEF joined
    <2>3. Members(undone) = Members(joined) \ {id}
      BY <2>2, RemoveMembersOK
    <2> HIDE DEF undone
    <2> QED BY <2>2, <2>3
  <1>3. CASE /\ r \in RoomIds
             /\ JoinState(rooms[r], name_ok) = "success"
             /\ rooms' = [rooms EXCEPT ![r] = undone]
             /\ UNCHANGED <<sessions, roster, doomed, conns>>
    <2>1. \A q \in RoomIds : Members(rooms'[q]) = Members(rooms[q])
      <3>1. Members(undone) = Members(rooms[r])
        BY <1>2, <1>3
      <3> HIDE DEF undone
      <3> QED BY <1>3, <3>1 DEF Inv, TypeOK
    <2> QED BY <1>3, <2>1, SameRosters DEF RostersOK, PointersAreLive
  <1>4. ASSUME r \in RoomIds, JoinState(rooms[r], name_ok) = "success",
               conns[c] # "none", c \notin DOMAIN bindings,
               NEW t \in Tokens \ DOMAIN sessions,
               rooms' = [rooms EXCEPT ![r] = StartIfFull(joined)],
               sessions' = Put(sessions, t, NewSession(r, id, c)),
               Send({c} \cup Connections(joined, id),
                    [d \in Conns |-> IF d = c THEN Members(joined) ELSE roster[d] \cup {id}]),
               UNCHANGED conns
        PROVE  RostersOK'
    <2> DEFINE to   == {c} \cup Connections(joined, id)
               told == [d \in Conns |-> IF d = c THEN Members(joined) ELSE roster[d] \cup {id}]
               n    == StartIfFull(joined)
    <2>1. Members(n) = Members(joined)
      BY <1>2, <1>4, StartOK DEF StartIfFull, Members
    <2>2. rooms'[r] = n /\ \A q \in RoomIds : q # r => rooms'[q] = rooms[q]
      BY <1>4 DEF Inv, TypeOK
    <2> HIDE DEF n
    <2>3. /\ DOMAIN sessions' = DOMAIN sessions \cup {t}
          /\ sessions'[t].room = r /\ sessions'[t].conn = c
          /\ \A u \in DOMAIN sessions : sessions'[u] = sessions[u]
      BY <1>4 DEF Put, NewSession
    <2>4. \A d \in Conns \ doomed' :
            /\ d \notin doomed
            /\ roster'[d] = IF d \in to THEN told[d] ELSE roster[d]
      BY <1>4, SendTells
    <2>5. \A u \in DOMAIN sessions :
            /\ sessions[u].room \in RoomIds
            /\ sessions[u].conn \in Conns =>
                 /\ sessions[u].conn # c
                 /\ conns[sessions[u].conn] # "none"
      BY <1>4, RoomAssumption DEF Inv, TypeOK, Session, ConnectionsAgree, RostersOK, PointersAreLive
    <2>6. PointersAreLive'
      BY <1>4, <2>3 DEF RostersOK, PointersAreLive
    <2>7. ASSUME NEW u \in DOMAIN sessions', sessions'[u].conn \in Conns \ doomed'
          PROVE  roster'[sessions'[u].conn] = Members(rooms'[sessions'[u].room])
      <3>1. CASE u = t
        BY <2>1, <2>2, <2>3, <2>4, <2>7, <3>1
      <3>2. CASE u # t
        <4> DEFINE d == sessions[u].conn
        <4>1. /\ u \in DOMAIN sessions /\ sessions'[u] = sessions[u]
              /\ d \in Conns /\ d \notin doomed /\ d # c
          BY <2>3, <2>4, <2>5, <2>7, <3>2
        <4>2. roster[d] = Members(rooms[sessions[u].room])
          BY <4>1 DEF RostersOK, RostersAreAccurate
        <4>3. d \in Connections(joined, id) <=> sessions[u].room = r
          <5>1. CASE sessions[u].room = r
            <6>1. /\ sessions[u].player \in Members(rooms[r])
                  /\ rooms[r].members[sessions[u].player] = d
              BY <4>1, <5>1 DEF Inv, SeatsHaveSessions, ConnectionsAgree
            <6>2. sessions[u].player \in Members(joined) \ {id}
              BY <1>2, <1>4, <6>1
            <6>3. joined.members[sessions[u].player] = d
              BY <1>2, <1>4, <6>1
            <6> QED BY <4>1, <5>1, <6>2, <6>3, RoomAssumption DEF Connections
          <5>2. CASE sessions[u].room # r
            <6>1. ASSUME d \in Connections(joined, id) PROVE FALSE
              <7>1. PICK i \in Members(joined) \ {id} : joined.members[i] = d
                BY <6>1 DEF Connections
              <7>2. i \in Members(rooms[r]) /\ rooms[r].members[i] = d
                BY <1>2, <1>4, <7>1
              <7> QED BY <1>4, <4>1, <5>2, <7>2, OneSeatPerConnection, RoomAssumption
            <6> QED BY <5>2, <6>1
          <5> QED BY <5>1, <5>2
        <4>4. roster'[d] = IF sessions[u].room = r THEN roster[d] \cup {id} ELSE roster[d]
          <5>1. roster'[d] = IF d \in to THEN told[d] ELSE roster[d]
            BY <2>4, <2>7, <4>1
          <5> QED BY <4>1, <4>3, <5>1
        <4>5. sessions[u].room \in RoomIds
          BY <2>5, <4>1
        <4>6. Members(n) = Members(rooms[r]) \cup {id}
          BY <1>2, <1>4, <2>1
        <4> QED BY <2>2, <4>1, <4>2, <4>4, <4>5, <4>6
      <3> QED BY <3>1, <3>2
    <2>8. RostersAreAccurate'
      BY <2>7 DEF RostersAreAccurate
    <2> QED BY <2>6, <2>8 DEF RostersOK
  <1> QED BY <1>1, <1>3, <1>4 DEF HandleJoin, LookupState

\* resume_ok tells the member all of its room.
LEMMA ResumeKeepsRosters ==
    ASSUME Inv, RostersOK, NEW c \in Conns, NEW t \in Tokens, HandleResume(c, t)
    PROVE  RostersOK'
  <1>1. CASE SendError(c)
    BY <1>1, SilentSend DEF SendError
  <1>2. CASE UNCHANGED vars
    BY <1>2, SameRosters DEF vars, RostersOK, PointersAreLive
  <1>3. CASE /\ conns[c] # "none"
             /\ ResumeState(c, t) = "success"
             /\ CanBind(rooms[sessions[t].room], sessions[t].player)
             /\ sessions' = [sessions EXCEPT ![t] = Online(@, c)]
             /\ rooms' = [rooms EXCEPT ![sessions[t].room] = Bind(@, sessions[t].player, c)]
             /\ Send({c}, [d \in Conns |-> Members(rooms[sessions[t].room])])
             /\ UNCHANGED conns
    <2>1. /\ c \notin DOMAIN bindings
          /\ t \in DOMAIN sessions
          /\ sessions[t] \in Session /\ sessions[t].room \in RoomIds
      BY <1>3 DEF ResumeState, Inv, TypeOK, Session
    <2>2. \A q \in RoomIds : Members(rooms'[q]) = Members(rooms[q])
      <3> DEFINE n == Bind(rooms[sessions[t].room], sessions[t].player, c)
      <3>1. Members(n) = Members(rooms[sessions[t].room])
        BY <1>3, <2>1, BindOK DEF CanBind, Inv, RoomsOK
      <3> HIDE DEF n
      <3> QED BY <1>3, <2>1, <3>1 DEF Inv, TypeOK, n
    <2>3. /\ DOMAIN sessions' = DOMAIN sessions
          /\ sessions'[t].room = sessions[t].room /\ sessions'[t].conn = c
          /\ \A u \in DOMAIN sessions : u # t => sessions'[u] = sessions[u]
      BY <1>3, <2>1, OnlineOK
    <2>4. \A d \in Conns \ doomed' :
            /\ d \notin doomed
            /\ roster'[d] = IF d \in {c} THEN Members(rooms[sessions[t].room]) ELSE roster[d]
      BY <1>3, SendTells
    <2>5. \A u \in DOMAIN sessions : /\ sessions[u].room \in RoomIds
                                     /\ sessions[u].conn \in Conns => sessions[u].conn # c
      BY <2>1, RoomAssumption DEF Inv, TypeOK, Session, ConnectionsAgree
    <2>6. PointersAreLive'
      BY <1>3, <2>3 DEF RostersOK, PointersAreLive
    <2>7. ASSUME NEW u \in DOMAIN sessions', sessions'[u].conn \in Conns \ doomed'
          PROVE  roster'[sessions'[u].conn] = Members(rooms'[sessions'[u].room])
      <3>1. CASE u = t
        BY <2>1, <2>2, <2>3, <2>4, <2>7, <3>1
      <3>2. CASE u # t
        BY <2>2, <2>3, <2>4, <2>5, <2>7, <3>2 DEF RostersOK, RostersAreAccurate
      <3> QED BY <3>1, <3>2
    <2> QED BY <2>6, <2>7 DEF RostersOK, RostersAreAccurate
  <1> QED BY <1>1, <1>2, <1>3 DEF HandleResume, BindConnection, ResumeState

\* player_left reaches the members who stay.
LEMMA LeaveKeepsRosters ==
    ASSUME Inv, RostersOK, NEW c \in Conns, HandleLeave(c)
    PROVE  RostersOK'
  <1>1. CASE SendError(c)
    BY <1>1, SilentSend DEF SendError
  <1> DEFINE t  == bindings[c]
             r  == sessions[t].room
             id == sessions[t].player
             n  == RemoveMembers(rooms[r], {id})
             to == {c} \cup Connections(n, 0)
             told == [d \in Conns |-> IF d = c THEN {} ELSE roster[d] \ {id}]
  <1>2. CASE /\ Bound(c)
             /\ rooms' = [rooms EXCEPT ![r] = n]
             /\ Send(to, told)
             /\ sessions' = Drop(sessions, {t})
             /\ UNCHANGED conns
    <2>1. /\ c \in DOMAIN bindings /\ t \in DOMAIN sessions
          /\ r \in RoomIds /\ id \in Members(rooms[r])
      BY <1>2, BoundIdentity
    <2>2. /\ Members(n) = Members(rooms[r]) \ {id}
          /\ \A i \in Members(n) : n.members[i] = rooms[r].members[i]
      BY <2>1, RemoveMembersOK DEF Inv, RoomsOK
    <2>3. rooms'[r] = n /\ \A q \in RoomIds : q # r => rooms'[q] = rooms[q]
      BY <1>2, <2>1 DEF Inv, TypeOK
    <2>4. /\ DOMAIN sessions' = DOMAIN sessions \ {t}
          /\ \A u \in DOMAIN sessions' : sessions'[u] = sessions[u]
      BY <1>2 DEF Drop
    <2>5. \A d \in Conns \ doomed' :
            /\ d \notin doomed
            /\ roster'[d] = IF d \in to THEN told[d] ELSE roster[d]
      BY <1>2, SendTells
    <2> HIDE DEF n
    <2>6. PointersAreLive'
      BY <1>2, <2>4 DEF RostersOK, PointersAreLive
    <2>7. ASSUME NEW u \in DOMAIN sessions', sessions'[u].conn \in Conns \ doomed'
          PROVE  roster'[sessions'[u].conn] = Members(rooms'[sessions'[u].room])
      <3> DEFINE d == sessions[u].conn
      <3>1. /\ u \in DOMAIN sessions /\ u # t /\ sessions'[u] = sessions[u]
            /\ d \in Conns /\ d \notin doomed /\ sessions[u].room \in RoomIds
        BY <2>4, <2>5, <2>7 DEF Inv, TypeOK, Session
      <3>2. d # c
        BY <3>1, RoomAssumption DEF Inv, ConnectionsAgree
      <3>3. roster[d] = Members(rooms[sessions[u].room])
        BY <3>1 DEF RostersOK, RostersAreAccurate
      <3>4. d \in Connections(n, 0) <=> /\ sessions[u].room = r
                                        /\ sessions[u].player \in Members(n) \ {0}
        BY <2>1, <2>2, <3>1, BroadcastReaches
      <3>5. /\ sessions[u].player # 0
            /\ sessions[u].room = r => sessions[u].player \in Members(n)
        BY <2>1, <2>2, <3>1 DEF Inv, TypeOK, Session, PlayerIds, SeatsHaveSessions
      <3>6. roster'[d] = IF sessions[u].room = r THEN roster[d] \ {id} ELSE roster[d]
        <4>1. roster'[d] = IF d \in to THEN told[d] ELSE roster[d]
          BY <2>5, <2>7, <3>1
        <4> QED BY <3>1, <3>2, <3>4, <3>5, <4>1
      <3> QED BY <2>2, <2>3, <3>1, <3>3, <3>6
    <2> QED BY <2>6, <2>7 DEF RostersOK, RostersAreAccurate
  <1> QED BY <1>1, <1>2 DEF HandleLeave, LeaveRoom, EraseByConnection, NotInRoom, Identity

\* Each player_left of a scan reaches those who stay in that room.
LEMMA TimeoutsKeepRosters ==
    ASSUME Inv, RostersOK, HandleSessionTimeouts
    PROVE  RostersOK'
  <1> DEFINE gone    == {t \in Expired : CanLeave(rooms[sessions[t].room], sessions[t].player)}
             Gone(r) == {sessions[t].player : t \in {u \in gone : sessions[u].room = r}}
             after   == [r \in RoomIds |-> RemoveMembers(rooms[r], Gone(r))]
             Left(c) == UNION {Gone(r) : r \in {q \in RoomIds : c \in Connections(after[q], 0)}}
             to      == {c \in Conns : Left(c) # {}}
             told    == [c \in Conns |-> roster[c] \ Left(c)]
  <1>1. /\ rooms' = after
        /\ sessions' = Drop(sessions, gone)
        /\ Send(to, told)
        /\ UNCHANGED conns
    BY DEF HandleSessionTimeouts
  <1>2. ASSUME NEW r \in RoomIds
        PROVE  /\ after[r] = RemoveMembers(rooms[r], Gone(r))
               /\ Members(after[r]) = Members(rooms[r]) \ Gone(r)
               /\ \A i \in Members(after[r]) : after[r].members[i] = rooms[r].members[i]
    <2>1. after[r] = RemoveMembers(rooms[r], Gone(r))
      OBVIOUS
    <2>2. RoomOK(rooms[r])
      BY DEF Inv, RoomsOK
    <2> HIDE DEF Gone, after
    <2> QED BY <2>1, <2>2, RemoveMembersOK
  <1>3. /\ DOMAIN sessions' = DOMAIN sessions \ gone
        /\ \A t \in DOMAIN sessions' : sessions'[t] = sessions[t]
    BY <1>1 DEF Drop
  <1>4. \A d \in Conns \ doomed' :
          /\ d \notin doomed
          /\ roster'[d] = IF d \in to THEN told[d] ELSE roster[d]
    <2> HIDE DEF to, told
    <2> QED BY <1>1, SendTells
  <1>5. PointersAreLive'
    BY <1>1, <1>3 DEF RostersOK, PointersAreLive
  <1>6. ASSUME NEW u \in DOMAIN sessions', sessions'[u].conn \in Conns \ doomed'
        PROVE  roster'[sessions'[u].conn] = Members(rooms'[sessions'[u].room])
    <2> DEFINE d == sessions[u].conn
               r == sessions[u].room
    <2>1. /\ u \in DOMAIN sessions /\ u \notin gone /\ sessions'[u] = sessions[u]
          /\ d \in Conns /\ d \notin doomed /\ r \in RoomIds
      BY <1>3, <1>4, <1>6 DEF Inv, TypeOK, Session
    <2>2. roster[d] = Members(rooms[r])
      BY <2>1 DEF RostersOK, RostersAreAccurate
    <2>3. sessions[u].player \in Members(after[r]) \ {0}
      <3>1. sessions[u].player \in Members(rooms[r]) /\ sessions[u].player # 0
        BY <2>1 DEF Inv, TypeOK, Session, PlayerIds, SeatsHaveSessions
      <3>2. \A v \in gone : ~ (sessions[v].room = r /\ sessions[v].player = sessions[u].player)
        BY <2>1 DEF Expired, Inv, SeatsHaveSessions
      <3>3. sessions[u].player \notin Gone(r)
        BY <3>2
      <3> HIDE DEF after, Gone
      <3> QED BY <1>2, <2>1, <3>1, <3>3
    <2>4. \A q \in RoomIds : d \in Connections(after[q], 0) <=> q = r
      <3> SUFFICES ASSUME NEW q \in RoomIds
                   PROVE  d \in Connections(after[q], 0) <=> q = r
        OBVIOUS
      <3>1. /\ Members(after[q]) \subseteq Members(rooms[q])
            /\ \A i \in Members(after[q]) : after[q].members[i] = rooms[q].members[i]
        BY <1>2
      <3> HIDE DEF after, Gone
      <3>2. d \in Connections(after[q], 0) <=> /\ r = q
                                               /\ sessions[u].player \in Members(after[q]) \ {0}
        BY <2>1, <3>1, BroadcastReaches
      <3> QED BY <2>3, <3>2
    <2>5. Left(d) = Gone(r)
      <3> HIDE DEF after, Gone
      <3> QED BY <2>1, <2>4
    <2>6. roster'[d] = roster[d] \ Left(d)
      <3>1. roster'[d] = IF d \in to THEN told[d] ELSE roster[d]
        BY <1>4, <1>6, <2>1
      <3> HIDE DEF Left
      <3> QED BY <2>1, <3>1
    <2>7. Members(rooms'[r]) = Members(rooms[r]) \ Gone(r)
      <3> HIDE DEF after, Gone
      <3> QED BY <1>1, <1>2, <2>1
    <2> HIDE DEF Left, Gone
    <2> QED BY <2>1, <2>2, <2>5, <2>6, <2>7
  <1> QED BY <1>5, <1>6 DEF RostersOK, RostersAreAccurate

\* The close of a connection takes it out of the room and of the session.
LEMMA ClosedKeepsRosters ==
    ASSUME Inv, RostersOK, NEW c \in Conns, HandleConnectionClosed(c)
    PROVE  RostersOK'
  <1>1. /\ UNCHANGED <<roster, doomed>>
        /\ \A d \in Conns : conns[d] # "none" => conns'[d] # "none"
    BY DEF HandleConnectionClosed, Inv, TypeOK
  <1>2. \A t \in DOMAIN sessions : /\ sessions[t].conn \in Conns \cup {NoConn}
                                   /\ sessions[t] \in Session
    BY DEF Inv, TypeOK, Session
  <1>3. CASE UNCHANGED <<rooms, sessions>>
    BY <1>1, <1>2, <1>3, SameRosters DEF RostersOK, PointersAreLive
  <1>4. CASE /\ Bound(c)
             /\ CanDetach(rooms[Identity(c).room], Identity(c).player, c)
             /\ rooms' = [rooms EXCEPT ![Identity(c).room] = Detach(@, Identity(c).player)]
             /\ \/ sessions' = [sessions EXCEPT ![bindings[c]] = Offline(@)]
                \/ UNCHANGED sessions
    <2> DEFINE t == bindings[c]
               r == sessions[t].room
               n == Detach(rooms[r], sessions[t].player)
    <2>1. /\ c \in DOMAIN bindings /\ t \in DOMAIN sessions
          /\ r \in RoomIds /\ sessions[t].player \in Members(rooms[r])
      BY <1>4, BoundIdentity
    <2>2. Members(n) = Members(rooms[r])
      BY <2>1, DetachOK DEF Inv, RoomsOK
    <2>3. rooms'[r] = n /\ \A q \in RoomIds : q # r => rooms'[q] = rooms[q]
      BY <1>4, <2>1 DEF Inv, TypeOK, Identity
    <2> HIDE DEF n
    <2>4. \A q \in RoomIds : Members(rooms'[q]) = Members(rooms[q])
      BY <2>2, <2>3
    <2>5. /\ DOMAIN sessions' = DOMAIN sessions
          /\ \A u \in DOMAIN sessions :
               /\ sessions'[u].room = sessions[u].room
               /\ sessions'[u].conn = NoConn \/ sessions'[u].conn = sessions[u].conn
      BY <1>2, <1>4, <2>1, OfflineOK
    <2> QED BY <1>1, <1>2, <2>4, <2>5, SameRosters DEF RostersOK, PointersAreLive
  <1> QED BY <1>3, <1>4 DEF HandleConnectionClosed, DetachConnection, DetachSession

\* An object that goes takes its weak pointers along; an object that comes at
\* its address has none.
LEMMA ObjectsKeepRosters ==
    ASSUME Inv, RostersOK, NEW c \in Conns, Accept(c) \/ Free(c)
    PROVE  RostersOK'
  <1>1. \A t \in DOMAIN sessions : sessions[t].conn \in Conns \cup {NoConn}
    BY DEF Inv, TypeOK, Session
  <1>2. CASE Accept(c)
    <2>1. \A d \in Conns : d # c => conns'[d] = conns[d] /\ roster'[d] = roster[d]
      BY <1>2 DEF Accept, Inv, TypeOK
    <2>2. \A t \in DOMAIN sessions : sessions[t].conn # NoConn => sessions[t].conn # c
      BY <1>2 DEF Accept, RostersOK, PointersAreLive
    <2>3. UNCHANGED <<rooms, sessions, doomed>>
      BY <1>2 DEF Accept
    <2> QED BY <1>1, <2>1, <2>2, <2>3, SameRosters DEF RostersOK, PointersAreLive
  <1>3. CASE Free(c)
    <2>1. \A r \in RoomIds : Members(rooms'[r]) = Members(rooms[r])
      BY <1>3, ExpireOK DEF Free, Inv, RoomsOK
    <2>2. \A d \in Conns : d # c => conns'[d] = conns[d] /\ (d \in doomed => d \in doomed')
      BY <1>3 DEF Free, Inv, TypeOK
    <2>3. /\ DOMAIN sessions' = DOMAIN sessions
          /\ \A t \in DOMAIN sessions :
               /\ sessions'[t].room = sessions[t].room
               /\ sessions'[t].conn = IF sessions[t].conn = c THEN NoConn ELSE sessions[t].conn
      BY <1>3 DEF Free, Inv, TypeOK, Session
    <2>4. UNCHANGED roster
      BY <1>3 DEF Free
    <2> QED BY <1>1, <2>1, <2>2, <2>3, <2>4, SameRosters DEF RostersOK, PointersAreLive
  <1> QED BY <1>2, <1>3

\* Commands, ticks and the clock change no seat.
LEMMA TimeKeepsRosters ==
    ASSUME Inv, RostersOK,
           \/ Advance \/ HandleTick \/ SaveCheckpoint
           \/ \E c \in Conns : \E command : HandleCommand(c, command) /\ ~ SendError(c)
    PROVE  RostersOK'
  <1>1. \A t \in DOMAIN sessions : sessions[t].conn \in Conns \cup {NoConn}
    BY DEF Inv, TypeOK, Session
  <1>2. CASE SaveCheckpoint
    BY <1>1, <1>2, SameRosters DEF SaveCheckpoint, RostersOK, PointersAreLive
  <1>3. CASE Advance
    <2>1. /\ DOMAIN sessions' = DOMAIN sessions
          /\ \A t \in DOMAIN sessions : /\ sessions'[t].room = sessions[t].room
                                        /\ sessions'[t].conn = sessions[t].conn
      BY <1>3 DEF Advance, Inv, TypeOK, Session
    <2> QED BY <1>1, <1>3, <2>1, SameRosters DEF Advance, RostersOK, PointersAreLive
  <1>4. CASE HandleTick
    <2>1. \A r \in RoomIds : rooms'[r] = Tick(rooms[r]) \/ rooms'[r] = rooms[r]
      BY <1>4 DEF HandleTick, TickRooms
    <2>2. \A r \in RoomIds : Members(rooms'[r]) = Members(rooms[r])
      BY <2>1, TickOK DEF Inv, RoomsOK, Members
    <2> QED BY <1>1, <1>4, <2>2, SameRosters DEF HandleTick, RostersOK, PointersAreLive
  <1>5. ASSUME NEW c \in Conns, NEW command, HandleCommand(c, command), ~ SendError(c)
        PROVE  RostersOK'
    <2> DEFINE q == Identity(c).room
    <2>1. /\ Bound(c)
          /\ rooms' = [rooms EXCEPT ![q] = Submit(@, command)]
          /\ UNCHANGED <<sessions, conns, roster, doomed>>
      BY <1>5 DEF HandleCommand, NotInRoom
    <2>2. q \in RoomIds
      BY <2>1, BoundIdentity DEF Identity
    <2>3. Submit(rooms[q], command).members = rooms[q].members
      BY <2>2, SubmitOK DEF Inv, RoomsOK
    <2>4. \A r \in RoomIds : Members(rooms'[r]) = Members(rooms[r])
      BY <2>1, <2>2, <2>3 DEF Inv, TypeOK, Members
    <2> QED BY <1>1, <2>1, <2>4, SameRosters DEF RostersOK, PointersAreLive
  <1> QED BY <1>2, <1>3, <1>4, <1>5

\* Every step keeps the rosters.
LEMMA NextKeepsRosters ==
    ASSUME Inv, RostersOK, [Next]_vars
    PROVE  RostersOK'
  <1>1. CASE UNCHANGED vars
    BY <1>1, SameRosters DEF vars, RostersOK, PointersAreLive
  <1>2. ASSUME NEW c \in Conns, SendError(c) PROVE RostersOK'
    BY <1>2, SilentSend DEF SendError
  <1>3. ASSUME NEW c \in Conns, Request(c) PROVE RostersOK'
    <2>1. ASSUME NEW r, NEW name_ok \in BOOLEAN, HandleJoin(c, r, name_ok) PROVE RostersOK'
      BY <2>1, JoinKeepsRosters
    <2>2. ASSUME NEW t \in Tokens, HandleResume(c, t) PROVE RostersOK'
      BY <2>2, ResumeKeepsRosters
    <2>3. ASSUME HandleLeave(c) PROVE RostersOK'
      BY <2>3, LeaveKeepsRosters
    <2>4. ASSUME NEW message_ok \in BOOLEAN, HandleChat(c, message_ok) PROVE RostersOK'
      <3>1. CASE /\ Send(Connections(rooms[Identity(c).room], 0), roster)
                 /\ UNCHANGED <<rooms, sessions, conns>>
        BY <3>1, SilentSend
      <3> QED BY <1>2, <2>4, <3>1 DEF HandleChat, NotInRoom
    <2>5. ASSUME NEW command, HandleCommand(c, command) PROVE RostersOK'
      BY <1>2, <2>5, TimeKeepsRosters
    <2>6. ASSUME NEW dx, NEW dy, HandleMove(c, dx, dy) PROVE RostersOK'
      BY <2>5, <2>6 DEF HandleMove
    <2>7. ASSUME NEW target, HandleAttack(c, target) PROVE RostersOK'
      BY <2>5, <2>7 DEF HandleAttack
    <2>8. ASSUME HandleMalformed(c) PROVE RostersOK'
      BY <1>2, <2>8 DEF HandleMalformed
    <2> QED BY <1>3, <2>1, <2>2, <2>3, <2>4, <2>6, <2>7, <2>8 DEF Request
  <1>4. ASSUME NEW c \in Conns, Accept(c) \/ Free(c) \/ HandleConnectionClosed(c)
        PROVE  RostersOK'
    BY <1>4, ObjectsKeepRosters, ClosedKeepsRosters
  <1>5. ASSUME Advance \/ HandleTick \/ SaveCheckpoint PROVE RostersOK'
    BY <1>5, TimeKeepsRosters
  <1>6. ASSUME HandleSessionTimeouts PROVE RostersOK'
    BY <1>6, TimeoutsKeepRosters
  <1>7. ASSUME Restart PROVE RostersOK'
    <2>1. \A t \in DOMAIN sessions' : sessions'[t].conn = NoConn
      BY <1>7 DEF Restart, RestoredSession
    <2> QED BY <2>1, RoomAssumption DEF RostersOK, RostersAreAccurate, PointersAreLive
  <1> QED BY <1>1, <1>3, <1>4, <1>5, <1>6, <1>7 DEF Next

\* The join_ok, resume_ok, player_joined and player_left frames queued for a
\* client add up to the members of its room, or its close has been requested:
\* for any number of rooms, clients, sessions and restarts.
THEOREM RostersAlwaysAccurate == Spec => []RostersAreAccurate
  <1>1. Init => RostersOK
    BY DEF Init, NoSessions, RostersOK, RostersAreAccurate, PointersAreLive
  <1>2. Inv /\ RostersOK /\ [Next]_vars => RostersOK'
    BY NextKeepsRosters
  <1>3. RostersOK => RostersAreAccurate
    BY DEF RostersOK
  <1> QED BY <1>1, <1>2, <1>3, Invariance, PTL DEF Spec

-----------------------------------------------------------------------------
(* A server whose transport delivers no frame after the close. *)

\* The steps in which requests come from connections whose close has not been
\* handled.
OrderlyNext ==
    \/ \E c \in Conns : \/ Accept(c)
                        \/ Free(c)
                        \/ conns[c] = "open" /\ Request(c)
                        \/ HandleConnectionClosed(c)
    \/ Advance
    \/ HandleTick
    \/ HandleSessionTimeouts

\* An address is bound to the session whose connection is there, and its close
\* is still to come.
BoundAreOpen ==
    \A c \in DOMAIN bindings : conns[c] = "open" /\ sessions[bindings[c]].conn = c

\* Bindings, sessions and connections after a step that changes none of them.
LEMMA SameBound ==
    ASSUME Inv, BoundAreOpen, UNCHANGED bindings,
           \A c \in DOMAIN bindings : conns'[c] = conns[c],
           \A t \in DOMAIN sessions : sessions[t].state = "online" =>
             sessions'[t].conn = sessions[t].conn
    PROVE  BoundAreOpen'
  BY DEF BoundAreOpen, Inv, BindingsAreOnline

\* A request of an open connection binds it, or unbinds it, or neither.
LEMMA RequestKeepsBound ==
    ASSUME Inv, BoundAreOpen, NEW c \in Conns, conns[c] = "open", Request(c)
    PROVE  BoundAreOpen'
  <1>1. CASE UNCHANGED <<sessions, bindings, conns>>
    BY <1>1, SameBound
  <1>2. ASSUME NEW r, NEW name_ok \in BOOLEAN, HandleJoin(c, r, name_ok)
        PROVE  BoundAreOpen'
    <2>1. ASSUME NEW t \in Tokens \ DOMAIN sessions, NEW q, NEW id,
                 sessions' = Put(sessions, t, NewSession(q, id, c)),
                 bindings' = Put(bindings, c, t), UNCHANGED conns
          PROVE  BoundAreOpen'
      <3>1. sessions'[t].conn = c /\ \A u \in DOMAIN sessions : sessions'[u] = sessions[u]
        BY <2>1 DEF Put, NewSession
      <3>2. /\ DOMAIN bindings' = DOMAIN bindings \cup {c} /\ bindings'[c] = t
            /\ \A d \in DOMAIN bindings : d # c => bindings'[d] = bindings[d]
        BY <2>1 DEF Put
      <3> QED BY <2>1, <3>1, <3>2 DEF BoundAreOpen, Inv, BindingsAreOnline
    <2> QED BY <1>1, <1>2, <2>1 DEF HandleJoin, SendError
  <1>3. ASSUME NEW t \in Tokens, HandleResume(c, t)
        PROVE  BoundAreOpen'
    <2>1. CASE /\ ResumeState(c, t) = "success"
               /\ sessions' = [sessions EXCEPT ![t] = Online(@, c)]
               /\ bindings' = Put(bindings, c, t)
               /\ UNCHANGED conns
      <3>1. t \in DOMAIN sessions /\ sessions[t].state = "offline" /\ sessions[t] \in Session
        BY <2>1 DEF ResumeState, Inv, TypeOK
      <3>2. /\ sessions'[t].conn = c
            /\ \A u \in DOMAIN sessions : u # t => sessions'[u] = sessions[u]
        BY <2>1, <3>1, OnlineOK
      <3>3. /\ DOMAIN bindings' = DOMAIN bindings \cup {c} /\ bindings'[c] = t
            /\ \A d \in DOMAIN bindings : d # c => bindings'[d] = bindings[d]
        BY <2>1 DEF Put
      <3> QED BY <2>1, <3>1, <3>2, <3>3 DEF BoundAreOpen, Inv, BindingsAreOnline
    <2> QED BY <1>1, <1>3, <2>1 DEF HandleResume, SendError, vars
  <1>4. ASSUME HandleLeave(c)
        PROVE  BoundAreOpen'
    <2>1. CASE /\ Bound(c) /\ UNCHANGED conns
               /\ sessions' = Drop(sessions, {bindings[c]})
               /\ bindings' = Drop(bindings, {c})
      <3>1. /\ DOMAIN bindings' = DOMAIN bindings \ {c}
            /\ \A d \in DOMAIN bindings' : bindings'[d] = bindings[d]
            /\ \A t \in DOMAIN sessions \ {bindings[c]} : sessions'[t] = sessions[t]
            /\ c \in DOMAIN bindings
        BY <2>1 DEF Drop, Bound, LookupState
      <3>2. \A d \in DOMAIN bindings' : bindings[d] \in DOMAIN sessions \ {bindings[c]}
        BY <3>1 DEF Inv, BindingsAreOnline
      <3>3. \A d \in DOMAIN bindings' : conns[d] = "open" /\ sessions[bindings[d]].conn = d
        BY <3>1 DEF BoundAreOpen
      <3>4. conns' = conns
        BY <2>1
      <3>5. \A d \in DOMAIN bindings' : sessions'[bindings'[d]] = sessions[bindings[d]]
        BY <3>1, <3>2
      <3> QED BY <3>3, <3>4, <3>5 DEF BoundAreOpen
    <2> QED BY <1>1, <1>4, <2>1 DEF HandleLeave, EraseByConnection, NotInRoom, SendError
  <1>5. ASSUME NEW message_ok \in BOOLEAN, HandleChat(c, message_ok) PROVE BoundAreOpen'
    BY <1>1, <1>5 DEF HandleChat, NotInRoom, SendError
  <1>6. ASSUME NEW command, HandleCommand(c, command) PROVE BoundAreOpen'
    BY <1>1, <1>6 DEF HandleCommand, NotInRoom, SendError
  <1>7. ASSUME NEW dx, NEW dy, HandleMove(c, dx, dy) PROVE BoundAreOpen'
    BY <1>6, <1>7 DEF HandleMove
  <1>8. ASSUME NEW target, HandleAttack(c, target) PROVE BoundAreOpen'
    BY <1>6, <1>8 DEF HandleAttack
  <1>9. ASSUME HandleMalformed(c) PROVE BoundAreOpen'
    BY <1>1, <1>9 DEF HandleMalformed, SendError
  <1> QED BY <1>2, <1>3, <1>4, <1>5, <1>7, <1>8, <1>9 DEF Request

\* The close of a bound connection finds the room and the session on it, so the
\* binding goes with the connection.
LEMMA OrderlyKeepsBound ==
    ASSUME Inv, BoundAreOpen, [OrderlyNext]_vars
    PROVE  BoundAreOpen'
  <1>1. CASE UNCHANGED vars \/ HandleTick
    BY <1>1, SameBound DEF vars, HandleTick
  <1>2. ASSUME NEW c \in Conns, Accept(c) PROVE BoundAreOpen'
    <2>1. \A d \in DOMAIN bindings : conns'[d] = conns[d]
      BY <1>2 DEF Accept, BoundAreOpen, Inv, TypeOK
    <2> QED BY <1>2, <2>1, SameBound DEF Accept
  <1>3. ASSUME NEW c \in Conns, Free(c) PROVE BoundAreOpen'
    <2>1. c \notin DOMAIN bindings
      BY <1>3 DEF Free, BoundAreOpen
    <2>2. \A d \in DOMAIN bindings : d # c /\ d \in Conns /\ conns'[d] = conns[d]
      BY <1>3, <2>1 DEF Free, Inv, TypeOK
    <2>3. \A d \in DOMAIN bindings : sessions'[bindings[d]] = sessions[bindings[d]]
      BY <1>3, <2>2 DEF Free, BoundAreOpen, Inv, BindingsAreOnline
    <2>4. UNCHANGED bindings
      BY <1>3 DEF Free
    <2> QED BY <2>2, <2>3, <2>4 DEF BoundAreOpen
  <1>4. ASSUME NEW c \in Conns, HandleConnectionClosed(c) PROVE BoundAreOpen'
    <2>1. conns' = [conns EXCEPT ![c] = "closed"]
      BY <1>4 DEF HandleConnectionClosed
    <2>2. \A d \in Conns : d # c => conns'[d] = conns[d]
      BY <2>1 DEF Inv, TypeOK
    <2>3. CASE c \in DOMAIN bindings
      <3> DEFINE t == bindings[c]
      <3>1. /\ t \in DOMAIN sessions /\ sessions[t].state = "online" /\ sessions[t].conn = c
        BY <2>3 DEF BoundAreOpen, Inv, BindingsAreOnline
      <3>2. /\ sessions[t].player \in Members(rooms[sessions[t].room])
            /\ rooms[sessions[t].room].members[sessions[t].player] = c
        BY <3>1 DEF Inv, SeatsHaveSessions, ConnectionsAgree
      <3>3. Bound(c) /\ CanDetach(rooms[Identity(c).room], Identity(c).player, c)
        BY <2>3, <3>1, <3>2 DEF Bound, LookupState, CanDetach, Identity
      <3>4. /\ sessions' = [sessions EXCEPT ![t] = Offline(@)]
            /\ bindings' = Drop(bindings, {c})
        BY <1>4, <3>1, <3>3 DEF HandleConnectionClosed, DetachSession, Identity
      <3>5. /\ DOMAIN bindings' = DOMAIN bindings \ {c}
            /\ \A d \in DOMAIN bindings' : /\ bindings'[d] = bindings[d] /\ d \in Conns
                                           /\ bindings[d] \in DOMAIN sessions \ {t}
        BY <2>3, <3>4 DEF Drop, Inv, TypeOK, BindingsAreOnline
      <3>6. \A u \in DOMAIN sessions \ {t} : sessions'[u] = sessions[u]
        BY <3>4
      <3> QED BY <2>2, <3>5, <3>6 DEF BoundAreOpen
    <2>4. CASE c \notin DOMAIN bindings
      <3>1. UNCHANGED <<sessions, bindings>>
        BY <1>4, <2>4 DEF HandleConnectionClosed, Bound, LookupState
      <3> QED BY <2>2, <2>4, <3>1 DEF BoundAreOpen, Inv, TypeOK
    <2> QED BY <2>3, <2>4
  <1>5. CASE Advance
    <2>1. \A t \in DOMAIN sessions : sessions'[t].conn = sessions[t].conn
      BY <1>5 DEF Advance, Inv, TypeOK, Session
    <2> QED BY <1>5, <2>1, SameBound DEF Advance
  <1>6. CASE HandleSessionTimeouts
    <2> DEFINE gone == {t \in Expired : CanLeave(rooms[sessions[t].room], sessions[t].player)}
    <2>1. sessions' = Drop(sessions, gone) /\ UNCHANGED <<bindings, conns>>
      BY <1>6 DEF HandleSessionTimeouts
    <2>2. \A t \in DOMAIN sessions : sessions[t].state = "online" => sessions'[t] = sessions[t]
      BY <2>1 DEF Drop, Expired
    <2> QED BY <2>1, <2>2, SameBound
  <1> QED BY <1>1, <1>2, <1>3, <1>4, <1>5, <1>6, RequestKeepsBound DEF OrderlyNext
=============================================================================
