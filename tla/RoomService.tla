---------------------------- MODULE RoomService ----------------------------
(***************************************************************************)
(* The business state of the server (RoomService, RoomManager and          *)
(* SessionManager): the rooms, the reconnectable sessions and the table    *)
(* that binds connections to sessions.  Every handler runs to its end on   *)
(* the base thread, so one handler is one action.                          *)
(*                                                                         *)
(* Connections are what the server sees of them: an address, Conns, that   *)
(* holds no object ("none"), an object whose close has not been handled    *)
(* ("open") or one whose close has ("closed").  Frames of an object may be *)
(* handled as long as it exists, also after its close: nothing orders the  *)
(* two (TcpServer.tla shows which orders happen).  bindings_ is keyed by   *)
(* the raw address, the other references are weak pointers.                *)
(*                                                                         *)
(* A client learns who is in its room from join_ok, resume_ok,             *)
(* player_joined and player_left frames; roster is the set of players the  *)
(* frames sent so far add up to.  A frame that cannot be queued makes the  *)
(* server ask for the close of that connection (doomed).                   *)
(***************************************************************************)
EXTENDS Room

CONSTANTS
    RoomIds,            \* the rooms of the server
    NoRoom,             \* a room id that names none of them
    Capacities,         \* the capacities the rooms may be configured with
    Tokens,             \* reconnection tokens
    ReconnectTimeout,   \* steps of the clock a player may stay offline
    Moves,              \* the (dx, dy) pairs clients ask for
    Targets,            \* the target ids clients ask for
    MaxTick,            \* bound: ticks counted in a room
    MaxRestarts         \* bound: restarts of the server

ASSUME RoomServiceAssumption ==
    /\ NoRoom \notin RoomIds
    /\ IsFiniteSet(RoomIds)
    /\ Capacities \subseteq [RoomIds -> Nat]
    /\ ReconnectTimeout \in Nat \ {0}
    /\ Moves \subseteq Int \X Int
    /\ Targets \subseteq Nat
    /\ MaxTick \in Nat
    /\ MaxRestarts \in Nat

VARIABLES
    rooms,      \* RoomManager::rooms_
    sessions,   \* SessionManager::sessions_, by token
    bindings,   \* SessionManager::bindings_, by address of the connection
    conns,      \* the Connection object at each address
    roster,     \* the members of its room each connection was told of
    doomed,     \* connections the service asked to close (request_close)
    saved,      \* the last checkpoint on disk
    restarts    \* restarts so far

vars == <<rooms, sessions, bindings, conns, roster, doomed, saved, restarts>>

ConnState == {"none", "open", "closed"}

\* left: steps of the clock until offline_deadline_, while offline.
Session == [room : RoomIds, player : PlayerIds, state : {"online", "offline"},
            conn : Conns \cup {NoConn}, left : 0 .. ReconnectTimeout]

-----------------------------------------------------------------------------
(* Checkpoints: RoomService::make_checkpoint and restore_checkpoint. *)

Checkpoint ==
    [rooms    |-> [r \in RoomIds |-> MakeRoomCheckpoint(rooms[r])],
     sessions |-> [t \in DOMAIN sessions |->
                     [room |-> sessions[t].room, player |-> sessions[t].player]]]

\* identities_match: the members of the rooms and the owners of the sessions
\* are the same (room, player) pairs.
IdentitiesMatch(cp) ==
    {<<cp.sessions[t].room, cp.sessions[t].player>> : t \in DOMAIN cp.sessions}
      = UNION {{r} \X cp.rooms[r].members : r \in RoomIds}

\* The checks made while a checkpoint is restored, by each part in turn.
CanRestore(cp) ==
    /\ IdentitiesMatch(cp)
    /\ \A r \in RoomIds : CanRestoreRoom(cp.rooms[r], cp.rooms[r].capacity)
    /\ \A t, u \in DOMAIN cp.sessions : cp.sessions[t] = cp.sessions[u] => t = u

\* Every session comes back offline, its reconnection window starting now.
RestoredSession(identity) ==
    [room   |-> identity.room,
     player |-> identity.player,
     state  |-> "offline",
     conn   |-> NoConn,
     left   |-> ReconnectTimeout]

-----------------------------------------------------------------------------

NoSessions == [t \in {} |-> NoConn]
NoBindings == [c \in {} |-> NoConn]

\* A server that finds no checkpoint creates its rooms (main); saved stands
\* for that too, since restoring empty rooms yields the same state.
Init ==
    /\ \E capacity \in Capacities : rooms = [r \in RoomIds |-> NewRoom(capacity[r])]
    /\ sessions = NoSessions
    /\ bindings = NoBindings
    /\ conns = [c \in Conns |-> "none"]
    /\ roster = [c \in Conns |-> {}]
    /\ doomed = {}
    /\ saved = Checkpoint
    /\ restarts = 0

-----------------------------------------------------------------------------
(* The environment: the transport and the clock. *)

\* TcpServer::handle_accept made a Connection at address c.
Accept(c) ==
    /\ conns[c] = "none"
    /\ conns' = [conns EXCEPT ![c] = "open"]
    /\ roster' = [roster EXCEPT ![c] = {}]
    /\ UNCHANGED <<rooms, sessions, bindings, doomed, saved, restarts>>

\* The last shared_ptr to a closed Connection is gone: the weak pointers to it
\* expire, the address in bindings_ stays.
Free(c) ==
    /\ conns[c] = "closed"
    /\ conns' = [conns EXCEPT ![c] = "none"]
    /\ rooms' = [r \in RoomIds |-> Expire(rooms[r], c)]
    /\ sessions' = [t \in DOMAIN sessions |->
                      IF sessions[t].conn = c
                      THEN [sessions[t] EXCEPT !.conn = NoConn]
                      ELSE sessions[t]]
    /\ doomed' = doomed \ {c}
    /\ UNCHANGED <<bindings, roster, saved, restarts>>

\* The steady clock moves on.
Advance ==
    /\ \E t \in DOMAIN sessions : sessions[t].state = "offline" /\ sessions[t].left > 0
    /\ sessions' = [t \in DOMAIN sessions |->
                      IF sessions[t].state = "offline" /\ sessions[t].left > 0
                      THEN [sessions[t] EXCEPT !.left = @ - 1]
                      ELSE sessions[t]]
    /\ UNCHANGED <<rooms, bindings, conns, roster, doomed, saved, restarts>>

-----------------------------------------------------------------------------
(* Sending. *)

\* Mutant: a critical frame that cannot be queued is dropped like a snapshot.
SendOrDrop(to, told) ==
    \E failed \in SUBSET to :
        /\ doomed' = doomed
        /\ roster' = [c \in Conns |-> IF c \in to \ failed THEN told[c] ELSE roster[c]]

\* send_frame and broadcast_frame of a critical frame to the connections of
\* to: it is queued, or the connection's close is requested.  told gives what
\* each of them knows of its room after the frame.
Send(to, told) ==
    \E failed \in SUBSET to :
        /\ doomed' = doomed \cup failed
        /\ roster' = [c \in Conns |-> IF c \in to \ failed THEN told[c] ELSE roster[c]]

\* send_error: an error frame changes no state.
SendError(c) ==
    /\ Send({c}, roster)
    /\ UNCHANGED <<rooms, sessions, bindings, conns, saved, restarts>>

-----------------------------------------------------------------------------
(* SessionManager. *)

LookupState(c) ==
    IF c \notin DOMAIN bindings THEN "not_bound"
    ELSE IF bindings[c] \notin DOMAIN sessions THEN "internal_error"
    ELSE "success"

NewSession(r, id, c) ==
    [room |-> r, player |-> id, state |-> "online", conn |-> c, left |-> ReconnectTimeout]

\* Mutant: a connection that speaks for one player may resume another.
ResumeStateRebind(c, t) ==
    IF t \notin DOMAIN sessions THEN "invalid_token"
    ELSE IF sessions[t].state # "offline" THEN "session_online"
    ELSE IF sessions[t].left = 0 THEN "session_expired"
    ELSE "success"

\* The checks of SessionManager::resume, in their order.
ResumeState(c, t) ==
    IF c \in DOMAIN bindings THEN "already_bound"
    ELSE IF t \notin DOMAIN sessions THEN "invalid_token"
    ELSE IF sessions[t].state # "offline" THEN "session_online"
    ELSE IF sessions[t].left = 0 THEN "session_expired"
    ELSE "success"

\* Mutant: the window is one step too long.
OfflineLonger(s) ==
    [s EXCEPT !.state = "offline", !.conn = NoConn, !.left = ReconnectTimeout + 1]

\* Session::bind and Session::detach.
Online(s, c) == [s EXCEPT !.state = "online", !.conn = c, !.left = ReconnectTimeout]

Offline(s) == [s EXCEPT !.state = "offline", !.conn = NoConn, !.left = ReconnectTimeout]

\* Mutants: the deadline is not compared; it must have passed by more than zero.
ExpiredAtOnce == {t \in DOMAIN sessions : sessions[t].state = "offline"}

ExpiredNever == {t \in DOMAIN sessions : sessions[t].state = "offline" /\ sessions[t].left < 0}

Expired == {t \in DOMAIN sessions : sessions[t].state = "offline" /\ sessions[t].left = 0}

-----------------------------------------------------------------------------
(* The request handlers. *)

\* RoomManager::start_if_full: the room afterwards, when it succeeds.
StartFails(room) ==
    MemberCount(room) >= room.capacity
      /\ ~ (MemberCount(room) = room.capacity /\ CanStart(room))

StartIfFull(room) == IF MemberCount(room) < room.capacity THEN room ELSE Start(room)

JoinFails(c, r, name_ok) ==
    \/ LookupState(c) = "success"
    \/ /\ LookupState(c) = "not_bound"
       /\ r \notin RoomIds \/ (r \in RoomIds /\ JoinState(rooms[r], name_ok) # "success")

\* A join that fails after the member was added is taken back; the id is spent.
HandleJoin(c, r, name_ok) ==
    /\ conns[c] # "none"
    /\ \/ /\ JoinFails(c, r, name_ok)
          /\ SendError(c)
       \/ /\ LookupState(c) = "not_bound"
          /\ r \in RoomIds
          /\ JoinState(rooms[r], name_ok) = "success"
          /\ LET id     == rooms[r].next_player_id
                 joined == AddMember(rooms[r], c)
                 undone == RemoveMembers(joined, {id})
             IN  \/ \* no token was generated, or it is in use
                    /\ rooms' = [rooms EXCEPT ![r] = undone]
                    /\ UNCHANGED <<sessions, bindings, roster, doomed>>
                 \/ \* start_if_full fails: the session is erased as well
                    /\ StartFails(joined)
                    /\ rooms' = [rooms EXCEPT ![r] = undone]
                    /\ UNCHANGED <<sessions, bindings, roster, doomed>>
                 \/ \E t \in Tokens \ DOMAIN sessions :
                    /\ ~ StartFails(joined)
                    /\ rooms' = [rooms EXCEPT ![r] = StartIfFull(joined)]
                    /\ sessions' = Put(sessions, t, NewSession(r, id, c))
                    /\ bindings' = Put(bindings, c, t)
                    /\ Send({c} \cup Connections(joined, id),
                            [d \in Conns |-> IF d = c THEN Members(joined)
                                             ELSE roster[d] \cup {id}])
          /\ UNCHANGED <<conns, saved, restarts>>

\* RoomManager::bind_connection, when Room::bind_connection succeeds.
BindConnection(s, c) == [rooms EXCEPT ![s.room] = Bind(@, s.player, c)]

HandleResume(c, t) ==
    /\ conns[c] # "none"
    /\ LET state == ResumeState(c, t)
           s     == sessions[t]
       IN  \/ /\ state = "already_bound"    \* has no error code: no answer
              /\ UNCHANGED vars
           \/ /\ state \in {"invalid_token", "session_online", "session_expired"}
              /\ SendError(c)
           \/ /\ state = "success"
              /\ ~ CanBind(rooms[s.room], s.player)     \* rollback_resume
              /\ SendError(c)
           \/ /\ state = "success"
              /\ CanBind(rooms[s.room], s.player)
              /\ sessions' = [sessions EXCEPT ![t] = Online(@, c)]
              /\ bindings' = Put(bindings, c, t)
              /\ rooms' = BindConnection(s, c)
              /\ Send({c}, [d \in Conns |-> Members(rooms[s.room])])
              /\ UNCHANGED <<conns, saved, restarts>>

\* lookup_identity: the request is for the session c is bound to.
NotInRoom(c) ==
    /\ LookupState(c) = "not_bound"
    /\ SendError(c)

Bound(c) == LookupState(c) = "success"

Identity(c) == sessions[bindings[c]]

\* RoomManager::leave, when the player can leave: the room afterwards.
LeaveRoom(s) == RemoveMembers(rooms[s.room], {s.player})

\* SessionManager::erase_by_connection.
EraseByConnection(c) ==
    /\ sessions' = Drop(sessions, {bindings[c]})
    /\ bindings' = Drop(bindings, {c})

HandleLeave(c) ==
    /\ conns[c] # "none"
    /\ \/ NotInRoom(c)
       \/ /\ Bound(c)
          /\ ~ CanLeave(rooms[Identity(c).room], Identity(c).player)
          /\ SendError(c)
       \/ /\ Bound(c)
          /\ CanLeave(rooms[Identity(c).room], Identity(c).player)
          /\ LET s    == Identity(c)
                 left == LeaveRoom(s)
             IN  /\ rooms' = [rooms EXCEPT ![s.room] = left]
                 /\ Send({c} \cup Connections(left, 0),
                         [d \in Conns |-> IF d = c THEN {} ELSE roster[d] \ {s.player}])
          /\ EraseByConnection(c)
          /\ UNCHANGED <<conns, saved, restarts>>

\* RoomManager::chat.
CanChat(s, message_ok) == message_ok /\ s.player \in Members(rooms[s.room])

HandleChat(c, message_ok) ==
    /\ conns[c] # "none"
    /\ \/ NotInRoom(c)
       \/ /\ Bound(c)
          /\ ~ CanChat(Identity(c), message_ok)
          /\ SendError(c)
       \/ /\ Bound(c)
          /\ CanChat(Identity(c), message_ok)
          /\ Send(Connections(rooms[Identity(c).room], 0), roster)
          /\ UNCHANGED <<rooms, sessions, bindings, conns, saved, restarts>>

\* handle_move and handle_attack differ in the command they submit; a command
\* that is accepted has no answer.
HandleCommand(c, command) ==
    /\ conns[c] # "none"
    /\ \/ NotInRoom(c)
       \/ /\ Bound(c)
          /\ SubmitState(rooms[Identity(c).room], Identity(c).player) # "success"
          /\ SendError(c)
       \/ /\ Bound(c)
          /\ SubmitState(rooms[Identity(c).room], Identity(c).player) = "success"
          /\ rooms' = [rooms EXCEPT ![Identity(c).room] = Submit(@, command)]
          /\ UNCHANGED <<sessions, bindings, conns, roster, doomed, saved, restarts>>

HandleMove(c, dx, dy) == HandleCommand(c, Move(Identity(c).player, dx, dy))

HandleAttack(c, target) == HandleCommand(c, Attack(Identity(c).player, target))

\* A payload that does not decode is answered by an error frame, whatever the
\* type of the request.
HandleMalformed(c) == conns[c] # "none" /\ SendError(c)

-----------------------------------------------------------------------------
(* The timers and the close of a connection. *)

\* RoomManager::tick_rooms.
TickRooms ==
    [r \in RoomIds |-> IF rooms[r].state = "running" THEN Tick(rooms[r]) ELSE rooms[r]]

\* One tick of every running room, however many expirations were missed; the
\* snapshots may be dropped and change nothing here.
HandleTick ==
    /\ \E r \in RoomIds : rooms[r].state = "running"
    /\ \A r \in RoomIds : rooms[r].tick_id < MaxTick
    /\ rooms' = TickRooms
    /\ UNCHANGED <<sessions, bindings, conns, roster, doomed, saved, restarts>>

\* Every expired session whose player can leave its room is removed; those
\* who stay are told.
HandleSessionTimeouts ==
    LET gone     == {t \in Expired : CanLeave(rooms[sessions[t].room], sessions[t].player)}
        Gone(r)  == {sessions[t].player : t \in {u \in gone : sessions[u].room = r}}
        after    == [r \in RoomIds |-> RemoveMembers(rooms[r], Gone(r))]
        Left(c)  == UNION {Gone(r) : r \in {q \in RoomIds : c \in Connections(after[q], 0)}}
    IN  /\ gone # {}
        /\ rooms' = after
        /\ sessions' = Drop(sessions, gone)
        /\ Send({c \in Conns : Left(c) # {}}, [c \in Conns |-> roster[c] \ Left(c)])
        /\ UNCHANGED <<bindings, conns, saved, restarts>>

\* RoomManager::detach_connection, when the room still has the player on c.
DetachConnection(s) == [rooms EXCEPT ![s.room] = Detach(@, s.player)]

\* Mutant: the address stays bound to the session that went offline.
DetachSessionOnly(c) ==
    IF Identity(c).state = "online" /\ Identity(c).conn = c
    THEN sessions' = [sessions EXCEPT ![bindings[c]] = Offline(@)] /\ UNCHANGED bindings
    ELSE UNCHANGED <<sessions, bindings>>

\* SessionManager::detach.
DetachSession(c) ==
    IF Identity(c).state = "online" /\ Identity(c).conn = c
    THEN /\ sessions' = [sessions EXCEPT ![bindings[c]] = Offline(@)]
         /\ bindings' = Drop(bindings, {c})
    ELSE UNCHANGED <<sessions, bindings>>

\* Mutant: who goes offline is decided by the address of the connection alone.
HandleClosedByAddress(c) ==
    /\ conns[c] = "open"
    /\ conns' = [conns EXCEPT ![c] = "closed"]
    /\ IF Bound(c)
       THEN /\ rooms' = DetachConnection(Identity(c))
            /\ sessions' = [sessions EXCEPT ![bindings[c]] = Offline(@)]
            /\ bindings' = Drop(bindings, {c})
       ELSE UNCHANGED <<rooms, sessions, bindings>>
    /\ UNCHANGED <<roster, doomed, saved, restarts>>

\* TcpServer notifies the close of an open connection once; an identity whose
\* room and session both still refer to this connection goes offline.
HandleConnectionClosed(c) ==
    /\ conns[c] = "open"
    /\ conns' = [conns EXCEPT ![c] = "closed"]
    /\ \/ /\ Bound(c)
          /\ CanDetach(rooms[Identity(c).room], Identity(c).player, c)
          /\ rooms' = DetachConnection(Identity(c))
          /\ DetachSession(c)
       \/ /\ ~ (Bound(c) /\ CanDetach(rooms[Identity(c).room], Identity(c).player, c))
          /\ UNCHANGED <<rooms, sessions, bindings>>
    /\ UNCHANGED <<roster, doomed, saved, restarts>>

-----------------------------------------------------------------------------
(* Persistence: make_checkpoint reaches the disk; the process stops, at any  *)
(* point, and is started again.                                              *)

SaveCheckpoint ==
    /\ restarts < MaxRestarts
    /\ IdentitiesMatch(Checkpoint)
    /\ saved' = Checkpoint
    /\ UNCHANGED <<rooms, sessions, bindings, conns, roster, doomed, restarts>>

Restart ==
    /\ restarts < MaxRestarts
    /\ CanRestore(saved)
    /\ rooms' = [r \in RoomIds |-> RestoredRoom(saved.rooms[r])]
    /\ sessions' = [t \in DOMAIN saved.sessions |-> RestoredSession(saved.sessions[t])]
    /\ bindings' = NoBindings
    /\ conns' = [c \in Conns |-> "none"]
    /\ roster' = [c \in Conns |-> {}]
    /\ doomed' = {}
    /\ restarts' = restarts + 1
    /\ UNCHANGED saved

-----------------------------------------------------------------------------

Request(c) ==
    \/ \E r \in RoomIds \cup {NoRoom}, name_ok \in BOOLEAN : HandleJoin(c, r, name_ok)
    \/ \E t \in Tokens : HandleResume(c, t)
    \/ HandleLeave(c)
    \/ \E message_ok \in BOOLEAN : HandleChat(c, message_ok)
    \/ \E step \in Moves : HandleMove(c, step[1], step[2])
    \/ \E target \in Targets : HandleAttack(c, target)
    \/ HandleMalformed(c)

Next ==
    \/ \E c \in Conns : Accept(c) \/ Free(c) \/ Request(c) \/ HandleConnectionClosed(c)
    \/ Advance
    \/ HandleTick
    \/ HandleSessionTimeouts
    \/ SaveCheckpoint
    \/ Restart

Spec == Init /\ [][Next]_vars

\* The clock runs and the scan timer fires every second (main).
FairSpec == Spec /\ WF_vars(Advance) /\ WF_vars(HandleSessionTimeouts)

-----------------------------------------------------------------------------
(* Safety. *)

TypeOK ==
    /\ DOMAIN rooms = RoomIds
    /\ \A r \in RoomIds : IsRoom(rooms[r])
    /\ DOMAIN sessions \subseteq Tokens
    /\ \A t \in DOMAIN sessions : sessions[t] \in Session
    /\ DOMAIN bindings \subseteq Conns
    /\ \A c \in DOMAIN bindings : bindings[c] \in Tokens
    /\ conns \in [Conns -> ConnState]
    /\ roster \in [Conns -> SUBSET PlayerIds]
    /\ doomed \subseteq Conns
    /\ restarts \in Nat

\* Every member of a room has exactly one session and every session a seat:
\* members_ of the rooms and sessions_ are two tables that joins, their
\* rollbacks, leaves, timeouts and restores keep in step.  This is what
\* identities_match demands of a checkpoint.
SeatsHaveSessions ==
    /\ \A t \in DOMAIN sessions : sessions[t].player \in Members(rooms[sessions[t].room])
    /\ \A r \in RoomIds : \A id \in Members(rooms[r]) :
         \E t \in DOMAIN sessions : sessions[t].room = r /\ sessions[t].player = id
    /\ \A t, u \in DOMAIN sessions :
         sessions[t].room = sessions[u].room /\ sessions[t].player = sessions[u].player => t = u

\* bindings_ and sessions_ agree: an address is bound to a session that is
\* online, and every online session has exactly one address, even when frames
\* are handled after the close of their connection.
BindingsAreOnline ==
    /\ \A c \in DOMAIN bindings :
         bindings[c] \in DOMAIN sessions /\ sessions[bindings[c]].state = "online"
    /\ \A t \in DOMAIN sessions :
         sessions[t].state = "online" => \E c \in DOMAIN bindings : bindings[c] = t
    /\ \A c, d \in DOMAIN bindings : bindings[c] = bindings[d] => c = d

\* The room's and the session's weak pointer are the same connection, none
\* while offline, and that connection is the bound one: RESUME of a live
\* session never ends in resume_failed, and a broadcast reaches only connections
\* that speak for the members.  It may miss one: after a frame handled behind
\* the close of its connection, the address stays bound when the pointers
\* expire, and a new object there speaks unheard.  Server states when none is
\* missed (SpeakersAreReached).
ConnectionsAgree ==
    \A t \in DOMAIN sessions :
        LET s == sessions[t]
        IN  /\ rooms[s.room].members[s.player] = s.conn
            /\ s.state = "offline" => s.conn = NoConn
            /\ s.conn # NoConn => s.conn \in DOMAIN bindings /\ bindings[s.conn] = t

\* From the start of a game on, the game holds exactly the members (leave and
\* the timeouts fail for a member the game does not know).
GamesMatchMembers ==
    \A r \in RoomIds :
        DOMAIN rooms[r].players = IF rooms[r].state = "waiting" THEN {} ELSE Members(rooms[r])

\* At most one command of a player waits for the tick, across closes and
\* resumes of its connection (Room::has_pending_command).
OneCommandPerTick ==
    \A r \in RoomIds : \A i, j \in 1 .. Len(rooms[r].pending) :
        rooms[r].pending[i].player = rooms[r].pending[j].player => i = j

\* What the frames have told a client about its room is the room: whoever
\* joined, resumed, left or timed out meanwhile, unless a frame to it could not
\* be queued, and then its close was requested.
RostersAreAccurate ==
    \A t \in DOMAIN sessions :
        LET c == sessions[t].conn
        IN  c \in Conns \ doomed => roster[c] = Members(rooms[sessions[t].room])

\* A checkpoint can be taken at any time, and the server that finds it on disk
\* accepts it: none is refused at the next start.
CheckpointsAreRestorable == CanRestore(Checkpoint) /\ CanRestore(saved)

\* Within its reconnection window a player keeps the seat and the session:
\* timeouts, other players' leaves and closes of other connections leave both
\* alone, and only the restart of the server can forget them.
SeatKeptInWindow ==
    [][restarts' = restarts =>
         \A t \in DOMAIN sessions :
           sessions[t].state = "offline" /\ sessions[t].left > 0 =>
             /\ t \in DOMAIN sessions'
             /\ sessions[t].player \in Members(rooms'[sessions[t].room])]_vars

\* A session goes offline only by the close of the connection it is bound to:
\* the late close of an old connection does not undo a resume by a new one.
OwnCloseOnly ==
    [][restarts' = restarts =>
         \A t \in DOMAIN sessions \cap DOMAIN sessions' :
           sessions[t].state = "online" /\ sessions'[t].state = "offline" =>
             \E c \in Conns : /\ sessions[t].conn = c
                              /\ conns[c] = "open"
                              /\ conns'[c] = "closed"]_vars

-----------------------------------------------------------------------------
(* Liveness. *)

\* A player who went offline comes back or is removed from the room.
OfflineIsSettled ==
    \A t \in Tokens :
        (t \in DOMAIN sessions /\ sessions[t].state = "offline")
          ~> (t \notin DOMAIN sessions \/ sessions[t].state = "online")
=============================================================================
