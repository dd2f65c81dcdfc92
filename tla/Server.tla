------------------------------- MODULE Server -------------------------------
(***************************************************************************)
(* The running server: the transport (TcpServer.tla) and the business      *)
(* state (RoomService.tla) joined where main() connects them.  A frame     *)
(* task of the base loop is a request of its connection; the report of a   *)
(* close is handle_connection_closed; a frame that cannot be queued        *)
(* becomes a close request on the I/O loop.  The service sees conns, the   *)
(* transport's view of each object.                                        *)
(***************************************************************************)
EXTENDS TcpServer

CONSTANTS
    InitialHp, AttackDamage, MaxPosition, MaxPlayers, NoConn, MaxPlayerId,
    RoomIds, NoRoom, Capacities, Tokens, ReconnectTimeout, Moves, Targets,
    MaxTick, MaxRestarts

VARIABLES rooms, sessions, bindings, roster, doomed, saved, restarts

\* RoomService with its theorems: ServerProofs.tla cites them.
Service == INSTANCE RoomServiceProofs

ASSUME ServerAssumption ==
    /\ Service!GamestateAssumption
    /\ Service!RoomAssumption
    /\ Service!RoomServiceAssumption

serviceVars == <<rooms, sessions, bindings, roster, doomed, saved, restarts>>

vars == <<tcpVars, serviceVars>>

Init == TcpInit /\ Service!Init

\* The connections a handler newly failed to send to have their close
\* requested.
Closing(closing) == doomed' = doomed \cup closing

Accept(c) == (\E f \in Fds : HandleAccept(c, f)) /\ Service!Accept(c)

HandleFrame(c) ==
    \E closing \in SUBSET (Conns \ doomed) :
        /\ RunFrame(c, closing)
        /\ Service!Request(c)
        /\ Closing(closing)

HandleSessionTimeouts ==
    \E closing \in SUBSET (Conns \ doomed) :
        /\ RunTimer(closing)
        /\ Service!HandleSessionTimeouts
        /\ Closing(closing)

HandleTick == RunTimer({}) /\ Service!HandleTick

HandleConnectionClosed(c) ==
    RemoveConnectionInLoop(c) /\ Service!HandleConnectionClosed(c)

Free(c) == Destruct(c) /\ Service!Free(c)

\* The I/O threads and the clock leave the service's and the transport's state
\* alone.
Io(c) == IoStep(c) /\ UNCHANGED serviceVars

Advance == UNCHANGED tcpVars /\ Service!Advance

Next ==
    \/ \E c \in Conns : \/ Accept(c)
                        \/ HandleFrame(c)
                        \/ HandleConnectionClosed(c)
                        \/ Free(c)
                        \/ Io(c)
    \/ HandleSessionTimeouts
    \/ HandleTick
    \/ Advance

Spec == Init /\ [][Next]_vars

-----------------------------------------------------------------------------

\* Whoever the service takes to be online has a connection whose close it has
\* yet to hear of.  Otherwise the session never goes offline: its player keeps
\* the seat, cannot resume and never times out.
OnlineIsConnected ==
    \A t \in DOMAIN sessions :
        sessions[t].state = "online" =>
            \E c \in DOMAIN bindings : bindings[c] = t /\ conns[c] = "open"

\* Whoever speaks for a player hears its room: lookup finds a player by the
\* address of the connection alone, a broadcast follows the room's weak pointer,
\* and both lead to the same connection.  A new object at the address of an old
\* one never speaks for the old one's player, unheard (SessionManager::lookup,
\* Room::connections).
SpeakersAreReached ==
    \A c \in Conns : \A t \in DOMAIN sessions :
        c \in DOMAIN bindings /\ bindings[c] = t
          <=> rooms[sessions[t].room].members[sessions[t].player] = c

\* No membership frame is lost in silence: what a connected client has been told
\* of its room is the room, unless the close of that connection is queued on its
\* loop (send_frame, broadcast_frame, request_close).
NoSilentLoss ==
    \A t \in DOMAIN sessions :
        LET c == sessions[t].conn
        IN  c \in Conns /\ state[c] = "connected" /\ CloseRequests(c) = 0 =>
                roster[c] = Service!Members(rooms[sessions[t].room])
=============================================================================
