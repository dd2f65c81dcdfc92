----------------------------- MODULE TcpServer -----------------------------
(***************************************************************************)
(* The life of the connections: TcpServer on the base thread, Connection   *)
(* on its I/O thread, and the task queues (EventLoop::pending_functors_)   *)
(* through which the two threads talk.  The threads run concurrently; a    *)
(* task or a callback of one thread is one action, except the decoding of  *)
(* a read, which posts to the base thread frame by frame.                  *)
(*                                                                         *)
(* io[c] holds the tasks of c's own loop that concern c: tasks of other    *)
(* connections on that loop touch nothing of c.  Bytes are not modelled;   *)
(* a frame is a task posted to the base thread.                            *)
(***************************************************************************)
EXTENDS Naturals, Sequences, FiniteSets, Functions

CONSTANTS
    Conns,          \* addresses of Connection objects
    Fds,            \* file descriptors
    NoFd,           \* no descriptor
    AckWriteMayFail,\* may write() fail for the ack of a heartbeat?
    MaxFrames,      \* bound: frames of one connection waiting on the base loop
    MaxCloses       \* bound: close requests waiting on an I/O loop

ASSUME TcpServerAssumption ==
    /\ NoFd \notin Fds
    /\ AckWriteMayFail \in BOOLEAN
    /\ MaxFrames \in Nat
    /\ MaxCloses \in Nat

VARIABLES
    state,      \* Connection::state_ ("connecting", "connected", "disconnecting",
                \* "disconnected"), "none" where there is no object
    fd,         \* Connection::fd_
    registered, \* connections whose descriptor is in their loop's callbacks_
    reading,    \* connections whose I/O thread is decoding a read
    told,       \* times the close of the object was reported to the service
    table,      \* TcpServer::connections_, by descriptor
    open,       \* descriptors the process holds open
    base,       \* pending tasks of the base loop
    io          \* pending tasks of each connection's I/O loop

tcpVars == <<state, fd, registered, reading, told, table, open, base, io>>

Frame(c) == [kind |-> "frame", conn |-> c]
Removal(c) == [kind |-> "remove", conn |-> c]

Waiting(task) == Cardinality({i \in 1 .. Len(base) : base[i] = task})

CloseRequests(c) == Cardinality({i \in 1 .. Len(io[c]) : io[c][i] = "close"})

\* Whoever holds a shared_ptr to the object: the table, a task or a callback.
Referenced(c) ==
    \/ c \in Range(table)
    \/ \E i \in 1 .. Len(base) : base[i].conn = c
    \/ io[c] # <<>>
    \/ c \in reading

\* What the rest of the server sees of the object at address c.
conns == [c \in Conns |-> IF state[c] = "none" THEN "none"
                          ELSE IF told[c] = 0 THEN "open" ELSE "closed"]

TcpInit ==
    /\ state = [c \in Conns |-> "none"]
    /\ fd = [c \in Conns |-> NoFd]
    /\ registered = {}
    /\ reading = {}
    /\ told = [c \in Conns |-> 0]
    /\ table = [f \in {} |-> NoFd]
    /\ open = {}
    /\ base = <<>>
    /\ io = [c \in Conns |-> <<>>]

-----------------------------------------------------------------------------
(* The base thread. *)

\* handle_accept: the kernel hands out a descriptor that is not open.  One
\* that is still in the table is closed again.
HandleAccept(c, f) ==
    /\ state[c] = "none"
    /\ f \in Fds \ open
    /\ IF f \in DOMAIN table
       THEN UNCHANGED tcpVars
       ELSE /\ state' = [state EXCEPT ![c] = "connecting"]
            /\ fd' = [fd EXCEPT ![c] = f]
            /\ told' = [told EXCEPT ![c] = 0]
            /\ table' = [g \in DOMAIN table \cup {f} |-> IF g = f THEN c ELSE table[g]]
            /\ open' = open \cup {f}
            /\ io' = [io EXCEPT ![c] = <<"established">>]
            /\ UNCHANGED <<registered, reading, base>>

\* Mutant: request_close is forgotten.
RequestCloseNever(closing) ==
    /\ \A c \in closing : Referenced(c)
    /\ UNCHANGED io

\* request_close of the connections of closing, by the task that runs.
RequestClose(closing) ==
    /\ \A c \in closing : Referenced(c) /\ CloseRequests(c) < MaxCloses
    /\ io' = [c \in Conns |-> IF c \in closing THEN Append(io[c], "close") ELSE io[c]]

\* A frame of c is handled (RoomService::handle_frame_in_loop).
RunFrame(c, closing) ==
    /\ base # <<>>
    /\ Head(base) = Frame(c)
    /\ base' = Tail(base)
    /\ RequestClose(closing)
    /\ UNCHANGED <<state, fd, registered, reading, told, table, open>>

\* A timer of the base loop fires.
RunTimer(closing) ==
    /\ RequestClose(closing)
    /\ UNCHANGED <<state, fd, registered, reading, told, table, open, base>>

\* Mutant: the entry is not erased.
RemoveConnectionKeepsEntry(c) ==
    /\ base # <<>>
    /\ Head(base) = Removal(c)
    /\ base' = Tail(base)
    /\ told' = [told EXCEPT ![c] = @ + 1]
    /\ io' = [io EXCEPT ![c] = Append(@, "destroyed")]
    /\ UNCHANGED <<state, fd, registered, reading, table, open>>

\* remove_connection_in_loop: the object must be the one in the table; the
\* service is told, the entry erased and the end posted to the I/O loop.
RemoveConnectionInLoop(c) ==
    /\ base # <<>>
    /\ Head(base) = Removal(c)
    /\ base' = Tail(base)
    /\ IF fd[c] \in DOMAIN table /\ table[fd[c]] = c
       THEN /\ told' = [told EXCEPT ![c] = @ + 1]
            /\ table' = [f \in DOMAIN table \ {fd[c]} |-> table[f]]
            /\ io' = [io EXCEPT ![c] = Append(@, "destroyed")]
       ELSE UNCHANGED <<told, table, io>>
    /\ UNCHANGED <<state, fd, registered, reading, open>>

-----------------------------------------------------------------------------
(* The I/O thread of c. *)

\* Mutant: every error posts a removal.
HandleCloseAgain(c) ==
    /\ state' = [state EXCEPT ![c] = "disconnecting"]
    /\ base' = Append(base, Removal(c))

\* handle_close: the first one posts the removal to the base loop.
HandleClose(c) ==
    IF state[c] \in {"disconnecting", "disconnected"}
    THEN UNCHANGED <<state, base>>
    ELSE /\ state' = [state EXCEPT ![c] = "disconnecting"]
         /\ base' = Append(base, Removal(c))

\* The thread is free for the next task of c.
TakeTask(c, task) ==
    /\ c \notin reading
    /\ io[c] # <<>>
    /\ Head(io[c]) = task
    /\ io' = [io EXCEPT ![c] = Tail(@)]

\* connect_established; the descriptor must be new to the loop (add_fd).
ConnectEstablished(c) ==
    /\ TakeTask(c, "established")
    /\ \/ /\ ~ \E d \in registered : fd[d] = fd[c]
          /\ registered' = registered \cup {c}
          /\ state' = [state EXCEPT ![c] = "connected"]
          /\ UNCHANGED base
       \/ /\ HandleClose(c)             \* add_fd failed
          /\ UNCHANGED registered
    /\ UNCHANGED <<fd, reading, told, table, open>>

\* Mutant: events of a closing connection are still read.
HandleReadClosing(c) ==
    /\ state[c] \in {"connected", "disconnecting"}
    /\ c \notin reading
    /\ reading' = reading \cup {c}
    /\ UNCHANGED <<state, fd, registered, told, table, open, base, io>>

\* handle_event: bytes were read, decoding begins.
HandleRead(c) ==
    /\ state[c] = "connected"
    /\ c \notin reading
    /\ reading' = reading \cup {c}
    /\ UNCHANGED <<state, fd, registered, told, table, open, base, io>>

\* A frame for the service is posted to the base loop (handle_decoded_frame).
DecodeFrame(c) ==
    /\ c \in reading
    /\ Waiting(Frame(c)) < MaxFrames
    /\ base' = Append(base, Frame(c))
    /\ UNCHANGED <<state, fd, registered, reading, told, table, open, io>>

\* A heartbeat is answered on this thread.  If the bytes cannot be written,
\* send_in_loop closes the connection, send still reports success and
\* decoding goes on.
DecodeHeartbeat(c) ==
    /\ AckWriteMayFail
    /\ c \in reading
    /\ HandleClose(c)
    /\ UNCHANGED <<fd, registered, reading, told, table, open, io>>

\* Decoding ends: at a bad frame or an ack that cannot be queued, or at the
\* end of the buffer with an error or the peer's end of file, which close the
\* connection; or the descriptor is armed again.
DecodeEnds(c) ==
    /\ c \in reading
    /\ reading' = reading \ {c}
    /\ HandleClose(c) \/ UNCHANGED <<state, base>>
    /\ UNCHANGED <<fd, registered, told, table, open, io>>

\* A failed read or write, a hang-up or the silence of the peer
\* (check_timeout_in_loop) closes a connection between reads.
CloseByIo(c) ==
    /\ state[c] = "connected"
    /\ c \notin reading
    /\ HandleClose(c)
    /\ UNCHANGED <<fd, registered, reading, told, table, open, io>>

\* The task posted by request_close.
CloseByRequest(c) ==
    /\ TakeTask(c, "close")
    /\ HandleClose(c)
    /\ UNCHANGED <<fd, registered, reading, told, table, open>>

\* Mutant: the descriptor is not closed.
ConnectDestroyedLeaks(c) ==
    /\ TakeTask(c, "destroyed")
    /\ registered' = registered \ {c}
    /\ state' = [state EXCEPT ![c] = "disconnected"]
    /\ UNCHANGED <<fd, reading, told, table, open, base>>

\* connect_destroyed: the descriptor leaves the loop and is closed.
ConnectDestroyed(c) ==
    /\ TakeTask(c, "destroyed")
    /\ registered' = registered \ {c}
    /\ open' = open \ {fd[c]}
    /\ state' = [state EXCEPT ![c] = "disconnected"]
    /\ UNCHANGED <<fd, reading, told, table, base>>

\* The last reference is gone: the destructor closes the descriptor unless
\* connect_destroyed did, and the address may be used again.
Destruct(c) ==
    /\ state[c] # "none"
    /\ ~ Referenced(c)
    /\ open' = IF state[c] = "disconnected" THEN open ELSE open \ {fd[c]}
    /\ state' = [state EXCEPT ![c] = "none"]
    /\ fd' = [fd EXCEPT ![c] = NoFd]
    /\ told' = [told EXCEPT ![c] = 0]
    /\ registered' = registered \ {c}
    /\ UNCHANGED <<reading, table, base, io>>

-----------------------------------------------------------------------------

\* What only the I/O threads do, and what the service takes no part in.
IoStep(c) ==
    \/ ConnectEstablished(c)
    \/ HandleRead(c)
    \/ DecodeFrame(c)
    \/ DecodeHeartbeat(c)
    \/ DecodeEnds(c)
    \/ CloseByIo(c)
    \/ CloseByRequest(c)
    \/ ConnectDestroyed(c)

TcpNext ==
    \/ \E closing \in SUBSET Conns : RunTimer(closing)
    \/ \E c \in Conns :
         \/ \E f \in Fds : HandleAccept(c, f)
         \/ \E closing \in SUBSET Conns : RunFrame(c, closing)
         \/ RemoveConnectionInLoop(c)
         \/ IoStep(c)
         \/ Destruct(c)

TcpSpec == TcpInit /\ [][TcpNext]_tcpVars

\* Every loop runs its queued tasks after each round of events, so a client
\* that never stops sending cannot keep a task waiting (EventLoop::loop), and a
\* read is decoded to the end of the bytes it holds.  No client has to send,
\* nothing has to fail.
TcpFairSpec ==
    /\ TcpSpec
    /\ \A c \in Conns :
         /\ WF_tcpVars(RunFrame(c, {}))
         /\ WF_tcpVars(RemoveConnectionInLoop(c))
         /\ WF_tcpVars(ConnectEstablished(c))
         /\ SF_tcpVars(CloseByRequest(c))
         /\ WF_tcpVars(ConnectDestroyed(c))
         /\ WF_tcpVars(DecodeEnds(c))
         /\ WF_tcpVars(Destruct(c))

-----------------------------------------------------------------------------

\* The service hears of the close of every accepted connection exactly once:
\* a connection is in the table until then, leaves it with the report, and
\* its removal is posted once however many errors, timeouts and close requests
\* meet (handle_close, remove_connection_in_loop).
ClosedOnce ==
    \A c \in Conns :
        /\ state[c] # "none" => told[c] = IF c \in Range(table) THEN 0 ELSE 1
        /\ Waiting(Removal(c)) = IF state[c] = "disconnecting" /\ told[c] = 0 THEN 1 ELSE 0

\* A descriptor is closed only after the last table that names it forgot it, by
\* its one owner, and never leaks: so accept never meets an entry of an older
\* connection, and no event of a new client reaches an old Connection.
DescriptorsAreOwned ==
    LET owners(f) == {c \in Conns : fd[c] = f /\ state[c] \notin {"none", "disconnected"}}
    IN  /\ \A f \in open : Cardinality(owners(f)) = 1
        /\ \A f \in Fds \ open : owners(f) = {}
        /\ \A f \in DOMAIN table : table[f] \in owners(f)
        /\ \A c \in registered : c \in owners(fd[c])

\* A connection that begins to close, or whose close the service asks for, is
\* removed, its descriptor closed and the object freed.
ClosesComplete ==
    \A c \in Conns :
        (state[c] = "disconnecting" \/ CloseRequests(c) > 0) ~> (state[c] = "none")
=============================================================================
