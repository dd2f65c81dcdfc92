----------------------------- MODULE Connection -----------------------------
(***************************************************************************)
(* One Connection: its write buffer, the debt of bytes promised to it, and *)
(* the arming of its descriptor, as the base thread (sends, close          *)
(* requests, timeout scans, removal) and the I/O thread (events, acks of   *)
(* heartbeats, queued tasks) drive them.                                   *)
(*                                                                         *)
(* The threads share pending_write_bytes_ (here debt) and the task queue.  *)
(* A step ends wherever a thread touches one of them, so every load and    *)
(* every compare-and-swap of the debt is a step.  Bytes are counted, not   *)
(* kept.  TcpServer models what this module leaves out: several            *)
(* connections, descriptors, and the lifetime of the objects.              *)
(***************************************************************************)
EXTENDS Naturals, Sequences

CONSTANTS
    HardLimit,      \* WRITE_HARD_LIMIT
    HighWater,      \* WRITE_HIGH_WATER_MARK
    Sizes,          \* sizes of the frames the base thread sends
    AckSize,        \* size of a heartbeat's ack
    MaxTasks,       \* bound: tasks waiting on the I/O loop
    MaxFrames       \* bound: frames decoded from one read

ASSUME ConnectionAssumption ==
    /\ HardLimit \in Nat
    /\ HighWater \in 0 .. HardLimit
    /\ Sizes \subseteq Nat \ {0}
    /\ AckSize \in 1 .. HardLimit
    /\ MaxTasks \in Nat \ {0}
    /\ MaxFrames \in Nat

VARIABLES
    debt,       \* pending_write_bytes_
    buffered,   \* bytes of write_buffer_
    state,      \* state_
    peer_eof,   \* peer_eof_
    armed,      \* what epoll watches: "none" (not registered), "off" (the
                \* EPOLLONESHOT event was delivered), "in", or "inout"
    quiet,      \* last_peer_activity_time_ is a timeout ago
    removal,    \* the entry in connections_: "no", "posted", "done"
    tasks,      \* tasks about this connection on its I/O loop
    base,       \* where the base thread is in send
    io,         \* where the I/O thread is in a task or an event
    peer,       \* the peer's end: "open" or "eof"
    unread      \* the socket has bytes to read

shared == <<debt, tasks>>
socket == <<peer, unread>>
vars == <<debt, buffered, state, peer_eof, armed, quiet, removal, tasks, base, io, socket>>

Task(kind, len) == [kind |-> kind, len |-> len]

BaseIdle == [pc |-> "idle", kind |-> "none", len |-> 0, cur |-> 0]

\* The I/O thread: len and cur belong to a reservation or a release; then says
\* what follows a release; caller is who called send_in_loop or handle_close;
\* events are those of the event being handled, frames what its read still holds.
IoIdle ==
    [pc |-> "idle", len |-> 0, cur |-> 0, then |-> "none", caller |-> "none",
     events |-> {}, frames |-> 0]

Init ==
    /\ debt = 0
    /\ buffered = 0
    /\ state = "connecting"
    /\ peer_eof = FALSE
    /\ armed = "none"
    /\ quiet = FALSE
    /\ removal = "no"
    /\ tasks = <<Task("established", 0)>>
    /\ base = BaseIdle
    /\ io = IoIdle
    /\ peer = "open"
    /\ unread = FALSE

-----------------------------------------------------------------------------
(* The base thread. *)

BaseOnly == UNCHANGED <<buffered, state, peer_eof, armed, quiet, io, socket>>

\* The base thread is between handlers, and the queue has room (a bound).
BaseFree == base.pc = "idle" /\ Len(tasks) < MaxTasks

UnderBackpressure == debt >= HighWater

\* send_frame, broadcast_frame: a snapshot is skipped under backpressure.
BeginSend(kind, len) ==
    /\ BaseFree
    /\ kind = "snapshot" => ~ UnderBackpressure
    /\ base' = [pc |-> "load", kind |-> kind, len |-> len, cur |-> 0]
    /\ UNCHANGED <<shared, removal>> /\ BaseOnly

\* reserve_write_bytes: the load.
BaseLoad ==
    /\ base.pc = "load"
    /\ base' = [base EXCEPT !.pc = "reserve", !.cur = debt]
    /\ UNCHANGED <<shared, removal>> /\ BaseOnly

\* Mutant: the new bytes do not count.
RefusedWhenFull(len, cur) == cur >= HardLimit

Refused(len, cur) == cur > HardLimit \/ len > HardLimit - cur

\* Mutant: the reservation is a load and a store.
BaseReserveStore ==
    /\ base.pc = "reserve"
    /\ ~ Refused(base.len, base.cur)
    /\ debt' = base.cur + base.len
    /\ base' = [base EXCEPT !.pc = "post"]
    /\ UNCHANGED <<tasks, removal>> /\ BaseOnly

\* reserve_write_bytes: one turn of the compare-and-swap loop.
BaseReserve ==
    /\ base.pc = "reserve"
    /\ ~ Refused(base.len, base.cur)
    /\ IF debt = base.cur
       THEN debt' = base.cur + base.len /\ base' = [base EXCEPT !.pc = "post"]
       ELSE base' = [base EXCEPT !.cur = debt] /\ UNCHANGED debt
    /\ UNCHANGED <<tasks, removal>> /\ BaseOnly

\* reserve_write_bytes refuses: a snapshot is dropped, for any other frame the
\* connection is asked to close (request_close).
BaseRefused ==
    /\ base.pc = "reserve"
    /\ Refused(base.len, base.cur)
    /\ base' = BaseIdle
    /\ tasks' = IF base.kind = "snapshot" THEN tasks ELSE Append(tasks, Task("close", 0))
    /\ UNCHANGED <<debt, removal>> /\ BaseOnly

\* send: the bytes are on their way.
BasePost ==
    /\ base.pc = "post"
    /\ base' = BaseIdle
    /\ tasks' = Append(tasks, Task("send", base.len))
    /\ UNCHANGED <<debt, removal>> /\ BaseOnly

\* TcpServer::check_timeouts visits the connections of the table.
CheckTimeout ==
    /\ BaseFree
    /\ removal # "done"
    /\ tasks' = Append(tasks, Task("timeout", 0))
    /\ UNCHANGED <<debt, removal, base>> /\ BaseOnly

\* remove_connection_in_loop, after a close; ~TcpServer does it to every
\* connection that is still in the table.
RemoveConnection ==
    /\ BaseFree
    /\ removal # "done"
    /\ removal' = "done"
    /\ tasks' = Append(tasks, Task("destroyed", 0))
    /\ UNCHANGED <<debt, base>> /\ BaseOnly

-----------------------------------------------------------------------------
(* The I/O thread: the parts its handlers are made of. *)

IoOnly == UNCHANGED <<removal, base, socket>>

\* The I/O thread goes on, with the same event at hand.
IoAt(pc, len, cur, then, caller) ==
    [pc |-> pc, len |-> len, cur |-> cur, then |-> then, caller |-> caller,
     events |-> io.events, frames |-> io.frames]

\* Where send_in_loop and handle_close return to.
Back(caller) ==
    IF caller = "decode" THEN IoAt("decode", 0, 0, "none", "none") ELSE IoIdle

\* release_write_bytes(len) begins with a load; nothing is done for no bytes.
Release(len, then, caller) ==
    IF len = 0
    THEN IF then = "notify" THEN IoAt("notify", 0, 0, "none", caller) ELSE Back(caller)
    ELSE IoAt("release", len, debt, then, caller)

\* clear_write_buffer_in_loop: the bytes in the buffer are given up.
ClearWriteBuffer(bytes, then, caller) ==
    buffered' = 0 /\ io' = Release(bytes, then, caller)

\* handle_close with bytes in the buffer: they are cleared and released, then
\* the close callback is called; the first close only.
HandleClose(caller, bytes) ==
    IF state \in {"disconnecting", "disconnected"}
    THEN io' = Back(caller) /\ buffered' = bytes /\ UNCHANGED state
    ELSE /\ state' = "disconnecting"
         /\ ClearWriteBuffer(bytes, "notify", caller)

\* Mutant: a send only adds EPOLLOUT for what the event loop had to write.
RearmIn(caller) ==
    \/ armed' = "in" /\ io' = Back(caller) /\ UNCHANGED <<state, buffered>>
    \/ HandleClose(caller, buffered) /\ UNCHANGED armed

\* update_fd: watch for output as long as there is some; epoll_ctl may fail.
Rearm(caller) ==
    \/ /\ armed' = IF buffered = 0 THEN "in" ELSE "inout"
       /\ io' = Back(caller)
       /\ UNCHANGED <<state, buffered>>
    \/ HandleClose(caller, buffered) /\ UNCHANGED armed

\* The end of handle_event, after its reads and writes.
EventEnds(events) ==
    IF "err" \in events \/ (peer_eof /\ buffered = 0)
    THEN HandleClose("event", buffered) /\ UNCHANGED armed
    ELSE Rearm("event")

-----------------------------------------------------------------------------
(* The I/O thread: tasks of its queue. *)

TakeTask(kind) ==
    /\ io.pc = "idle"
    /\ tasks # <<>>
    /\ Head(tasks).kind = kind
    /\ tasks' = Tail(tasks)

\* connect_established: add_fd succeeds or not.
ConnectEstablished ==
    /\ TakeTask("established")
    /\ IF state # "connecting"
       THEN UNCHANGED <<state, buffered, armed, io>>
       ELSE \/ state' = "connected" /\ armed' = "in" /\ UNCHANGED <<buffered, io>>
            \/ HandleClose("task", buffered) /\ UNCHANGED armed
    /\ UNCHANGED <<debt, peer_eof, quiet>> /\ IoOnly

\* send_in_loop as a task of the base thread.
SendInLoop ==
    /\ TakeTask("send")
    /\ IF state = "connected"
       THEN /\ buffered' = buffered + Head(tasks).len
            /\ io' = [IoIdle EXCEPT !.pc = "write", !.caller = "task"]
       ELSE io' = Release(Head(tasks).len, "return", "task") /\ UNCHANGED buffered
    /\ UNCHANGED <<debt, state, armed, peer_eof, quiet>> /\ IoOnly

\* The task of request_close.
CloseByRequest ==
    /\ TakeTask("close")
    /\ HandleClose("task", buffered)
    /\ UNCHANGED <<debt, armed, peer_eof, quiet>> /\ IoOnly

\* Mutant: bytes still to be written keep a silent connection.
CheckTimeoutWaits ==
    /\ TakeTask("timeout")
    /\ IF state = "connected" /\ quiet /\ buffered = 0
       THEN HandleClose("task", buffered)
       ELSE UNCHANGED <<state, buffered, io>>
    /\ UNCHANGED <<debt, armed, peer_eof, quiet>> /\ IoOnly

\* check_timeout_in_loop.
CheckTimeoutInLoop ==
    /\ TakeTask("timeout")
    /\ IF state = "connected" /\ quiet
       THEN HandleClose("task", buffered)
       ELSE UNCHANGED <<state, buffered, io>>
    /\ UNCHANGED <<debt, armed, peer_eof, quiet>> /\ IoOnly

\* connect_destroyed.
ConnectDestroyed ==
    /\ TakeTask("destroyed")
    /\ IF state = "disconnected"
       THEN UNCHANGED <<state, buffered, armed, io>>
       ELSE /\ state' = "disconnected"
            /\ armed' = "none"
            /\ ClearWriteBuffer(buffered, "return", "task")
    /\ UNCHANGED <<debt, peer_eof, quiet>> /\ IoOnly

-----------------------------------------------------------------------------
(* The I/O thread: an event of the descriptor. *)

\* What epoll reports: input or the peer's end of file, output if watched for,
\* an error or a hang-up at any time.
Ready(events) ==
    /\ armed \in {"in", "inout"}
    /\ events # {}
    /\ "in" \in events => unread \/ peer = "eof"
    /\ "out" \in events => armed = "inout"

\* handle_event: the one-shot event is used up.  Nothing is done for a connection
\* that closes; input is read to the end, or the read fails.
HandleEvent(events, frames) ==
    /\ io.pc = "idle"
    /\ Ready(events)
    /\ frames > 0 => "in" \in events /\ unread
    /\ armed' = "off"
    /\ \/ /\ state # "connected"
          /\ UNCHANGED <<state, buffered, peer_eof, unread, io>>
       \/ /\ state = "connected"
          /\ peer_eof' = (peer_eof \/ ("in" \in events /\ peer = "eof"))
          /\ unread' = (unread /\ "in" \notin events)
          /\ io' = [IoIdle EXCEPT !.pc = "decode", !.events = events, !.frames = frames]
          /\ UNCHANGED <<state, buffered>>
       \/ /\ state = "connected"
          /\ "in" \in events
          /\ HandleClose("event", buffered)
          /\ UNCHANGED <<peer_eof, unread>>
    /\ UNCHANGED <<shared, quiet, removal, base, peer>>

RefreshPeerActivity == quiet' = (quiet /\ state # "connected")

\* handle_decoded_frame: any frame refreshes the activity; a heartbeat's ack
\* is sent from this thread, other frames go to the base loop.
DecodeFrame ==
    /\ io.pc = "decode"
    /\ io.frames > 0
    /\ RefreshPeerActivity
    /\ \/ io' = [io EXCEPT !.frames = @ - 1]
       \/ io' = [io EXCEPT !.frames = @ - 1, !.pc = "reserve", !.len = AckSize, !.cur = debt]
    /\ UNCHANGED <<shared, state, buffered, armed, peer_eof>> /\ IoOnly

\* A bad length, an unknown type or a malformed heartbeat ends the decoding.
DecodeFails ==
    /\ io.pc = "decode"
    /\ io.frames > 0
    /\ HandleClose("event", buffered)
    /\ UNCHANGED <<shared, armed, quiet, peer_eof>> /\ IoOnly

\* handle_event after its reads: write_to_socket if the socket takes output.
EventWrites(events) ==
    IF "out" \in events
    THEN /\ io' = [io EXCEPT !.pc = "write", !.caller = "event", !.events = events]
         /\ UNCHANGED <<state, buffered, armed>>
    ELSE EventEnds(events)

\* All frames are decoded; an ack may have closed the connection.
DecodeEnds ==
    /\ io.pc = "decode"
    /\ io.frames = 0
    /\ IF state = "connected"
       THEN EventWrites(io.events)
       ELSE io' = IoIdle /\ UNCHANGED <<state, buffered, armed>>
    /\ UNCHANGED <<shared, quiet, peer_eof>> /\ IoOnly

\* send on the I/O thread: reserve_write_bytes, then send_in_loop inline.  An
\* ack that is refused ends the decoding, and both callers ask for the close.
AckReserve ==
    /\ io.pc = "reserve"
    /\ IF Refused(io.len, io.cur)
       THEN HandleClose("event", buffered) /\ UNCHANGED debt
       ELSE IF debt # io.cur
       THEN io' = [io EXCEPT !.cur = debt] /\ UNCHANGED <<debt, state, buffered>>
       ELSE /\ debt' = io.cur + io.len
            /\ IF state = "connected"
               THEN /\ buffered' = buffered + io.len
                    /\ io' = IoAt("write", 0, 0, "none", "decode")
               ELSE io' = [io EXCEPT !.pc = "load", !.caller = "decode"] /\ UNCHANGED buffered
            /\ UNCHANGED state
    /\ UNCHANGED <<tasks, armed, quiet, peer_eof>> /\ IoOnly

\* The release of an ack that send_in_loop refuses.
AckRelease ==
    /\ io.pc = "load"
    /\ io' = Release(io.len, "return", io.caller)
    /\ UNCHANGED <<shared, state, buffered, armed, quiet, peer_eof>> /\ IoOnly

-----------------------------------------------------------------------------
(* The I/O thread: write_to_socket and release_write_bytes. *)

\* write() takes some bytes, and their debt is released.
WriteSome(n) ==
    /\ io.pc = "write"
    /\ n \in 1 .. buffered
    /\ buffered' = buffered - n
    /\ io' = Release(n, "write", io.caller)
    /\ UNCHANGED <<shared, state, armed, quiet, peer_eof>> /\ IoOnly

\* Everything is written, or the socket takes no more for now.
WriteEnds ==
    /\ io.pc = "write"
    /\ IF io.caller = "event" THEN EventEnds(io.events) ELSE Rearm(io.caller)
    /\ UNCHANGED <<shared, quiet, peer_eof>> /\ IoOnly

\* write() fails.
WriteFails ==
    /\ io.pc = "write"
    /\ buffered > 0
    /\ HandleClose(io.caller, buffered)
    /\ UNCHANGED <<shared, armed, quiet, peer_eof>> /\ IoOnly

AfterRelease ==
    CASE io.then = "write"  -> IoAt("write", 0, 0, "none", io.caller)
      [] io.then = "notify" -> Release(0, "notify", io.caller)
      [] io.then = "return" -> Back(io.caller)

\* release_write_bytes: one turn of its loop.  A debt smaller than what is
\* released is logged as an error and left as it is.
ReleaseWriteBytes ==
    /\ io.pc = "release"
    /\ IF io.len > io.cur
       THEN io' = AfterRelease /\ UNCHANGED debt
       ELSE IF debt # io.cur
       THEN io' = [io EXCEPT !.cur = debt] /\ UNCHANGED debt
       ELSE debt' = io.cur - io.len /\ io' = AfterRelease
    /\ UNCHANGED <<tasks, state, buffered, armed, quiet, peer_eof>> /\ IoOnly

\* The close callback posts the removal (TcpServer::remove_connection).
CloseCallback ==
    /\ io.pc = "notify"
    /\ removal' = IF removal = "no" THEN "posted" ELSE removal
    /\ io' = Back(io.caller)
    /\ UNCHANGED <<shared, state, buffered, armed, quiet, peer_eof, base, socket>>

-----------------------------------------------------------------------------
(* The peer, the clock. *)

PeerSends ==
    /\ peer = "open"
    /\ unread' = TRUE
    /\ UNCHANGED <<shared, buffered, state, peer_eof, armed, quiet, removal, base, io, peer>>

PeerCloses ==
    /\ peer' = "eof"
    /\ UNCHANGED <<shared, buffered, state, peer_eof, armed, quiet, removal, base, io, unread>>

TimePasses ==
    /\ quiet' = TRUE
    /\ UNCHANGED <<shared, buffered, state, peer_eof, armed, removal, base, io, socket>>

-----------------------------------------------------------------------------

RunTask ==
    \/ ConnectEstablished
    \/ SendInLoop
    \/ CloseByRequest
    \/ CheckTimeoutInLoop
    \/ ConnectDestroyed

Events == SUBSET {"in", "out", "err"}

RunEvent ==
    \E events \in Events, frames \in 0 .. MaxFrames : HandleEvent(events, frames)

Continue ==
    \/ DecodeFrame \/ DecodeFails \/ DecodeEnds
    \/ AckReserve \/ AckRelease
    \/ \E n \in 1 .. HardLimit : WriteSome(n)
    \/ WriteEnds \/ WriteFails
    \/ ReleaseWriteBytes \/ CloseCallback

BaseStep ==
    \/ \E len \in Sizes, kind \in {"critical", "snapshot"} : BeginSend(kind, len)
    \/ BaseLoad \/ BaseReserve \/ BaseRefused \/ BasePost
    \/ CheckTimeout
    \/ RemoveConnection

Next == RunTask \/ RunEvent \/ Continue \/ BaseStep \/ PeerSends \/ PeerCloses \/ TimePasses

Spec == Init /\ [][Next]_vars

\* Threads do not stop inside a handler; EventLoop::loop runs the queued tasks
\* after every round of events; the scan timer of main fires however busy the
\* base thread is, and time passes.  No byte has to be written or read.
FairSpec ==
    /\ Spec
    /\ WF_vars(Continue)
    /\ SF_vars(RunTask)
    /\ WF_vars(BaseLoad \/ BaseReserve \/ BaseRefused \/ BasePost)
    /\ SF_vars(CheckTimeout)
    /\ WF_vars(TimePasses)

-----------------------------------------------------------------------------

TypeOK ==
    /\ debt \in 0 .. HardLimit
    /\ buffered \in 0 .. HardLimit
    /\ state \in {"connecting", "connected", "disconnecting", "disconnected"}
    /\ peer_eof \in BOOLEAN
    /\ armed \in {"none", "off", "in", "inout"}
    /\ quiet \in BOOLEAN
    /\ removal \in {"no", "posted", "done"}
    /\ tasks \in Seq([kind : {"established", "send", "close", "timeout", "destroyed"},
                      len  : Sizes \cup {0}])
    /\ base \in [pc   : {"idle", "load", "reserve", "post"},
                 kind : {"none", "critical", "snapshot"},
                 len  : Sizes \cup {0},
                 cur  : 0 .. HardLimit]
    /\ io \in [pc     : {"idle", "decode", "reserve", "load", "write", "release", "notify"},
               len    : 0 .. HardLimit,
               cur    : 0 .. HardLimit,
               then   : {"none", "write", "notify", "return"},
               caller : {"none", "task", "decode", "event"},
               events : Events,
               frames : 0 .. MaxFrames]
    /\ peer \in {"open", "eof"}
    /\ unread \in BOOLEAN

\* The bytes that tasks carry.
Bytes(s) ==
    LET sum[n \in 0 .. Len(s)] == IF n = 0 THEN 0 ELSE sum[n - 1] + s[n].len
    IN  sum[Len(s)]

Queued == Bytes(tasks)

\* pending_write_bytes_ is at every moment what was promised and is neither
\* written nor given up: bytes in the buffer, in tasks on their way, and in the
\* hands of the two threads.  So no race of reserve_write_bytes and
\* release_write_bytes leaves debt behind, and release_write_bytes never meets
\* the error it logs.
DebtIsExact ==
    /\ debt = buffered + Queued
              + (IF base.pc = "post" THEN base.len ELSE 0)
              + (IF io.pc \in {"release", "load"} THEN io.len ELSE 0)
    /\ io.pc = "release" => io.len <= io.cur

\* Whenever the I/O thread is done with a connection that is up, the one-shot
\* descriptor is armed again, for output exactly if bytes wait in the buffer
\* (send_in_loop, handle_event): no client is left unheard, no output stuck.
OutputIsArmed ==
    io.pc = "idle" /\ state = "connected" =>
        armed = IF buffered = 0 THEN "in" ELSE "inout"

\* A connection whose peer has shut its side down is closed in the end, even
\* if the peer takes no bytes any more and output keeps waiting.
EofCloses == (peer = "eof" /\ state = "connected") ~> (state # "connected")
=============================================================================
