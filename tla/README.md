# TLA+ verification of the L-W room server

L-W is a C++ game-room server: clients connect over TCP, join a room, play a
tick-based game, drop out and come back with a token, and the rooms survive a
restart through a checkpoint file. This directory holds TLA+ models of the
server, the TLC runs that check them on small instances, and TLAPS proofs of
nearly all their safety properties for instances of any size. `PROJECT.json` lists the runs,
the source lines each definition models, the hazards and the theorems.

## 1. Inventory of the system

One *base* thread owns all business state; several *I/O* threads own the
sockets; one *writer* thread owns the checkpoint file. Threads talk through
task queues (`EventLoop::queue_in_loop`) and through one mutex
(`CheckpointStore`).

| Component | State | Operations | Talks to |
|---|---|---|---|
| `Gamestate` | players: position, hit points | initialize, move, attack, remove, restore | called by `Room` |
| `Room`, `Roomstatemachine` | members with a weak pointer to their connection, game, queued commands, tick, next player id | join, leave, start, finish, submit, tick, bind, detach, checkpoint, restore | called by `RoomManager` |
| `RoomManager` | the rooms | the same, per room id; `start_if_full` | called by `RoomService` |
| `SessionManager`, `Session` | sessions by token, bindings by *raw address* of a connection | create, lookup, resume (and roll back), detach, expire, restore | called by `RoomService` |
| `RoomService` | none of its own | handlers of JOIN, RESUME, LEAVE, CHAT, MOVE, ATTACK; tick; session timeouts; close; heartbeat (on the I/O thread) | sends through `Connection`, called from tasks of the base loop |
| `TcpServer` | connections by descriptor | accept, remove, timeout scan | creates `Connection`s, reports closes to `RoomService` |
| `Connection` | state, buffers, write debt (atomic), one-shot registration | established, read, send, timeout, close, destroyed | on its I/O loop; posts to the base loop |
| `EventLoop`, threads, pool | task queue, eventfd, quit flag, callbacks by descriptor | queue, wake, run, quit, add/update/remove descriptor; thread start and join | every thread |
| `CheckpointStore` | one pending checkpoint, generations, the file | submit, flush, stop; writer thread | base thread and writer thread |
| `PersistenceService` | next generation | load, start, save, stop | `RoomService`, `CheckpointStore` |
| `Codec`, `Protocol`, `Buffer`, `CheckpointCodec` | bytes | framing, encoding, decoding | pure, but `Buffer` keeps what a read left over |
| `TickTimer`, `ShutdownSignal`, `main` | timers, blocked signals, the order of start and stop | construct, start, stop, destroy, callback | base loop |
| `Logger`; HTTP, router, thread pool; load generator | | | not part of the server's logic |

What is hard here: a close and the frames of the same connection are tasks that
may meet in any order; descriptors and addresses are reused; three tables (members,
sessions, bindings) must agree although each handler updates them one after the
other and rolls back by hand; a frame may be lost for one member of a room only;
the file is written by another thread while newer checkpoints arrive, and the
process or the machine may die in between; two threads change the write debt of a
connection with compare-and-swap loops and no lock; a descriptor registered with
`EPOLLONESHOT` stays silent if one path forgets to arm it again; a loop must not go to
sleep between another thread's append and its write of the eventfd; any step of the
start or the stop may fail while the I/O threads run; and the bytes of a frame may
arrive in any pieces. The `hazards` of `PROJECT.json` give
the lines.

What makes each part correct:

* rooms and game: one command per player and tick, a tick changes a player only
  by its own move and by hits of living neighbours, ids are never reused, the game
  and the member list agree, a checkpoint can always be restored;
* sessions: seats and sessions correspond one to one, bindings are exactly the
  online sessions, an old connection's close never hurts a resumed session, an
  offline player keeps the seat for the whole window and loses it in the end;
* transport: each close is reported once, descriptors have one owner, closes
  complete; the write debt is exact and under its limit, a descriptor is armed
  whenever its thread is done with it, a half-closed connection is closed;
* loops and process: no wake-up is lost, no thread touches an object that is gone, a
  signal always ends the process, and only after the last state was saved;
* codecs: a stream is cut into the frames that were sent whatever the reads, a request
  is accepted exactly if it has its layout, replies are unambiguous, a damaged
  checkpoint is refused;
* whole server: whoever counts as online has a connection whose close is still to
  be reported; whoever speaks for a player hears its room; nobody silently misses a
  membership frame;
* persistence: the file is always loadable, replaced atomically, and a successful
  stop has saved the final state durably.

## 2. Modules

| Module | Models |
|---|---|
| `Gamestate` | `game_state.cpp`: one predicate (when it succeeds) and one operator (the result) per method |
| `Room` | `room.cpp`, `room_state_machine.cpp`: a room as a record, one operator per method |
| `RoomGame` | one room driven through its methods in any order |
| `RoomService` | `room_service.cpp`, `room_manager.cpp`, `session_manager.cpp`, `session.cpp`: one action per handler |
| `TcpServer` | `tcp_server.cpp`, the lifetime part of `connection.cpp`, the queues of `event_loop.cpp`: base and I/O threads interleaved, several connections |
| `Connection` | `connection.cpp`: one connection in detail, every access to shared memory a step |
| `EventLoop` | `event_loop.cpp`: queue, eventfd, `epoll_wait`, quit |
| `Lifecycle` | `main/server.cpp`, `event_loop_thread*.cpp`, `tick_timer.cpp`, `shutdown_signal.cpp`, start and destruction in `tcp_server.cpp`, on `EventLoop` |
| `Server` | `RoomService` on `TcpServer`, joined as `main/server.cpp` joins them |
| `CheckpointFile` | what the rest may assume of the checkpoint file (abstract) |
| `Persistence` | `persistence_service.cpp`, `checkpoint_store.cpp` and the file system under them; implements `CheckpointFile` |
| `Bytes` | big-endian fields and two's complement, with narrow bytes |
| `Protocol` | `protocol.cpp`: one operator per decoder and encoder |
| `Framing` | `codec.cpp`, `buffer.cpp` and the read loop of a connection |
| `CheckpointCodec` | `checkpoint_codec.cpp`: encode, decode, checksum |
| `Wire` | the benches on which a stream, the payload of a request and a reply are checked |
| `Codecs` | `Wire` and a checkpoint file that storage may damage |
| `RoomProofs` | lemmas about the operations of a room and about the batch of a tick |
| `RoomGameProofs`, `RoomServiceProofs` | theorems about one room, and about the service |
| `ConnectionProofs`, `LifecycleProofs` | theorems about one connection, and the process |
| `ServerProofs` | theorems about the transport; the server implements the transport and the service; theorems about both together |
| `CodecsProofs` | theorems about the stream, the requests, the replies and the checkpoint file |
| `PersistenceProofs` | the inductive invariant of saving and the refinement of `CheckpointFile` |
| `MC*` | constants for TLC |

**Room and game.** Tables are functions, ids are `1..MaxPlayerId` and wrap to 0 as
the `uint64_t` does. Player names are reduced to whether they are valid. A weak
pointer is the connection it locks to, or `NoConn`. `RoomGame.departed` is a history
variable.

**RoomService.** All handlers run to their end on the base thread, so a handler is one
action, with its early returns as disjuncts and its rollbacks inside. Connections are
addresses that hold no object, an open one, or one whose close has been handled; frames
may be handled as long as the object exists. This is more than the transport allows, and
the proofs are therefore about every possible transport. `roster` is what the frames sent
to a connection add up to; a frame that cannot be queued puts the connection into
`doomed`, as `request_close` does. Sending a snapshot changes nothing that is modelled.
Time is the number of clock steps a session may still be offline. `Restart` stands for a
stop or crash at any point followed by the restore of the last checkpoint on disk.
Tokens are a finite set: a token already in use or not generated is the failing branch
of `HandleJoin`. `HandleMalformed` is the answer to a payload that does not decode.

**TcpServer.** `io[c]` holds the tasks of c's loop about c. A read is decoded in steps,
because each frame is posted to the base loop at once and the base thread may run it
meanwhile. `HandleClose` is the guard that makes a close happen once. A Connection object
goes away when the table, tasks and callbacks hold no pointer to it any more. Whether the
kernel may refuse the ack of a heartbeat is the constant `AckWriteMayFail`. One I/O thread
at least is assumed (`main` starts several): with none, tasks for the base loop would run
inline.

**Connection.** One connection seen by both threads. `debt` is the atomic
`pending_write_bytes_`; each load and each compare-and-swap of it is a step, so the other
thread may come between (`BaseLoad`, `BaseReserve`; `ReleaseWriteBytes`). A failed exchange
leaves the value it met in `cur`, as `compare_exchange_weak` does; spurious failures repeat a
step and are left out. The I/O thread's place in a task or event is `io`, and its caller
says where `send_in_loop` and `handle_close` return to. `armed` is what epoll watches:
`"off"` after a one-shot event. Bytes are counted. The kernel takes any part of what is
written, none, or fails. `quiet` stands for a connection without activity for a whole timeout.

**EventLoop and Lifecycle.** A loop is at one of five places; `queue_in_loop` and `quit` are
two steps, the second of which writes the eventfd (`waking`). The eventfd is
edge-triggered, so epoll reports it once per write. `Lifecycle` keeps what `main` has still
to do as a sequence of steps (`todo`): construct, start, run, and the destructors in their
C++ order. A failing step replaces the sequence by the rollback that the code has for it.
The state of the rooms is reduced to whether it has changed since the last save (`dirty`),
the final save to one step that succeeds or fails (`Persistence` has its steps). Signals
arrive at any moment: before `ShutdownSignal` blocks them they kill the process, after it they
are pending until the base loop reads them.

**Codecs.** `Bytes` takes the number of values of a byte and the widths of the integers as
constants, so TLC can enumerate byte strings; every layout keeps its fields, their order and
their checks. `If` makes a decoder the set of its results, empty or one. `Framing` cuts a
stream of any bytes into reads, appends them to a `Buffer` with its two positions and its
growth, and runs `Codec::decode` once the socket is drained. In `CheckpointCodec` the decoder is a fold over records with
the reader's position as the accumulator; FNV-1a keeps its form with a small prime. The
exclusive or is a constant, `ExclusiveOr`, because the module `Bitwise` cannot be used where
theorems are; `MCCodecs` gives it the value `^^`, and `ChecksumAssumption` says what the proofs
use of it. The types of the replies and checkpoints (`ReplyType`, `CheckpointType`) are those of the
encoders' parameters.

**Server.** A step of the base thread is a step of the transport and one of the service at
the same time; `conns`, which `RoomService` has as a variable, is a function of the
transport's state here. The joint actions could hide a transport step that the service
refuses; `ClosedOnce` (proved) rules that out, since a removal is posted only
for a connection whose close was not yet reported, and every frame has a handler.
`RoomService` enters through `INSTANCE RoomServiceProofs`, so that its theorems can be cited;
`ServerAssumption` states the assumptions on its constants.

**Persistence.** The state of the rooms is a version number. The writer thread takes a
step for each system call that can fail or be interrupted by a crash. A file remembers
whether its content is whole and synced; the directory entry last synced is `durable`.
`Crash` keeps the files as the kernel has them; `PowerLoss` keeps the old or the new
directory entry and spoils content that was not synced. Waits on condition variables have
predicates under the mutex, so they are guards. That reading a broken file fails is
taken as given here; the run `codecs` shows it of `CheckpointCodec`.

Definitions marked *Mutant* are deliberately wrong versions of the definition after them.
They are used by no specification; substituting one must make TLC find the property that
`PROJECT.json` names violated, which shows that the property depends on that line.

## 3. Runs

| Run | Question | Bounds |
|---|---|---|
| `room_game` | is one room right through any sequence of calls? | 2 seats, or 3 and games of 2 (its third join fails at the start and is taken back); 3 ids (so one leaves and another joins, and ids run out), 3 ticks, 2 hit points, a 3x3 board, all moves |
| `room_service` | do rooms, sessions, bindings and clients' views agree? | 3 connections, 2 tokens, one room of 2, or of 3 that never starts, games of 2, a window of 2 clock steps |
| `room_service_restart` | can every checkpoint be restored, and do commands survive closes, resumes and restarts? | one room of 2, 2 connections and tokens, one move, 1 restart |
| `room_service_live` | is an offline player settled? | rooms of 1 and 2 seats (games of 1: the second cannot start), 2 connections, no symmetry |
| `tcp_server` | closes once, descriptors owned, closes complete? | 2 connections, 3 descriptors, 2 frames and 1 close request of each waiting |
| `server` | is the service right on this transport: are online players connected, speakers heard, no frames lost? | 2 connections, one room of 2, `AckWriteMayFail = FALSE` |
| `server_ack_failure` | and if an ack cannot be written? | the same with `TRUE`; **violated**, see below |
| `persistence` | atomic, loadable, durable? does stop end, is the slot served? | 4 generations (the last one is the limit), 4 versions |
| `connection` | is the debt exact, the descriptor armed, a half-closed connection closed? | hard limit 2, high water 1, frames of 1 and 2 bytes, 2 tasks waiting, 2 frames in a read (the second ack may follow a failed first) |
| `lifecycle` | are wake-ups kept, does nothing dangle, is the state saved, does a signal end the process? | 2 I/O threads, one of them with connections, 1 task waiting on a loop |
| `codecs` | do the decoders accept exactly what was laid out, in any pieces, and refuse damage? | bytes of 4 values, integers of 1, 2 and 4 bytes, streams of up to 7 bytes in reads of 1, 3 or 4, payloads of up to 6 bytes, files of up to 101 |
| `malformed_request` | is a connection closed after a malformed request? | the same; **violated**, see below |

The bounds are enough for the cases that matter: two tokens serve a room in which two
players at most stay, since the join that would be the third fails with or without a token; a
start fails after the member was added; one player leaves while another joins,
a connection closes while its successor resumes, an address and a descriptor are used
again by another object, a checkpoint overwrites another in the slot while a third is
written, a frame fits under the hard limit only until the other thread's reservation, the
queue holds one task of each thread, a read ends inside a length, a type and a payload, the
buffer moves its contents and grows, every counter reaches its limit. Only `codecs` and
`malformed_request` turn off the check for deadlock: a bench ends when its input is used up
or the connection is closed.

**Fairness.** `RoomService!FairSpec`: the clock runs and the scan timer fires (both are
timers of `main`). `TcpFairSpec`: every loop runs its queued tasks; for `request_close`
strong fairness is needed, because reads of the same connection may come in between, and it
is justified since `EventLoop::loop` runs the queue after every round of events; a read has
finitely many bytes, so its decoding ends. `Connection!FairSpec`: neither thread stops inside
a handler, the I/O loop runs its queue however many events there are (strong, for the same
reason), the scan timer fires however often the base thread sends (strong), and time passes;
the kernel need not take a byte. `Persistence!FairSpec`: the writer thread runs, and so does
the base thread inside `stop`. `Lifecycle!FairSpec`: every thread runs; no timer, client or
signal has to act, and `epoll_wait` must return only if something is to be reported. No
client has to do anything, and no error has to happen.

**Finding** (`server_ack_failure`). A client sends a heartbeat and a JOIN in one segment and
resets the connection. The I/O thread reads both, fails to write the ack, closes the
connection (which posts the removal to the base loop) and, since `Connection::send` has
returned true, goes on decoding and posts the JOIN. The base thread handles the close, then
the JOIN: the new session is online on a connection whose close will not be reported again.
The player keeps the seat, cannot resume (`session_online`) and does not time out.
`docs/architecture.md` lines 109-112 promise that the session goes offline. This lasts until the
server restarts, or until an object that reuses the address of the connection leaves for the
player: `lookup` goes by the address alone, so such an object speaks for the player (chats,
moves, leaves), while the weak pointers have expired and no broadcast reaches it. In this run
`SpeakersAreReached` is false as well; in `server`, where no ack fails, it is checked and proved.
Bindings and online sessions correspond all the same (`BindingsAreOnline` holds for any order
of frames and closes, and is proved).

**Finding** (`malformed_request`). `docs/protocol.md` lines 105-115 list missing fixed fields,
a declared length that differs from the bytes there are, and surplus bytes as errors of
structure after which the server should stop parsing and close the connection. The code does
so for an illegal frame length, an unknown type and a malformed heartbeat. A JOIN, RESUME,
LEAVE, CHAT, MOVE or ATTACK whose payload does not decode is answered with an error frame, and
the connection is read on. The frame boundaries stay right all the same: they come from the
outer length, and `StreamIsFramed` holds.

One limit of the format shows in `DamageIsDetected`: the checksum covers the payload of a
checkpoint and not its header, so a damaged generation number is read back as another
generation. Rooms and sessions are never read back wrongly from a file with one damaged byte.

## 4. Proofs

Eight proof modules; every theorem is for any value of the constants that satisfies the
assumptions named in the modules. Every safety property of the passing runs is proved.
The inductive invariants of `Connection`, `Lifecycle` and the codecs were also checked by TLC on
the constants of their runs.

**`RoomGameProofs`** (with the lemmas of `RoomProofs`) proves, for any capacity, board, number of
ids, connections and ticks and any batch of commands:

    Spec => []TypeOK                  Spec => []IdsAreNotReused
    Spec => []CheckpointIsRestorable  Spec => []DepartedHaveNoEffect
    Spec => DeadStayDead              Spec => TickIsLocal

`SoundRoom` is the invariant of a room: it is well-typed and its next id is fresh (`RoomOK`), at
most one command of a player is queued (`PendingOK`), and everything the checks of
`restore_checkpoint` ask for holds (`Restorable`). A tick settles its batch with the recursive function
`ProcessBatch`; what it does to a player is shown by induction on the number of commands
settled. The installed provers cannot use an induction theorem that takes a predicate, so
`LeastNumber` derives from the well-foundedness of `<` that a non-empty set of numbers has a
least element, `SetInduction` that a set closed under successor is `Nat`, and the proofs apply it
to the set of numbers that have the property. `GamestateAssumption` says that the initial hit
points are a whole number of hits, as in the code (100 and 10): `attack_player` subtracts without
a lower bound, so for other constants the last hit would leave a negative number, which
`restore_checkpoint` refuses. `GameOK` therefore carries that everybody has a whole number of
hits left.

**`RoomServiceProofs`** proves, for any set of connections and tokens, any finite set of rooms
and any capacity, window and bounds, from `GamestateAssumption`, `RoomAssumption` and
`RoomServiceAssumption`:

    Spec => []TypeOK                    Spec => []SeatsHaveSessions
    Spec => []BindingsAreOnline         Spec => []ConnectionsAgree
    Spec => []GamesMatchMembers         Spec => []RostersAreAccurate
    Spec => []CheckpointsAreRestorable  Spec => []OneCommandPerTick
    Spec => SeatKeptInWindow            Spec => OwnCloseOnly

None of the four about the tables is inductive alone. The invariant `Inv` joins them with
`RoomsOK` (every room is well-typed, its game matches its members, and `next_player_id` is above
every member: needed so that a join does not overwrite a seat) and `SavedOK` (the checkpoint on
disk holds such rooms and sessions: needed for `Restart`). `ConnectionsAgree` is needed for
`BindingsAreOnline` when a connection closes, and `BindingsAreOnline` for `SeatsHaveSessions`
when a player leaves. `ConnectionsAgree` says that pointers lead to bound connections, and not
that bound addresses have pointers: `RoomService` allows frames behind the close of their
connection, after which an address can stay bound without one. No run checks it; the
direction that needs the transport is `SpeakersAreReached`. `RoomProofs` shows what each operation of a room keeps; then one lemma
per action shows that it keeps `Inv`; `Invariance` combines them. On top of it, `Soundness` says
that every room is a `SoundRoom` and the saved checkpoint one that the next process accepts;
the sessions of a checkpoint are as many as its seats because `SeatsHaveSessions` is a bijection.
`RostersOK` adds to `RostersAreAccurate` that the connection of every session is an object that
still exists. The two action properties follow from `Inv`, action by action.

**`ServerProofs`** proves of the transport, for any number of addresses, descriptors and tasks, from
`TcpServerAssumption`:

    TcpSpec => []ClosedOnce    TcpSpec => []DescriptorsAreOwned

`ClosedOnce` counts tasks, so `TcpInv` says which task each phase of a connection has left
behind (`PhaseOK`: "established" while it connects, the removal between `handle_close` and the
report, "destroyed" between the report and the close of the descriptor, each once), what the
table holds (`TableOK`), and that open descriptors and objects that own one correspond
(`OwnersOK`). `FramesBeforeClose` adds the order of the base queue: **if no write of a
heartbeat's answer fails** (`~ AckWriteMayFail`), frames come before the removal of their
connection. The run `server_ack_failure` shows what happens without that hypothesis.

It proves of the composition

    Spec => TcpSpec        Spec => Service!Spec        Spec => []Service!Inv
    Spec => Service!SeatKeptInWindow /\ Service!OwnCloseOnly
    Spec => []NoSilentLoss
    ~ AckWriteMayFail gives Spec => []OnlineIsConnected and Spec => []SpeakersAreReached

The second is a refinement: under the mapping that reads `conns` off the state of the transport,
the steps of the I/O threads are invisible, and every step of the base thread is one of
`RoomService`, whose theorems therefore hold of the server. `OnlineIsConnected` and
`SpeakersAreReached` need that the service sees frames before closes (`FramesFirst`); then an
address is bound only to the session whose connection is there and open (`BoundAreOpen`). `NoSilentLoss` needs `RostersAreAccurate` and
`ClosingIsQueued`: every connection in `doomed` has "close" on its loop or is closing already.

**`ConnectionProofs`** proves, for any limit, marks, frame sizes and queue length, from
`ConnectionAssumption`:

    Spec => []TypeOK    Spec => []DebtIsExact    Spec => []OutputIsArmed

`ConnInv` joins them with `OnlySendsCarry` (only send tasks carry bytes) and `PathsOK` (the paths on
which the I/O thread gives bytes up or returns without arming belong to a connection that is
not up). The three need each other: what a thread holds is part of the debt, so the debt bounds
it; only the I/O thread takes away from the debt, so what it loaded covers what it releases.
The bytes of the queue are a recursive function (`Bytes`); that an append adds the task's bytes
and taking the head removes them is shown by induction on the length.

**`LifecycleProofs`** proves, for any number of I/O threads and any bound of the queues, from
`EventLoopAssumption` and `LifecycleAssumption`:

    Spec => []NoLostWakeup    Spec => []NothingDangles    Spec => []SavedAtEnd

`NoLostWakeup` speaks of a loop that sleeps, and is lost if the loop may fall asleep with
unannounced work; `Awake` says of every loop outside its callbacks that a queued task is
announced, by a written eventfd whose edge is not yet reported or by a thread about to write
it. Only the callback of the eventfd empties it, and the loop takes its tasks before it leaves
that round. The other two depend on what `main` has still to do. `LifeInv` says that `todo` is
`Starting` (the rest of the start: what is not there is still to be constructed, a thread that
does not run is still to be awaited, nothing was told to quit) or `Ending` (every thread that
runs is still to be joined, before anything it uses is destroyed and before `main` returns;
what is not saved is still to be saved, before `~ShutdownSignal` lets a signal through). Lemmas
about concatenation show that `Startup` is `Starting`, and that every rollback followed by the
destructors is `Ending`; one lemma per kind of step shows that it keeps `LifeInv`.

**`PersistenceProofs`** proves, for any number of generations and versions, from
`PersistenceAssumption`:

    Spec => []AlwaysLoadable      Spec => []StopIsDurable
    Spec => []CommittedIsDurable  Spec => FileIsAtomic

`FileIsAtomic` is the specification of `CheckpointFile` under the refinement mapping, so the
last one says that `Persistence` implements it. What is durable depends on how far two threads
have got, hence the parts of `Inv`: `Threads` (the writer runs only between start and stop; the
slot is empty outside), `Progress` (what the temporary file, the file and the synced directory
entry hold at each system call of a commit), `Ordered` (generations grow from the disk through
the writer's hands to the slot: without it a rename could replace newer by older) and `Final`
(from the last save on, the newest checkpoint holds the final state, and once `committed`
reaches `submitted` it is on disk: what makes a successful stop durable).

**`CodecsProofs`** proves, for every number of values of a byte, all widths, limits and lengths
of a stream, from the assumptions named in `Bytes`, `Protocol`, `Framing`, `Wire`,
`CheckpointCodec` and `Codecs`:

    Spec => []StreamIsFramed           Spec => []RequestsAreExact
    Spec => []RepliesAreUnambiguous    Spec => []DamageIsRefused
    Spec => []ReadsBack
    TokensAreNoRooms gives Spec => []DamageIsDetected

The layouts are built with folds and recursive functions. What one of them computes is shown
without a rule of induction: `UpTo` says that a set with 0 and the successors of its elements
has every number, and `TableExists` that a recursion has a table of values that satisfies its
equations. On these rest the laws of `Power`, that `Bytes` and `Value` are inverse
(`ValueOfBytes`, `BytesOfValue`), and what `Concat` is at each of its places.

* *Stream.* `FramingInv` says that the frames delivered, encoded again, and the contents of the
  buffer are what was received; that the decoder waits only when no frame is whole; and that
  the connection is closed only over an illegal length or a refused frame. The work is in
  `MakeSpace`, which may move the contents or grow the buffer, and in `NextFrame`, whose type and
  payload must encode to the bytes they were taken from.
* *Requests and replies.* For each kind, both directions: what the decoder accepts is a layout of
  the request it yields, and a layout is accepted. The replies are taken apart field by field
  (`Aligned`, `Pair`); lists are told apart by their count, then entry by entry, since a name
  states its length before its bytes.
* *Damage.* `FileInv` says that the file is as encode wrote it, or differs in one byte, or in its
  length. A step of FNV-1a is injective in the hash and in the byte, because an odd prime is
  invertible modulo 2^64 and an exclusive or can be undone (`ChecksumAssumption`); so two
  payloads that differ in one byte have different checksums, for certain and not only in most
  cases. Size and checksum are in the header, and they and the version are compared.
* *Reading back.* Every reader is shown to be at the place where the next record was laid out
  (`RoomsPlaced`, `SessionsPlaced`), and the checks of a count against the bytes that remain
  (`MinRoomSize` and so on) never to refuse what encode writes.
* *Counts.* The two counts of the header are outside the checksum. With more or fewer sessions
  the reader does not stop at the end of the file. With fewer rooms, sessions begin inside
  the rooms, and sessions of the size their tokens must have do not fill the rest. With
  more rooms, a session would have to be read as a room: its token lies where the state of
  the room is read, and a hexadecimal digit is no state. This is `TokensAreNoRooms`: tokens
  are longer than two 64-bit fields, and their digits are at least 3. In the code tokens have 32
  characters from `'0'` on. The instance of TLC has tokens of one byte, so the hypothesis is
  false there; TLC checks `DamageIsDetected` on it all the same, and it holds for other reasons.

Only model-checked: liveness (`OfflineIsSettled`, `ClosesComplete`, `StopEnds`, `SlotIsServed`,
`EofCloses`, `SignalEndsProcess`), since fairness and ENABLED are beyond the prover. The two runs
that find a violation have no theorem.

## 5. Not modelled

* The logger: output under one mutex, no state that anything reads.
* `http.cpp`, `router.cpp` and `thread_pool.cpp`: remains of an earlier server; the
  Makefile links none of them into the room server and `main` does not use them.
* The load generator and the benchmarks: clients, no part of the server.
* A failing `epoll_wait` of an I/O loop (with valid arguments it fails with EINTR only, which the
  loop handles), failing allocations, and which I/O loop a new connection gets (any).
* The wording of log lines and error replies; player names beyond validity outside the codecs.

`Room::finish` is modelled in `RoomGame` only, because nothing in the server calls it.
`PROJECT.json` has a line on each part and on the hazards that no property covers.

## 6. Plan

Done, in this order: `Gamestate`, `Room`, `RoomGame`, `RoomService` and its proofs, `TcpServer`,
`Server`, `CheckpointFile`, `Persistence`, `Connection`, `EventLoop`, `Lifecycle`, the codecs, the
proofs about `Persistence`, `RoomGame`, the rest of `RoomService`, `TcpServer`, `Server`,
`Connection` and `Lifecycle`, and those about the codecs.

Next:

* That the rooms are not changed after the last save, as an action property of `Lifecycle`.
