----------------------------- MODULE Lifecycle -----------------------------
(***************************************************************************)
(* The process from main to its end: the objects main constructs, starts,  *)
(* stops and destroys, with every failure on the way, the I/O threads of   *)
(* the pool, the timers, the signals SIGINT and SIGTERM, and the loops.    *)
(*                                                                         *)
(* What main has still to do is a sequence of steps; a failure replaces it *)
(* by the rollback main has for it and the destructors.  What the rooms    *)
(* hold is only compared with what is saved.  EventLoop has the loops;     *)
(* Persistence the final save, one step here.                              *)
(***************************************************************************)
EXTENDS EventLoop, Sequences, Functions

CONSTANTS
    Base,       \* base_loop, and the main thread
    Workers,    \* the sequence of I/O threads of the pool
    Busy,       \* bound: the I/O threads that have connections
    MaxQueue    \* bound: tasks queued on a loop

ASSUME LifecycleAssumption ==
    /\ Workers \in Seq(Loops) /\ IsInjective(Workers)
    /\ Loops = {Base} \cup Range(Workers)
    /\ Base \notin Range(Workers)
    /\ Busy \subseteq Range(Workers)
    /\ MaxQueue \in Nat

VARIABLES
    todo,       \* what main has still to do
    alive,      \* objects that exist
    watched,    \* descriptors in the callbacks of the base loop
    thread,     \* the I/O threads
    dirty,      \* the rooms hold something that is not saved
    failed,     \* some step of main failed: the exit code is 1
    blocked,    \* SIGINT and SIGTERM are blocked
    pending,    \* a blocked signal waits
    outcome     \* "none", "exit", or "killed" by a signal

mainVars == <<alive, watched, dirty, failed>>
signalVars == <<blocked, pending, outcome>>
vars == <<loopVars, todo, thread, mainVars, signalVars>>

Io == Range(Workers)

-----------------------------------------------------------------------------
(* What main does, in order. *)

\* Two steps for every thread of the pool, in turn.
ForEachWorker(first, second) ==
    [i \in 1 .. 2 * Len(Workers) |->
        <<IF i % 2 = 1 THEN first ELSE second, Workers[(i + 1) \div 2]>>]

\* ~EventLoopThread, thread by thread.
StopThreads == ForEachWorker("quit", "join")

\* TcpServer::start: the listening socket, then EventLoopThreadPool::start.
StartServer == <<<<"listen", "server">>>> \o ForEachWorker("spawn", "await")

\* ~TcpServer and its members.
DestroyServer ==
    <<<<"unlisten", "server">>>> \o [i \in 1 .. Len(Workers) |-> <<"post", Workers[i]>>]
    \o StopThreads \o <<<<"destroy", "server">>>>

Startup ==
    <<<<"construct", "loop">>, <<"construct", "signal">>, <<"construct", "rooms">>,
      <<"construct", "persistence">>, <<"construct", "tick">>,
      <<"construct", "server">>, <<"construct", "timeout">>>>
    \o StartServer
    \o <<<<"start", "tick">>, <<"start", "timeout">>, <<"start", "persistence">>,
         <<"start", "signal">>, <<"run", "loop">>>>

\* The objects go in the reverse order of their construction.
Destructors ==
    <<<<"destroy", "timeout">>>> \o DestroyServer
    \o <<<<"destroy", "tick">>, <<"destroy", "persistence">>, <<"destroy", "rooms">>,
         <<"destroy", "signal">>, <<"destroy", "loop">>, <<"exit", "process">>>>

\* Mutant: the final save is left to the destructors.
CleanupWithoutSave(step) ==
    CASE step = <<"run", "loop">> ->
           <<<<"stop", "timeout">>, <<"stop", "tick">>, <<"stop", "signal">>>>
      [] OTHER -> <<>>

\* What main does before it returns, after a failure or the end of the loop.
Cleanup(step) ==
    CASE step = <<"run", "loop">> ->
           <<<<"stop", "timeout">>, <<"stop", "tick">>, <<"stop", "persistence">>,
             <<"stop", "signal">>>>
      [] step = <<"start", "signal">> ->
           <<<<"stop", "timeout">>, <<"stop", "tick">>, <<"stop", "persistence">>>>
      [] step = <<"start", "persistence">> -> <<<<"stop", "timeout">>, <<"stop", "tick">>>>
      [] step = <<"start", "timeout">> -> <<<<"stop", "tick">>>>
      [] step[1] = "await" -> StopThreads \o <<<<"unlisten", "server">>>>
      [] OTHER -> <<>>

Init ==
    /\ LoopInit
    /\ todo = Startup
    /\ alive = {}
    /\ watched = {}
    /\ thread = [w \in Io |-> "none"]
    /\ dirty = FALSE
    /\ failed = FALSE
    /\ blocked = FALSE
    /\ pending = FALSE
    /\ outcome = "none"

\* main is at a step, outside loop().
AtStep(op, x) ==
    /\ outcome = "none"
    /\ todo # <<>>
    /\ Head(todo) = <<op, x>>
    /\ at[Base] = "out"
    /\ Free(Base)

Succeed == todo' = Tail(todo) /\ UNCHANGED failed

\* The step fails, and main returns 1.
Abort == todo' = Cleanup(Head(todo)) \o Destructors /\ failed' = TRUE

-----------------------------------------------------------------------------
(* Construction, start, stop and destruction. *)

Objects == {"loop", "signal", "rooms", "persistence", "tick", "server", "timeout"}

\* A constructor whose object is valid, or not (TcpServer always is);
\* ShutdownSignal blocks the signals.  rooms includes the checkpoint's directory,
\* persistence the load and the default room.
Construct(x) ==
    /\ AtStep("construct", x)
    /\ \/ Succeed /\ alive' = alive \cup {x} /\ blocked' = (blocked \/ x = "signal")
       \/ x # "server" /\ Abort /\ UNCHANGED <<alive, blocked>>
    /\ UNCHANGED <<loopVars, thread, watched, dirty, pending, outcome>>

\* create_listen_socket and add_fd.
Listen ==
    /\ AtStep("listen", "server")
    /\ \/ Succeed /\ watched' = watched \cup {"listen"}
       \/ Abort /\ UNCHANGED watched
    /\ UNCHANGED <<loopVars, thread, alive, dirty, signalVars>>

\* close_listen_socket.
Unlisten ==
    /\ AtStep("unlisten", "server")
    /\ Succeed
    /\ watched' = watched \ {"listen"}
    /\ UNCHANGED <<loopVars, thread, alive, dirty, signalVars>>

\* start() of a timer, the persistence service or the signals: the descriptor
\* is registered, or nothing is left of it.
Start(x) ==
    /\ AtStep("start", x)
    /\ \/ Succeed /\ watched' = watched \cup {x}
       \/ Abort /\ UNCHANGED watched
    /\ UNCHANGED <<loopVars, thread, alive, dirty, signalVars>>

\* stop() of a timer or of the signals, with or without an error.  A descriptor
\* that epoll_ctl fails to remove makes no difference: the loop has ended.
Stop(x) ==
    /\ x # "persistence"
    /\ AtStep("stop", x)
    /\ todo' = Tail(todo)
    /\ watched' = watched \ {x}
    /\ failed' \in {failed, TRUE}
    /\ UNCHANGED <<loopVars, thread, alive, dirty, signalVars>>

\* PersistenceService::stop: its timer is stopped, the rooms are saved and the
\* save awaited; whatever fails, the service is stopped.
StopPersistence ==
    /\ AtStep("stop", "persistence")
    /\ todo' = Tail(todo)
    /\ watched' = watched \ {"persistence"}
    /\ \/ dirty' = FALSE /\ failed' \in {failed, TRUE}
       \/ failed' = TRUE /\ UNCHANGED dirty
    /\ UNCHANGED <<loopVars, thread, alive, signalVars>>

\* A destructor: a descriptor that is closed leaves epoll; ~ShutdownSignal
\* unblocks the signals, and one that waits kills the process.
Destroy(x) ==
    /\ AtStep("destroy", x)
    /\ Succeed
    /\ alive' = alive \ {x}
    /\ watched' = watched \ {x}
    /\ blocked' = (blocked /\ x # "signal")
    /\ outcome' = IF x = "signal" /\ pending THEN "killed" ELSE "none"
    /\ UNCHANGED <<loopVars, thread, dirty, pending>>

Exit ==
    /\ AtStep("exit", "process")
    /\ Succeed
    /\ outcome' = "exit"
    /\ UNCHANGED <<loopVars, thread, alive, watched, dirty, blocked, pending>>

-----------------------------------------------------------------------------
(* The pool and its threads. *)

\* EventLoopThread::start_loop: the thread is created, then awaited.
Spawn(w) ==
    /\ AtStep("spawn", w)
    /\ Succeed
    /\ thread' = [thread EXCEPT ![w] = "starting"]
    /\ UNCHANGED <<loopVars, alive, watched, dirty, signalVars>>

Await(w) ==
    /\ AtStep("await", w)
    /\ \/ thread[w] = "running" /\ Succeed
       \/ thread[w] = "failed" /\ Abort
    /\ UNCHANGED <<loopVars, thread, alive, watched, dirty, signalVars>>

\* Mutant: a loop that is not valid is not reported.
ThreadStartsSilently(w) ==
    /\ thread[w] = "starting"
    /\ \/ thread' = [thread EXCEPT ![w] = "running"] /\ EnterLoop(w)
       \/ thread' = [thread EXCEPT ![w] = "ended"] /\ UNCHANGED at
    /\ UNCHANGED <<queue, batch, quit, written, edge, ready, waking, todo, mainVars, signalVars>>

\* thread_func: the loop is published and entered, or is not valid.
ThreadStarts(w) ==
    /\ thread[w] = "starting"
    /\ \/ thread' = [thread EXCEPT ![w] = "running"] /\ EnterLoop(w)
       \/ thread' = [thread EXCEPT ![w] = "failed"] /\ UNCHANGED at
    /\ UNCHANGED <<queue, batch, quit, written, edge, ready, waking, todo, mainVars, signalVars>>

\* Mutant: the thread does not wait for the mutex.
ThreadEndsUnlocked(w) ==
    /\ thread[w] = "running"
    /\ at[w] = "out"
    /\ Free(w)
    /\ thread' = [thread EXCEPT ![w] = "ended"]
    /\ UNCHANGED <<loopVars, todo, mainVars, signalVars>>

\* thread_func: loop() has returned; the loop goes once the mutex, which
\* ~EventLoopThread holds while it calls quit, is free.
ThreadEnds(w) ==
    /\ thread[w] = "running"
    /\ at[w] = "out"
    /\ Free(w)
    /\ ~ (quit[w] /\ waking[Base] = w)
    /\ thread' = [thread EXCEPT ![w] = "ended"]
    /\ UNCHANGED <<loopVars, todo, mainVars, signalVars>>

\* ~EventLoopThread.
QuitThread(w) ==
    /\ AtStep("quit", w)
    /\ Succeed
    /\ IF thread[w] = "running" THEN SetQuit(Base, w) ELSE UNCHANGED <<quit, waking>>
    /\ UNCHANGED <<queue, batch, written, edge, at, ready, thread, alive, watched,
                   dirty, signalVars>>

Join(w) ==
    /\ AtStep("join", w)
    /\ thread[w] \in {"none", "failed", "ended"}
    /\ Succeed
    /\ UNCHANGED <<loopVars, thread, alive, watched, dirty, signalVars>>

\* A task or a callback of t may queue a task.
MayPost(t, targets) ==
    \/ UNCHANGED <<queue, waking>>
    \/ \E l \in targets : queue[l] < MaxQueue /\ QueueInLoop(t, l)

\* ~TcpServer posts connect_destroyed for the connections of w, if any.
PostDestroyed(w) ==
    /\ AtStep("post", w)
    /\ Succeed
    /\ MayPost(Base, {w} \cap {v \in Busy : thread[v] = "running"})
    /\ UNCHANGED <<batch, quit, written, edge, at, ready, thread, alive, watched,
                   dirty, signalVars>>

-----------------------------------------------------------------------------
(* The base loop. *)

Run ==
    /\ AtStep("run", "loop")
    /\ ~ quit[Base]
    /\ EnterLoop(Base)
    /\ UNCHANGED <<queue, batch, quit, written, edge, ready, waking, todo, thread, mainVars,
                   signalVars>>

\* loop() has returned true; or epoll_wait fails.
LoopReturns ==
    /\ AtStep("run", "loop")
    /\ quit[Base]
    /\ todo' = Cleanup(Head(todo)) \o Destructors
    /\ UNCHANGED <<loopVars, thread, mainVars, signalVars>>

LoopFails ==
    /\ at[Base] = "wait"
    /\ at' = [at EXCEPT ![Base] = "out"]
    /\ Abort
    /\ UNCHANGED <<queue, batch, quit, written, edge, ready, waking, thread, alive, watched, dirty, signalVars>>

\* Timers and clients are ready at any time, the signals if one waits.
WaitOnBase(events) ==
    /\ EpollWait(Base, events \cup (IF pending THEN {"signal"} \cap watched ELSE {}))
    /\ UNCHANGED <<todo, thread, mainVars, signalVars>>

\* handle_accept, and the callbacks of the timers; the checkpoint's timer saves.
RunCallback(x) ==
    /\ Free(Base)
    /\ x \in watched \ {"signal"}
    /\ Callback(Base, x, FALSE)
    /\ dirty' \in IF x \in {"tick", "timeout"} THEN {dirty, TRUE}
                  ELSE IF x = "persistence" THEN {dirty, FALSE} ELSE {dirty}
    /\ MayPost(Base, Busy)
    /\ UNCHANGED <<batch, quit, written, edge, at, todo, thread, alive, watched,
                   failed, signalVars>>

\* ShutdownSignal::handle_read.
HandleSignal ==
    /\ Free(Base)
    /\ Callback(Base, "signal", TRUE)
    /\ SetQuit(Base, Base)
    /\ pending' = FALSE
    /\ UNCHANGED <<queue, batch, written, edge, at, todo, thread, mainVars, blocked, outcome>>

\* A frame or the close of a connection.
RunBaseTask ==
    /\ Free(Base)
    /\ RunTask(Base)
    /\ dirty' \in {dirty, TRUE}
    /\ MayPost(Base, Busy)
    /\ UNCHANGED <<quit, written, edge, at, ready, todo, thread, alive, watched,
                   failed, signalVars>>

-----------------------------------------------------------------------------
(* An I/O loop. *)

WaitOnIo(w, events) == EpollWait(w, events) /\ UNCHANGED <<todo, thread, mainVars, signalVars>>

\* An event of a connection posts frames or a close.
RunTraffic(w) ==
    /\ Free(w)
    /\ Callback(w, "traffic", FALSE)
    /\ MayPost(w, {Base})
    /\ UNCHANGED <<batch, quit, written, edge, at, todo, thread, mainVars, signalVars>>

RunIoTask(w) ==
    /\ Free(w)
    /\ RunTask(w)
    /\ MayPost(w, {Base})
    /\ UNCHANGED <<quit, written, edge, at, ready, todo, thread, mainVars, signalVars>>

-----------------------------------------------------------------------------

\* SIGINT or SIGTERM.
Signal ==
    /\ IF blocked THEN pending' = TRUE /\ UNCHANGED outcome
                  ELSE outcome' = "killed" /\ UNCHANGED pending
    /\ UNCHANGED <<loopVars, todo, thread, mainVars, blocked>>

MainStep ==
    \/ \E x \in Objects : Construct(x) \/ Start(x) \/ Stop(x) \/ Destroy(x)
    \/ StopPersistence \/ Listen \/ Unlisten \/ Exit \/ Run \/ LoopReturns
    \/ \E w \in Io : Spawn(w) \/ Await(w) \/ QuitThread(w) \/ Join(w) \/ PostDestroyed(w)
    \/ \E x \in watched : RunCallback(x)
    \/ HandleSignal \/ RunBaseTask
    \/ WaitOnBase({})
    \/ (LoopStep(Base) \/ Wakeup(Base)) /\ UNCHANGED <<todo, thread, mainVars, signalVars>>

IoStep(w) ==
    \/ ThreadStarts(w) \/ ThreadEnds(w) \/ RunTraffic(w) \/ RunIoTask(w)
    \/ WaitOnIo(w, {})
    \/ (LoopStep(w) \/ Wakeup(w)) /\ UNCHANGED <<todo, thread, mainVars, signalVars>>

Next ==
    \/ /\ outcome = "none"
       /\ \/ MainStep
          \/ LoopFails
          \/ Signal
          \/ \E events \in SUBSET (watched \ {"signal"}) : WaitOnBase(events)
          \/ \E w \in Io : IoStep(w)
          \/ \E w \in Busy : WaitOnIo(w, {"traffic"})
    \/ outcome # "none" /\ UNCHANGED vars       \* the process is gone

Spec == Init /\ [][Next]_vars

\* Every thread runs.  No client, timer or signal has to do anything.
FairSpec ==
    /\ Spec
    /\ WF_vars(outcome = "none" /\ MainStep)
    /\ \A w \in Io : WF_vars(outcome = "none" /\ IoStep(w))

-----------------------------------------------------------------------------

\* Whoever is about to write an eventfd writes that of a loop that exists; I/O
\* threads, which reach the server, the rooms and the base loop through their
\* callbacks, run only while those exist, and none is left when main returns.
\* (~EventLoopThread, thread_func, the order of destruction in main.)
NothingDangles ==
    LET exists(l) == IF l = Base THEN "loop" \in alive ELSE thread[l] = "running"
    IN  /\ \A t \in Loops : waking[t] # NoLoop => exists(waking[t])
        /\ \A w \in Io : thread[w] \in {"starting", "running"} =>
                            {"loop", "rooms", "server"} \subseteq alive
        /\ outcome = "exit" => \A w \in Io : thread[w] \notin {"starting", "running"}

\* However the process ends, by return or by a second signal during the shutdown,
\* the rooms' last state is saved unless main reports a failure: no tick, timeout
\* or task comes after the last save.
SavedAtEnd == outcome # "none" /\ ~ failed => ~ dirty

\* A signal that arrives once ShutdownSignal has blocked it, at start, in the loop or
\* in the middle of a shutdown, ends the process: no thread waits for ever.
SignalEndsProcess == pending ~> outcome # "none"
=============================================================================
