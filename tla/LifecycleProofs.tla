-------------------------- MODULE LifecycleProofs --------------------------
(***************************************************************************)
(* Two invariants of the process, for any number of I/O threads, in every  *)
(* state that main, its threads, timers and signals can reach.             *)
(*                                                                         *)
(* No wake-up is lost: NoLostWakeup alone is not inductive, for it says    *)
(* nothing of a loop that is about to sleep.  Awake says of a loop         *)
(* everywhere but in its callbacks that a task in its queue is announced;  *)
(* only the callbacks may empty the eventfd, and the tasks are taken       *)
(* before the loop is back outside them.                                   *)
(*                                                                         *)
(* Nothing dangles, and the rooms are saved: both depend on what main has  *)
(* still to do.  LifeInv says what may be left of it: Starting, the rest   *)
(* of Startup, in which what is not yet there is still to be constructed,  *)
(* spawned or awaited; or Ending, in which every thread that runs is still *)
(* to be joined before what it uses is destroyed, and what is not saved is *)
(* still to be saved before the signals are let through.                   *)
(***************************************************************************)
EXTENDS Lifecycle, SequenceTheorems, TLAPS

Signalled(l) == (edge[l] /\ written[l]) \/ \E t \in Loops : waking[t] = l

Awake(l) ==
    /\ at[l] # "events" /\ queue[l] > 0 => Signalled(l)
    /\ at[l] = "wait" /\ quit[l] => Signalled(l)

\* The tables of the loops that queue_in_loop, quit and wakeup touch.
LoopTypes ==
    /\ queue \in [Loops -> Nat]
    /\ quit \in [Loops -> BOOLEAN]
    /\ written \in [Loops -> BOOLEAN]
    /\ edge \in [Loops -> BOOLEAN]
    /\ at \in [Loops -> {"out", "check", "wait", "events", "tasks"}]
    /\ waking \in [Loops -> Loops \cup {NoLoop}]

WakeInv == LoopTypes /\ \A l \in Loops : Awake(l)

\* What NoLostWakeup and Awake depend on.
wakeVars == <<queue, quit, written, edge, at, waking>>

-----------------------------------------------------------------------------
(* One lemma for each way a step touches the loops. *)

\* A step that changes none of the tables keeps the invariant.
LEMMA SameKeeps ==
    ASSUME WakeInv, UNCHANGED wakeVars
    PROVE  WakeInv'
  BY DEF WakeInv, LoopTypes, Awake, Signalled, wakeVars

\* wakeup() makes good what the thread owed (EventLoop::wakeup).
LEMMA WakeupKeeps ==
    ASSUME WakeInv, NEW t \in Loops, Wakeup(t)
    PROVE  WakeInv'
  <1> DEFINE m == waking[t]
  <1>1. m \in Loops
    BY DEF WakeInv, LoopTypes, Wakeup
  <1>2. LoopTypes'
    BY <1>1 DEF WakeInv, LoopTypes, Wakeup
  <1>3. ASSUME NEW l \in Loops PROVE Awake(l)'
    <2>1. CASE l = m
      <3>1. edge'[l] /\ written'[l]
        BY <1>1, <2>1 DEF WakeInv, LoopTypes, Wakeup
      <3> QED BY <3>1 DEF Awake, Signalled
    <2>2. CASE l # m
      <3>1. Signalled(l) => Signalled(l)'
        <4>1. edge'[l] = edge[l] /\ written'[l] = written[l]
          BY <1>1, <2>2 DEF WakeInv, LoopTypes, Wakeup
        <4>2. \A s \in Loops : waking[s] = l => waking'[s] = l
          BY <2>2 DEF WakeInv, LoopTypes, Wakeup
        <4> QED BY <4>1, <4>2 DEF Signalled
      <3>2. at' = at /\ queue' = queue /\ quit' = quit
        BY DEF Wakeup
      <3> QED BY <3>1, <3>2 DEF WakeInv, Awake
    <2> QED BY <2>1, <2>2
  <1> QED BY <1>2, <1>3 DEF WakeInv

\* A thread that owes no wake-up and takes one on for m: a task for m is
\* queued, or m is told to quit (queue_in_loop and quit, up to the write).
LEMMA OweKeeps ==
    ASSUME WakeInv, NEW t \in Loops, NEW m \in Loops, Free(t),
           waking' = [waking EXCEPT ![t] = m],
           queue' \in [Loops -> Nat], quit' \in [Loops -> BOOLEAN],
           \A l \in Loops \ {m} : queue'[l] = queue[l] /\ quit'[l] = quit[l],
           UNCHANGED <<written, edge, at>>
    PROVE  WakeInv'
  <1>1. LoopTypes'
    BY DEF WakeInv, LoopTypes
  <1>2. waking'[t] = m
    BY DEF WakeInv, LoopTypes
  <1>3. ASSUME NEW l \in Loops PROVE Awake(l)'
    <2>1. CASE l = m
      BY <1>2, <2>1 DEF Awake, Signalled
    <2>2. CASE l # m
      <3>1. \A s \in Loops : waking[s] = l => waking'[s] = l
        BY EventLoopAssumption DEF WakeInv, LoopTypes, Free
      <3>2. Signalled(l) => Signalled(l)'
        BY <3>1 DEF Signalled
      <3>3. queue'[l] = queue[l] /\ quit'[l] = quit[l] /\ at'[l] = at[l]
        BY <2>2
      <3> QED BY <3>2, <3>3 DEF WakeInv, Awake
    <2> QED BY <2>1, <2>2
  <1> QED BY <1>1, <1>3 DEF WakeInv

\* A loop outside its callbacks goes on, and to sleep only if it need not quit
\* (EventLoop::loop).
LEMMA MoveKeeps ==
    ASSUME WakeInv, NEW m \in Loops, NEW x \in {"out", "check", "wait", "tasks"},
           at[m] # "events", x = "wait" => ~ quit[m],
           at' = [at EXCEPT ![m] = x],
           UNCHANGED <<queue, quit, written, edge, waking>>
    PROVE  WakeInv'
  <1>1. LoopTypes'
    BY DEF WakeInv, LoopTypes
  <1>2. ASSUME NEW l \in Loops PROVE Awake(l)'
    <2>1. Signalled(l)' <=> Signalled(l)
      BY DEF Signalled
    <2>2. at'[l] = IF l = m THEN x ELSE at[l]
      BY DEF WakeInv, LoopTypes
    <2> QED BY <2>1, <2>2 DEF WakeInv, Awake
  <1> QED BY <1>1, <1>2 DEF WakeInv

\* epoll_wait returns: the loop is among its callbacks.
LEMMA EpollKeeps ==
    ASSUME WakeInv, NEW m \in Loops, NEW events, EpollWait(m, events)
    PROVE  WakeInv'
  <1>1. /\ at' = [at EXCEPT ![m] = "events"]
        /\ edge' = [edge EXCEPT ![m] = FALSE]
        /\ UNCHANGED <<queue, quit, written, waking>>
    BY DEF EpollWait
  <1>2. LoopTypes'
    BY <1>1 DEF WakeInv, LoopTypes
  <1>3. ASSUME NEW l \in Loops PROVE Awake(l)'
    <2>1. CASE l = m
      BY <1>1, <2>1 DEF WakeInv, LoopTypes, Awake
    <2>2. CASE l # m
      BY <1>1, <2>2 DEF WakeInv, LoopTypes, Awake, Signalled
    <2> QED BY <2>1, <2>2
  <1> QED BY <1>2, <1>3 DEF WakeInv

\* A callback empties the eventfd (handle_wakeup).
LEMMA HandleWakeupKeeps ==
    ASSUME WakeInv, NEW m \in Loops, HandleWakeup(m)
    PROVE  WakeInv'
  <1>1. /\ at[m] = "events"
        /\ written' = [written EXCEPT ![m] = FALSE]
        /\ UNCHANGED <<queue, quit, edge, at, waking>>
    BY DEF HandleWakeup, Callback
  <1>2. LoopTypes'
    BY <1>1 DEF WakeInv, LoopTypes
  <1>3. ASSUME NEW l \in Loops PROVE Awake(l)'
    <2>1. CASE l = m
      BY <1>1, <2>1 DEF Awake
    <2>2. CASE l # m
      BY <1>1, <2>2 DEF WakeInv, LoopTypes, Awake, Signalled
    <2> QED BY <2>1, <2>2
  <1> QED BY <1>2, <1>3 DEF WakeInv

\* The callbacks are over: the queue is emptied (do_pending_functors).
LEMMA TakeTasksKeeps ==
    ASSUME WakeInv, NEW m \in Loops, TakeTasks(m)
    PROVE  WakeInv'
  <1>1. /\ at' = [at EXCEPT ![m] = "tasks"]
        /\ queue' = [queue EXCEPT ![m] = 0]
        /\ UNCHANGED <<quit, written, edge, waking>>
    BY DEF TakeTasks
  <1>2. LoopTypes'
    BY <1>1 DEF WakeInv, LoopTypes
  <1>3. ASSUME NEW l \in Loops PROVE Awake(l)'
    <2>1. CASE l = m
      BY <1>1, <2>1 DEF WakeInv, LoopTypes, Awake
    <2>2. CASE l # m
      BY <1>1, <2>2 DEF WakeInv, LoopTypes, Awake, Signalled
    <2> QED BY <2>1, <2>2
  <1> QED BY <1>2, <1>3 DEF WakeInv

-----------------------------------------------------------------------------
(* The steps of main and of the I/O threads are steps of these kinds. *)

\* The steps of a round of loop().
LEMMA LoopStepKeeps ==
    ASSUME WakeInv, NEW l \in Loops, LoopStep(l) \/ Wakeup(l)
    PROVE  WakeInv'
  <1>1. CASE Wakeup(l)
    BY <1>1, WakeupKeeps
  <1>2. CASE CheckQuit(l)
    <2>1. CASE quit[l]
      BY <1>2, <2>1, MoveKeeps DEF CheckQuit
    <2>2. CASE ~ quit[l]
      BY <1>2, <2>2, MoveKeeps DEF CheckQuit
    <2> QED BY <2>1, <2>2
  <1>3. CASE HandleWakeup(l)
    BY <1>3, HandleWakeupKeeps
  <1>4. CASE TakeTasks(l)
    BY <1>4, TakeTasksKeeps
  <1>5. CASE TasksDone(l)
    BY <1>5, MoveKeeps DEF TasksDone
  <1> QED BY <1>1, <1>2, <1>3, <1>4, <1>5 DEF LoopStep

\* A task or callback that may post.
LEMMA MayPostKeeps ==
    ASSUME WakeInv, NEW t \in Loops, NEW targets \in SUBSET Loops, Free(t),
           MayPost(t, targets), UNCHANGED <<quit, written, edge, at>>
    PROVE  WakeInv'
  <1>1. CASE UNCHANGED <<queue, waking>>
    BY <1>1, SameKeeps DEF wakeVars
  <1>2. ASSUME NEW l \in targets, QueueInLoop(t, l) PROVE WakeInv'
    <2>1. /\ queue' \in [Loops -> Nat]
          /\ \A k \in Loops \ {l} : queue'[k] = queue[k]
      BY <1>2 DEF QueueInLoop, WakeInv, LoopTypes
    <2>2. quit' \in [Loops -> BOOLEAN]
      BY DEF WakeInv, LoopTypes
    <2> QED BY <1>2, <2>1, <2>2, OweKeeps DEF QueueInLoop
  <1> QED BY <1>1, <1>2 DEF MayPost

\* The steps of main outside the base loop.
LEMMA MainKeeps ==
    ASSUME WakeInv, MainStep
    PROVE  WakeInv'
  <1> USE LifecycleAssumption DEF Io
  <1>0. Base \in Loops /\ Io \subseteq Loops /\ Busy \subseteq Loops
    OBVIOUS
  <1>1. ASSUME NEW x \in Objects, Construct(x) \/ Start(x) \/ Stop(x) \/ Destroy(x)
        PROVE  WakeInv'
    BY <1>1, SameKeeps DEF Construct, Start, Stop, Destroy, loopVars, wakeVars
  <1>2. CASE StopPersistence \/ Listen \/ Unlisten \/ Exit \/ LoopReturns
    BY <1>2, SameKeeps DEF StopPersistence, Listen, Unlisten, Exit, LoopReturns, loopVars, wakeVars
  <1>3. CASE Run
    BY <1>0, <1>3, MoveKeeps DEF Run, EnterLoop
  <1>4. ASSUME NEW w \in Io, Spawn(w) \/ Await(w) \/ Join(w)
        PROVE  WakeInv'
    BY <1>4, SameKeeps DEF Spawn, Await, Join, loopVars, wakeVars
  <1>5. ASSUME NEW w \in Io, QuitThread(w) PROVE WakeInv'
    <2>1. CASE UNCHANGED <<quit, waking>>
      BY <1>5, <2>1, SameKeeps DEF QuitThread, wakeVars
    <2>2. CASE SetQuit(Base, w)
      <3>1. Base # w /\ w \in Loops
        BY <1>0
      <3>2. /\ quit' \in [Loops -> BOOLEAN]
            /\ \A k \in Loops \ {w} : quit'[k] = quit[k]
        BY <2>2 DEF SetQuit, WakeInv, LoopTypes
      <3>3. queue' \in [Loops -> Nat]
        BY <1>5 DEF QuitThread, WakeInv, LoopTypes
      <3>4. waking' = [waking EXCEPT ![Base] = w]
        BY <2>2, <3>1 DEF SetQuit
      <3> QED BY <1>0, <1>5, <3>1, <3>2, <3>3, <3>4, OweKeeps DEF QuitThread, AtStep
    <2> QED BY <1>5, <2>1, <2>2 DEF QuitThread
  <1>6. ASSUME NEW w \in Io, PostDestroyed(w) PROVE WakeInv'
    <2>1. {w} \cap {v \in Busy : thread[v] = "running"} \in SUBSET Loops
      BY <1>0
    <2> QED BY <1>0, <1>6, <2>1, MayPostKeeps DEF PostDestroyed, AtStep
  <1>7. ASSUME NEW x \in watched, RunCallback(x) PROVE WakeInv'
    BY <1>0, <1>7, MayPostKeeps DEF RunCallback
  <1>8. CASE HandleSignal
    <2>1. /\ at[Base] = "events"
          /\ quit' = [quit EXCEPT ![Base] = TRUE]
          /\ UNCHANGED <<queue, written, edge, at, waking>>
      BY <1>8 DEF HandleSignal, Callback, SetQuit
    <2>2. LoopTypes'
      BY <1>0, <2>1 DEF WakeInv, LoopTypes
    <2>3. ASSUME NEW l \in Loops PROVE Awake(l)'
      <3>1. Signalled(l)' <=> Signalled(l)
        BY <2>1 DEF Signalled
      <3>2. l # Base => quit'[l] = quit[l]
        BY <2>1 DEF WakeInv, LoopTypes
      <3> QED BY <2>1, <3>1, <3>2 DEF WakeInv, Awake
    <2> QED BY <2>2, <2>3 DEF WakeInv
  <1>9. CASE RunBaseTask
    BY <1>0, <1>9, MayPostKeeps DEF RunBaseTask
  <1>10. CASE WaitOnBase({})
    BY <1>0, <1>10, EpollKeeps DEF WaitOnBase
  <1>11. CASE LoopStep(Base) \/ Wakeup(Base)
    BY <1>0, <1>11, LoopStepKeeps
  <1> QED BY <1>1, <1>2, <1>3, <1>4, <1>5, <1>6, <1>7, <1>8, <1>9, <1>10, <1>11 DEF MainStep

\* The steps of an I/O thread.
LEMMA IoKeeps ==
    ASSUME WakeInv, NEW w \in Io, IoStep(w)
    PROVE  WakeInv'
  <1>0. w \in Loops /\ {Base} \in SUBSET Loops
    BY LifecycleAssumption DEF Io
  <1>1. CASE ThreadStarts(w)
    <2>1. CASE EnterLoop(w)
      BY <1>0, <1>1, <2>1, MoveKeeps DEF ThreadStarts, EnterLoop
    <2>2. CASE UNCHANGED at
      BY <1>1, <2>2, SameKeeps DEF ThreadStarts, wakeVars
    <2> QED BY <1>1, <2>1, <2>2 DEF ThreadStarts
  <1>2. CASE ThreadEnds(w)
    BY <1>2, SameKeeps DEF ThreadEnds, loopVars, wakeVars
  <1>3. CASE RunTraffic(w)
    BY <1>0, <1>3, MayPostKeeps DEF RunTraffic
  <1>4. CASE RunIoTask(w)
    BY <1>0, <1>4, MayPostKeeps DEF RunIoTask
  <1>5. CASE WaitOnIo(w, {})
    BY <1>0, <1>5, EpollKeeps DEF WaitOnIo
  <1>6. CASE LoopStep(w) \/ Wakeup(w)
    BY <1>0, <1>6, LoopStepKeeps
  <1> QED BY <1>1, <1>2, <1>3, <1>4, <1>5, <1>6 DEF IoStep

\* Every step of the process keeps the invariant.
LEMMA NextKeeps ==
    ASSUME WakeInv, [Next]_vars
    PROVE  WakeInv'
  <1>0. Base \in Loops /\ Io \subseteq Loops /\ Busy \subseteq Loops
    BY LifecycleAssumption DEF Io
  <1>1. CASE MainStep
    BY <1>1, MainKeeps
  <1>2. CASE LoopFails
    BY <1>0, <1>2, MoveKeeps DEF LoopFails
  <1>3. CASE Signal
    BY <1>3, SameKeeps DEF Signal, loopVars, wakeVars
  <1>4. ASSUME NEW events, WaitOnBase(events) PROVE WakeInv'
    BY <1>0, <1>4, EpollKeeps DEF WaitOnBase
  <1>5. ASSUME NEW w \in Io, IoStep(w) PROVE WakeInv'
    BY <1>5, IoKeeps
  <1>6. ASSUME NEW w \in Busy, WaitOnIo(w, {"traffic"}) PROVE WakeInv'
    BY <1>0, <1>6, EpollKeeps DEF WaitOnIo
  <1>7. CASE UNCHANGED vars
    BY <1>7, SameKeeps DEF vars, loopVars, wakeVars
  <1> QED BY <1>1, <1>2, <1>3, <1>4, <1>5, <1>6, <1>7 DEF Next

\* Every state of the process is in WakeInv.
THEOREM WakeInvariance == Spec => []WakeInv
  <1>1. Init => WakeInv
    BY EventLoopAssumption DEF Init, LoopInit, WakeInv, LoopTypes, Awake
  <1>2. WakeInv /\ [Next]_vars => WakeInv'
    BY NextKeeps
  <1> QED BY <1>1, <1>2, PTL DEF Spec

(***************************************************************************)
(* For every number of I/O threads, no loop of the process ever sleeps in  *)
(* epoll_wait with a task queued or its quit flag set and no wake-up on    *)
(* the way (EventLoop::queue_in_loop, quit, loop).                         *)
(***************************************************************************)
THEOREM WakeupsAreNotLost == Spec => []NoLostWakeup
  <1>1. WakeInv => NoLostWakeup
    BY DEF WakeInv, Awake, Signalled, NoLostWakeup
  <1> QED BY <1>1, WakeInvariance, PTL

-----------------------------------------------------------------------------
(* The sequence of main's steps.  What it may still hold is what the order *)
(* of main's scope allows: see Starting and Ending.                        *)

Has(s, e) == \E i \in 1 .. Len(s) : s[i] = e

\* Objects that the I/O threads use.
Core == {"loop", "rooms", "server"}

StartOps == {"construct", "listen", "spawn", "await", "start", "run"}
EndOps == {"stop", "unlisten", "post", "quit", "join", "destroy", "exit"}

StepOf == (StartOps \cup EndOps) \X (Objects \cup Io \cup {"process"})

\* main has not returned from the loop, nor failed: what is left of Startup.
Starting(s) ==
    /\ Has(s, <<"run", "loop">>)
    /\ \A i \in 1 .. Len(s) : s[i][1] \in StartOps /\ (s[i][1] = "run" => i = Len(s))
    /\ \A i, j \in 1 .. Len(s) : s[i][1] = "construct" /\ s[j][1] = "spawn" => i < j
    /\ \A w \in Io : \A i \in 1 .. Len(s) :
          s[i] = <<"spawn", w>> =>
              /\ \E j \in i + 1 .. Len(s) : s[j] = <<"await", w>>
              /\ \A j \in i + 1 .. Len(s) : s[j] # <<"spawn", w>>

\* main is on its way out: the threads are joined before what they use is
\* destroyed, and the rooms saved before the signals are let through.
LateSteps == {<<"destroy", x>> : x \in Core} \cup {<<"exit", "process">>}
Ending(s) ==
    /\ \A i \in 1 .. Len(s) : s[i][1] \in EndOps
    /\ \A i, j \in 1 .. Len(s) : s[i][1] = "join" /\ s[j] \in LateSteps => i < j
    /\ \A i, j \in 1 .. Len(s) :
          s[i] = <<"stop", "persistence">>
          /\ s[j] \in {<<"destroy", "signal">>, <<"exit", "process">>} => i < j

Active(w) == thread[w] \in {"starting", "running"}

LifeTypes ==
    /\ thread \in [Io -> {"none", "starting", "running", "failed", "ended"}]
    /\ dirty \in BOOLEAN /\ failed \in BOOLEAN
    /\ blocked \in BOOLEAN /\ pending \in BOOLEAN
    /\ outcome \in {"none", "exit", "killed"}
    /\ todo \in Seq(StepOf)

StartedOK ==
    Starting(todo) =>
        /\ \A x \in Core : x \in alive \/ Has(todo, <<"construct", x>>)
        /\ blocked \/ Has(todo, <<"construct", "signal">>)
        /\ \A w \in Io : /\ Has(todo, <<"spawn", w>>) => thread[w] = "none"
                         /\ thread[w] = "running" \/ Has(todo, <<"await", w>>)
                         /\ ~ quit[w]

ThreadsOK ==
    \A w \in Io :
        /\ Active(w) => Core \subseteq alive
        /\ Active(w) /\ Ending(todo) => Has(todo, <<"join", w>>)
        /\ Active(w) => outcome # "exit"
        /\ thread[w] # "running" => at[w] = "out"
        /\ thread[w] = "running" /\ at[w] = "out" => quit[w]
        /\ waking[w] \in {NoLoop, Base}
        /\ waking[w] = Base => thread[w] = "running"
        /\ waking[Base] = w => thread[w] = "running"

BaseOK ==
    /\ waking[Base] \in Io \cup {NoLoop}
    /\ at[Base] # "out" => Starting(todo) /\ Len(todo) = 1

SaveOK ==
    dirty /\ ~ failed =>
        /\ outcome = "none" /\ blocked
        /\ Starting(todo) \/ Has(todo, <<"stop", "persistence">>)

LifeInv ==
    /\ LifeTypes
    /\ Starting(todo) \/ Ending(todo)
    /\ StartedOK /\ ThreadsOK /\ BaseOK /\ SaveOK

-----------------------------------------------------------------------------
(* Sequences of steps. *)

\* What a concatenation holds, by index.
LEMMA CatFacts ==
    ASSUME NEW S, NEW a \in Seq(S), NEW b \in Seq(S)
    PROVE  /\ a \o b \in Seq(S) /\ Len(a \o b) = Len(a) + Len(b)
           /\ Len(a) \in Nat /\ Len(b) \in Nat
           /\ \A i \in 1 .. Len(a) + Len(b) :
                  (a \o b)[i] = IF i <= Len(a) THEN a[i] ELSE b[i - Len(a)]
  OBVIOUS

\* A concatenation has the elements of both parts.
LEMMA HasCat ==
    ASSUME NEW S, NEW a \in Seq(S), NEW b \in Seq(S), NEW e
    PROVE  Has(a \o b, e) <=> Has(a, e) \/ Has(b, e)
  <1>1. /\ a \o b \in Seq(S) /\ Len(a \o b) = Len(a) + Len(b)
        /\ Len(a) \in Nat /\ Len(b) \in Nat
        /\ \A i \in 1 .. Len(a) + Len(b) :
               (a \o b)[i] = IF i <= Len(a) THEN a[i] ELSE b[i - Len(a)]
    OBVIOUS
  <1>2. ASSUME Has(a \o b, e) PROVE Has(a, e) \/ Has(b, e)
    <2>1. PICK i \in 1 .. Len(a) + Len(b) : (a \o b)[i] = e
      BY <1>1, <1>2 DEF Has
    <2>2. CASE i <= Len(a)
      <3>1. i \in 1 .. Len(a) /\ a[i] = e
        BY <1>1, <2>1, <2>2
      <3> QED BY <3>1 DEF Has
    <2>3. CASE ~ (i <= Len(a))
      <3>1. i - Len(a) \in 1 .. Len(b) /\ b[i - Len(a)] = e
        BY <1>1, <2>1, <2>3
      <3> QED BY <3>1 DEF Has
    <2> QED BY <2>2, <2>3
  <1>3. ASSUME Has(a, e) PROVE Has(a \o b, e)
    <2>1. PICK i \in 1 .. Len(a) : a[i] = e
      BY <1>3 DEF Has
    <2>2. i \in 1 .. Len(a) + Len(b) /\ (a \o b)[i] = e
      BY <1>1, <2>1
    <2> QED BY <1>1, <2>2 DEF Has
  <1>4. ASSUME Has(b, e) PROVE Has(a \o b, e)
    <2>1. PICK i \in 1 .. Len(b) : b[i] = e
      BY <1>4 DEF Has
    <2>2. i + Len(a) \in 1 .. Len(a) + Len(b) /\ (a \o b)[i + Len(a)] = e
      BY <1>1, <2>1
    <2> QED BY <1>1, <2>2 DEF Has
  <1> QED BY <1>2, <1>3, <1>4

\* The steps that are left when the first is done.
LEMMA HasTail ==
    ASSUME NEW S, NEW s \in Seq(S), s # <<>>, NEW e
    PROVE  /\ Has(Tail(s), e) => Has(s, e)
           /\ Has(s, e) /\ Head(s) # e => Has(Tail(s), e)
  <1>1. /\ Len(s) \in Nat /\ Len(s) > 0 /\ Head(s) = s[1] /\ Len(Tail(s)) = Len(s) - 1
        /\ \A i \in 1 .. Len(s) - 1 : Tail(s)[i] = s[i + 1]
    OBVIOUS
  <1>2. ASSUME Has(Tail(s), e) PROVE Has(s, e)
    <2>1. PICK i \in 1 .. Len(s) - 1 : Tail(s)[i] = e
      BY <1>1, <1>2 DEF Has
    <2>2. i + 1 \in 1 .. Len(s) /\ s[i + 1] = e
      BY <1>1, <2>1
    <2> QED BY <2>2 DEF Has
  <1>3. ASSUME Has(s, e), Head(s) # e PROVE Has(Tail(s), e)
    <2>1. PICK i \in 1 .. Len(s) : s[i] = e
      BY <1>3 DEF Has
    <2>2. i - 1 \in 1 .. Len(s) - 1 /\ (i - 1) + 1 = i
      BY <1>1, <1>3, <2>1
    <2>3. Tail(s)[i - 1] = e
      BY <1>1, <2>1, <2>2
    <2> QED BY <1>1, <2>2, <2>3 DEF Has
  <1> QED BY <1>2, <1>3

\* Two steps for each thread.
PairsOf(first, second, s) ==
    LET n == Len(Workers)
    IN  /\ s \in Seq({first, second} \X Io) /\ Len(s) = 2 * n /\ n \in Nat
        /\ \A w \in Io : \E m \in 1 .. n :
               s[2 * m - 1] = <<first, w>> /\ s[2 * m] = <<second, w>>
        /\ \A w \in Io : \A k \in 1 .. 2 * n :
               s[k] = <<first, w>> => k + 1 \in 1 .. 2 * n /\ s[k + 1] = <<second, w>>
        /\ \A w \in Io : \A j, k \in 1 .. 2 * n :
               s[j] = <<first, w>> /\ s[k] = <<first, w>> => j = k

\* ForEachWorker pairs the two steps of each thread (EventLoopThreadPool).
LEMMA ForEachFacts ==
    ASSUME NEW first, NEW second, first # second
    PROVE  PairsOf(first, second, ForEachWorker(first, second))
  <1> DEFINE s == ForEachWorker(first, second)
             n == Len(Workers)
  <1>1. /\ n \in Nat /\ DOMAIN Workers = 1 .. n
        /\ \A m \in 1 .. n : Workers[m] \in Io
        /\ \A w \in Io : \E m \in 1 .. n : Workers[m] = w
        /\ \A i, j \in 1 .. n : Workers[i] = Workers[j] => i = j
    BY LifecycleAssumption DEF Io, Range, IsInjective
  <1>2. s = [i \in 1 .. 2 * n |-> <<IF i % 2 = 1 THEN first ELSE second, Workers[(i + 1) \div 2]>>]
    BY DEF ForEachWorker
  <1> HIDE DEF n, s
  <1>3. \A k \in 1 .. 2 * n :
            /\ (k + 1) \div 2 \in 1 .. n
            /\ k % 2 = 1 => k = 2 * ((k + 1) \div 2) - 1
            /\ k % 2 # 1 => k = 2 * ((k + 1) \div 2)
    BY <1>1
  <1>4. \A m \in 1 .. n :
            /\ 2 * m - 1 \in 1 .. 2 * n /\ 2 * m \in 1 .. 2 * n
            /\ (2 * m - 1) % 2 = 1 /\ (2 * m) % 2 # 1
            /\ ((2 * m - 1) + 1) \div 2 = m /\ (2 * m + 1) \div 2 = m
    BY <1>1
  <1>5. s \in Seq({first, second} \X Io) /\ Len(s) = 2 * n
    <2>1. 2 * n \in Nat
      BY <1>1
    <2>2. ASSUME NEW i \in 1 .. 2 * n PROVE s[i] \in {first, second} \X Io
      BY <1>1, <1>2, <1>3
    <2>3. s \in [1 .. 2 * n -> {first, second} \X Io]
      BY <1>2, <2>2
    <2> QED BY <2>1, <2>3
  <1>6. \A m \in 1 .. n : s[2 * m - 1] = <<first, Workers[m]>> /\ s[2 * m] = <<second, Workers[m]>>
    BY <1>2, <1>4
  <1>7. ASSUME NEW w \in Io, NEW k \in 1 .. 2 * n, s[k] = <<first, w>>
        PROVE  \E m \in 1 .. n : k = 2 * m - 1 /\ Workers[m] = w
    <2>1. /\ s[k] = <<IF k % 2 = 1 THEN first ELSE second, Workers[(k + 1) \div 2]>>
      BY <1>2
    <2>2. k % 2 = 1 /\ Workers[(k + 1) \div 2] = w
      BY <1>7, <2>1
    <2> QED BY <1>3, <2>2
  <1>8. ASSUME NEW w \in Io, NEW k \in 1 .. 2 * n, s[k] = <<first, w>>
        PROVE  k + 1 \in 1 .. 2 * n /\ s[k + 1] = <<second, w>>
    <2>1. PICK m \in 1 .. n : k = 2 * m - 1 /\ Workers[m] = w
      BY <1>7, <1>8
    <2>2. k + 1 = 2 * m
      BY <1>1, <2>1
    <2> QED BY <1>4, <1>6, <2>1, <2>2
  <1>9. ASSUME NEW w \in Io, NEW j \in 1 .. 2 * n, NEW k \in 1 .. 2 * n,
               s[j] = <<first, w>>, s[k] = <<first, w>>
        PROVE  j = k
    <2>1. PICK m \in 1 .. n : k = 2 * m - 1 /\ Workers[m] = w
      BY <1>7, <1>9
    <2>2. PICK l \in 1 .. n : j = 2 * l - 1 /\ Workers[l] = w
      BY <1>7, <1>9
    <2> QED BY <1>1, <2>1, <2>2
  <1>10. \A w \in Io : \E m \in 1 .. n : s[2 * m - 1] = <<first, w>> /\ s[2 * m] = <<second, w>>
    BY <1>1, <1>6, ZenonT(60)
  <1> QED BY <1>1, <1>5, <1>8, <1>9, <1>10 DEF n, s, PairsOf

\* What is left of Startup is still in order.
LEMMA StartingTail ==
    ASSUME NEW s \in Seq(StepOf), s # <<>>, Starting(s), Head(s)[1] # "run"
    PROVE  Starting(Tail(s))
  <1> DEFINE t == Tail(s)
  <1>1. /\ Len(s) \in Nat /\ Len(s) > 0 /\ Head(s) = s[1] /\ Len(t) = Len(s) - 1
        /\ t \in Seq(StepOf)
        /\ \A i \in 1 .. Len(t) : t[i] = s[i + 1] /\ i + 1 \in 1 .. Len(s)
    OBVIOUS
  <1>2. Has(t, <<"run", "loop">>)
    <2>1. Head(s) # <<"run", "loop">>
      OBVIOUS
    <2> QED BY <2>1, HasTail DEF Starting
  <1> HIDE DEF t
  <1>3. ASSUME NEW i \in 1 .. Len(t)
        PROVE  t[i][1] \in StartOps /\ (t[i][1] = "run" => i = Len(t))
    BY <1>1, SMTT(30) DEF Starting
  <1>4. ASSUME NEW i \in 1 .. Len(t), NEW j \in 1 .. Len(t),
               t[i][1] = "construct", t[j][1] = "spawn"
        PROVE  i < j
    <2>1. i + 1 < j + 1
      BY <1>1, <1>4 DEF Starting
    <2> QED BY <2>1, <1>1
  <1>5. ASSUME NEW w \in Io, NEW i \in 1 .. Len(t), t[i] = <<"spawn", w>>
        PROVE  /\ \E j \in i + 1 .. Len(t) : t[j] = <<"await", w>>
               /\ \A j \in i + 1 .. Len(t) : t[j] # <<"spawn", w>>
    <2>1. /\ i + 1 \in 1 .. Len(s) /\ s[i + 1] = <<"spawn", w>>
          /\ \E j \in (i + 1) + 1 .. Len(s) : s[j] = <<"await", w>>
          /\ \A j \in (i + 1) + 1 .. Len(s) : s[j] # <<"spawn", w>>
      BY <1>1, <1>5 DEF Starting
    <2>2. PICK j \in (i + 1) + 1 .. Len(s) : s[j] = <<"await", w>>
      BY <2>1
    <2>3. /\ j - 1 \in i + 1 .. Len(t) /\ j - 1 \in 1 .. Len(t) /\ (j - 1) + 1 = j
      BY <1>1, <2>2
    <2>4. t[j - 1] = <<"await", w>>
      BY <1>1, <2>2, <2>3
    <2>5. ASSUME NEW k \in i + 1 .. Len(t) PROVE t[k] # <<"spawn", w>>
      <3>1. k \in 1 .. Len(t) /\ k + 1 \in (i + 1) + 1 .. Len(s)
        BY <1>1
      <3> QED BY <1>1, <2>1, <3>1
    <2> QED BY <2>3, <2>4, <2>5
  <1> QED BY <1>2, <1>3, <1>4, <1>5 DEF Starting, t

\* What is left of the way out is still in order.
LEMMA EndingTail ==
    ASSUME NEW s \in Seq(StepOf), s # <<>>, Ending(s)
    PROVE  Ending(Tail(s))
  <1> DEFINE t == Tail(s)
  <1>1. /\ Len(s) \in Nat /\ Len(t) = Len(s) - 1
        /\ \A i \in 1 .. Len(t) : t[i] = s[i + 1] /\ i + 1 \in 1 .. Len(s)
    OBVIOUS
  <1> HIDE DEF t
  <1>2. \A i \in 1 .. Len(t) : t[i][1] \in EndOps
    BY <1>1 DEF Ending
  <1>3. ASSUME NEW i \in 1 .. Len(t), NEW j \in 1 .. Len(t),
               \/ t[i][1] = "join" /\ t[j] \in LateSteps
               \/ /\ t[i] = <<"stop", "persistence">>
                  /\ t[j] \in {<<"destroy", "signal">>, <<"exit", "process">>}
        PROVE  i < j
    <2>1. i + 1 < j + 1
      BY <1>1, <1>3, ZenonT(60) DEF Ending
    <2> QED BY <1>1, <2>1
  <1> QED BY <1>2, <1>3 DEF Ending, t

\* The two do not mix.
LEMMA NotBoth ==
    ASSUME NEW s \in Seq(StepOf), Starting(s)
    PROVE  ~ Ending(s)
  BY DEF Starting, Ending, Has, StartOps, EndOps

-----------------------------------------------------------------------------
(* What main sets out to do. *)

\* The parts of main's plan are sequences of steps.
LEMMA WorkerSteps ==
    /\ \A op \in StartOps \cup EndOps, x \in Objects \cup Io \cup {"process"} : <<op, x>> \in StepOf
    /\ ForEachWorker("spawn", "await") \in Seq(StepOf)
    /\ ForEachWorker("quit", "join") \in Seq(StepOf)
    /\ [i \in 1 .. Len(Workers) |-> <<"post", Workers[i]>>] \in Seq(StepOf)
  <1>1. \A op \in StartOps \cup EndOps, x \in Objects \cup Io \cup {"process"} : <<op, x>> \in StepOf
    BY DEF StepOf
  <1>2. ASSUME NEW a \in StartOps \cup EndOps, NEW b \in StartOps \cup EndOps, a # b
        PROVE  ForEachWorker(a, b) \in Seq(StepOf)
    <2>1. ForEachWorker(a, b) \in Seq({a, b} \X Io)
      BY <1>2, ForEachFacts DEF PairsOf
    <2>2. \A e \in {a, b} \X Io : e \in StepOf
      BY DEF StepOf
    <2> QED BY <2>1, <2>2
  <1>3. [i \in 1 .. Len(Workers) |-> <<"post", Workers[i]>>] \in Seq(StepOf)
    <2>1. Len(Workers) \in Nat /\ \A i \in 1 .. Len(Workers) : Workers[i] \in Io
      BY LifecycleAssumption DEF Io, Range
    <2>2. \A i \in 1 .. Len(Workers) : <<"post", Workers[i]>> \in StepOf
      BY <2>1 DEF StepOf, EndOps
    <2> QED BY <2>1, <2>2
  <1>4. {"spawn", "await", "quit", "join"} \subseteq StartOps \cup EndOps
    BY DEF StartOps, EndOps
  <1> QED BY <1>1, <1>2, <1>3, <1>4

\* Startup, index by index.
LEMMA StartupIs ==
    LET F == ForEachWorker("spawn", "await")
        s == Startup
        n == Len(Workers)
    IN  /\ s \in Seq(StepOf) /\ Len(s) = 13 + 2 * n
        /\ s[1] = <<"construct", "loop">> /\ s[2] = <<"construct", "signal">>
        /\ s[3] = <<"construct", "rooms">> /\ s[6] = <<"construct", "server">>
        /\ \A i \in 1 .. 7 : s[i][1] = "construct"
        /\ s[8] = <<"listen", "server">>
        /\ \A i \in 9 .. 8 + 2 * n : s[i] = F[i - 8]
        /\ \A i \in 9 + 2 * n .. 12 + 2 * n : s[i][1] = "start"
        /\ s[13 + 2 * n] = <<"run", "loop">>
  <1> DEFINE F == ForEachWorker("spawn", "await")
             n == Len(Workers)
             A == <<<<"construct", "loop">>, <<"construct", "signal">>, <<"construct", "rooms">>,
                    <<"construct", "persistence">>, <<"construct", "tick">>,
                    <<"construct", "server">>, <<"construct", "timeout">>>>
             L == <<<<"listen", "server">>>>
             Z == <<<<"start", "tick">>, <<"start", "timeout">>, <<"start", "persistence">>,
                    <<"start", "signal">>, <<"run", "loop">>>>
  <1>1. F \in Seq(StepOf) /\ Len(F) = 2 * n /\ n \in Nat /\ 2 * n \in Nat
    <2>1. "spawn" # "await"
      OBVIOUS
    <2>2. Len(F) = 2 * n /\ n \in Nat
      BY <2>1, ForEachFacts DEF PairsOf
    <2> HIDE DEF n
    <2> QED BY <2>2, WorkerSteps
  <1>2. A \in Seq(StepOf) /\ L \in Seq(StepOf) /\ Z \in Seq(StepOf)
    <2>1. \A x \in Objects : <<"construct", x>> \in StepOf /\ <<"start", x>> \in StepOf
      BY WorkerSteps DEF StartOps
    <2>2. <<"listen", "server">> \in StepOf /\ <<"run", "loop">> \in StepOf
      BY WorkerSteps DEF StartOps, Objects
    <2>3. A \in Seq(StepOf)
      BY <2>1 DEF Objects
    <2>4. L \in Seq(StepOf)
      BY <2>2
    <2>5. Z \in Seq(StepOf)
      BY <2>1, <2>2 DEF Objects
    <2> QED BY <2>3, <2>4, <2>5
  <1>3. Len(A) = 7 /\ Len(L) = 1 /\ Len(Z) = 5
    OBVIOUS
  <1>4. /\ A[1] = <<"construct", "loop">> /\ A[2] = <<"construct", "signal">>
        /\ A[3] = <<"construct", "rooms">> /\ A[6] = <<"construct", "server">>
        /\ \A i \in 1 .. 7 : A[i][1] = "construct"
        /\ L[1] = <<"listen", "server">>
        /\ \A i \in 1 .. 4 : Z[i][1] = "start"
        /\ Z[5] = <<"run", "loop">>
    OBVIOUS
  <1>5. Startup = (A \o (L \o F)) \o Z
    BY DEF Startup, StartServer
  <1> HIDE DEF F, n, A, L, Z
  <1> DEFINE B == A \o (L \o F)
             s == B \o Z
  <1>6. L \o F \in Seq(StepOf) /\ Len(L \o F) = 1 + 2 * n
        /\ (L \o F)[1] = L[1] /\ \A i \in 2 .. 1 + 2 * n : (L \o F)[i] = F[i - 1]
    <2> DEFINE c == L \o F
    <2>1. /\ c \in Seq(StepOf) /\ Len(c) = Len(L) + Len(F)
          /\ \A i \in 1 .. Len(L) + Len(F) : c[i] = IF i <= Len(L) THEN L[i] ELSE F[i - Len(L)]
      BY <1>1, <1>2, CatFacts
    <2> HIDE DEF c
    <2>2. c[1] = L[1]
      BY <1>1, <1>3, <2>1
    <2>3. ASSUME NEW i \in 2 .. 1 + 2 * n PROVE c[i] = F[i - 1]
      BY <1>1, <1>3, <2>1
    <2>4. c \in Seq(StepOf) /\ Len(c) = 1 + 2 * n
      BY <1>1, <1>3, <2>1
    <2> QED BY <2>2, <2>3, <2>4 DEF c
  <1>7. B \in Seq(StepOf) /\ Len(B) = 8 + 2 * n
        /\ (\A i \in 1 .. 7 : B[i] = A[i])
        /\ \A i \in 8 .. 8 + 2 * n : B[i] = (L \o F)[i - 7]
    <2> DEFINE c == L \o F
    <2>1. /\ B \in Seq(StepOf) /\ Len(B) = Len(A) + Len(c)
          /\ \A i \in 1 .. Len(A) + Len(c) : B[i] = IF i <= Len(A) THEN A[i] ELSE c[i - Len(A)]
      BY <1>2, <1>6, CatFacts
    <2>2. Len(c) = 1 + 2 * n
      BY <1>6
    <2> HIDE DEF B, c
    <2>3. ASSUME NEW i \in 1 .. 7 PROVE B[i] = A[i]
      BY <1>1, <1>3, <2>1, <2>2
    <2>4. ASSUME NEW i \in 8 .. 8 + 2 * n PROVE B[i] = c[i - 7]
      BY <1>1, <1>3, <2>1, <2>2
    <2>5. Len(B) = 8 + 2 * n
      BY <1>1, <1>3, <2>1, <2>2
    <2> QED BY <2>1, <2>3, <2>4, <2>5 DEF c
  <1>8. /\ B[8] = L[1] 
        /\ \A i \in 9 .. 8 + 2 * n : B[i] = F[i - 8]
    <2>1. B[8] = L[1]
      <3>1. 8 \in 8 .. 8 + 2 * n /\ 8 - 7 = 1
        BY <1>1
      <3> QED BY <1>6, <1>7, <3>1
    <2>2. ASSUME NEW i \in 9 .. 8 + 2 * n PROVE B[i] = F[i - 8]
      <3>1. i - 7 \in 2 .. 1 + 2 * n /\ (i - 7) - 1 = i - 8 /\ i \in 8 .. 8 + 2 * n
        BY <1>1
      <3> QED BY <1>6, <1>7, <3>1
    <2> QED BY <2>1, <2>2
  <1> HIDE DEF B
  <1>9. s \in Seq(StepOf) /\ Len(s) = 13 + 2 * n
        /\ (\A i \in 1 .. 8 + 2 * n : s[i] = B[i])
        /\ \A i \in 9 + 2 * n .. 13 + 2 * n : s[i] = Z[i - (8 + 2 * n)]
    <2> DEFINE m == 8 + 2 * n
    <2>1. m \in Nat /\ m + 5 = 13 + 2 * n /\ m + 1 = 9 + 2 * n /\ Len(B) = m
      BY <1>1, <1>7
    <2> HIDE DEF m
    <2>2. /\ s \in Seq(StepOf) /\ Len(s) = Len(B) + Len(Z)
          /\ \A i \in 1 .. Len(B) + Len(Z) : s[i] = IF i <= Len(B) THEN B[i] ELSE Z[i - Len(B)]
      BY <1>2, <1>7, CatFacts
    <2> HIDE DEF s
    <2>3. ASSUME NEW i \in 1 .. m PROVE s[i] = B[i]
      BY <1>3, <2>1, <2>2
    <2>4. ASSUME NEW i \in m + 1 .. m + 5 PROVE s[i] = Z[i - m]
      BY <1>3, <2>1, <2>2
    <2> QED BY <1>3, <2>1, <2>2, <2>3, <2>4 DEF m
  <1>10. s = Startup
    BY <1>5 DEF B
  <1> HIDE DEF s
  <1>11. \A i \in 9 + 2 * n .. 12 + 2 * n : s[i][1] = "start"
    <2>1. ASSUME NEW i \in 9 + 2 * n .. 12 + 2 * n PROVE s[i][1] = "start"
      <3>1. i - (8 + 2 * n) \in 1 .. 4 /\ i \in 9 + 2 * n .. 13 + 2 * n
        BY <1>1
      <3> QED BY <1>4, <1>9, <3>1
    <2> QED BY <2>1
  <1>12. s[13 + 2 * n] = <<"run", "loop">>
    <2>1. 13 + 2 * n \in 9 + 2 * n .. 13 + 2 * n /\ (13 + 2 * n) - (8 + 2 * n) = 5
      BY <1>1
    <2> QED BY <1>4, <1>9, <2>1
  <1>13. ASSUME NEW i \in 1 .. 7 PROVE s[i] = A[i]
    <2>1. i \in 1 .. 8 + 2 * n
      BY <1>1
    <2> QED BY <1>7, <1>9, <2>1
  <1>14. s[8] = <<"listen", "server">> /\ \A i \in 9 .. 8 + 2 * n : s[i] = F[i - 8]
    BY <1>1, <1>4, <1>8, <1>9
  <1> QED BY <1>4, <1>9, <1>10, <1>11, <1>12, <1>13, <1>14 DEF F, n

\* Startup is in order, and holds all of the way to the loop.
LEMMA StartupStarts ==
    /\ Startup \in Seq(StepOf) /\ Starting(Startup)
    /\ \A x \in Core \cup {"signal"} : Has(Startup, <<"construct", x>>)
    /\ \A w \in Io : Has(Startup, <<"await", w>>)
  <1> DEFINE F == ForEachWorker("spawn", "await")
             s == Startup
             n == Len(Workers)
  <1>0. "spawn" # "await"
    OBVIOUS
  <1>1. /\ s \in Seq(StepOf) /\ Len(s) = 13 + 2 * n
        /\ s[1] = <<"construct", "loop">> /\ s[2] = <<"construct", "signal">>
        /\ s[3] = <<"construct", "rooms">> /\ s[6] = <<"construct", "server">>
        /\ \A i \in 1 .. 7 : s[i][1] = "construct"
        /\ s[8] = <<"listen", "server">>
        /\ \A i \in 9 .. 8 + 2 * n : s[i] = F[i - 8]
        /\ \A i \in 9 + 2 * n .. 12 + 2 * n : s[i][1] = "start"
        /\ s[13 + 2 * n] = <<"run", "loop">>
    BY StartupIs
  <1>2. /\ F \in Seq({"spawn", "await"} \X Io) /\ Len(F) = 2 * n /\ n \in Nat
        /\ \A w \in Io : \E m \in 1 .. n : F[2 * m - 1] = <<"spawn", w>> /\ F[2 * m] = <<"await", w>>
        /\ \A w \in Io : \A k \in 1 .. 2 * n :
               F[k] = <<"spawn", w>> => k + 1 \in 1 .. 2 * n /\ F[k + 1] = <<"await", w>>
        /\ \A w \in Io : \A j, k \in 1 .. 2 * n :
               F[j] = <<"spawn", w>> /\ F[k] = <<"spawn", w>> => j = k
    <2>1. PairsOf("spawn", "await", F)
      BY <1>0, ForEachFacts
    <2> HIDE DEF F
    <2> QED BY <2>1 DEF PairsOf
  <1> HIDE DEF F, s, n
  <1>3. ASSUME NEW i \in 9 .. 8 + 2 * n
        PROVE  i - 8 \in 1 .. 2 * n /\ s[i] = F[i - 8] /\ s[i][1] \in {"spawn", "await"}
    <2>1. i - 8 \in 1 .. 2 * n
      BY <1>2
    <2>2. F[i - 8] \in {"spawn", "await"} \X Io
      BY <1>2, <2>1
    <2> QED BY <1>1, <2>1, <2>2
  <1>4. ASSUME NEW i \in 1 .. Len(s)
        PROVE  \/ i \in 1 .. 7 \/ i = 8 \/ i \in 9 .. 8 + 2 * n
               \/ i \in 9 + 2 * n .. 12 + 2 * n \/ i = 13 + 2 * n
    <2>1. n \in Nat /\ Len(s) = 13 + 2 * n
      BY <1>1, <1>2
    <2> QED BY <2>1
  <1>5. ASSUME NEW i \in 1 .. Len(s)
        PROVE  /\ s[i][1] \in StartOps
               /\ s[i][1] = "run" => i = Len(s)
               /\ s[i][1] = "construct" => i <= 7
               /\ s[i][1] = "spawn" => i \in 9 .. 8 + 2 * n
    <2>1. CASE i \in 1 .. 7
      BY <1>1, <2>1 DEF StartOps
    <2>2. CASE i = 8
      BY <1>1, <2>2 DEF StartOps
    <2>3. CASE i \in 9 .. 8 + 2 * n
      BY <1>3, <2>3 DEF StartOps
    <2>4. CASE i \in 9 + 2 * n .. 12 + 2 * n
      BY <1>1, <2>4 DEF StartOps
    <2>5. CASE i = 13 + 2 * n
      BY <1>1, <2>5 DEF StartOps
    <2> QED BY <1>4, <2>1, <2>2, <2>3, <2>4, <2>5
  <1>6. Has(s, <<"run", "loop">>)
    <2>1. 13 + 2 * n \in 1 .. Len(s)
      BY <1>1, <1>2
    <2> QED BY <1>1, <2>1 DEF Has
  <1>7. ASSUME NEW i \in 1 .. Len(s), NEW j \in 1 .. Len(s),
               s[i][1] = "construct", s[j][1] = "spawn"
        PROVE  i < j
    BY <1>2, <1>5, <1>7
  <1>8. ASSUME NEW w \in Io, NEW i \in 1 .. Len(s), s[i] = <<"spawn", w>>
        PROVE  /\ \E j \in i + 1 .. Len(s) : s[j] = <<"await", w>>
               /\ \A j \in i + 1 .. Len(s) : s[j] # <<"spawn", w>>
    <2>1. i \in 9 .. 8 + 2 * n
      BY <1>5, <1>8
    <2>2. i - 8 \in 1 .. 2 * n /\ F[i - 8] = <<"spawn", w>>
      BY <1>3, <1>8, <2>1
    <2>3. (i - 8) + 1 \in 1 .. 2 * n /\ F[(i - 8) + 1] = <<"await", w>>
      BY <1>2, <2>2
    <2>4. i + 1 \in 9 .. 8 + 2 * n /\ i + 1 \in i + 1 .. Len(s) /\ (i + 1) - 8 = (i - 8) + 1
      BY <1>1, <1>2, <2>1, <2>3
    <2>5. s[i + 1] = <<"await", w>>
      BY <1>1, <2>3, <2>4
    <2>6. ASSUME NEW j \in i + 1 .. Len(s), s[j] = <<"spawn", w>> PROVE FALSE
      <3>1. j \in 1 .. Len(s)
        BY <1>1, <1>2, <2>1
      <3>2. j \in 9 .. 8 + 2 * n
        BY <1>5, <2>6, <3>1
      <3>3. j - 8 \in 1 .. 2 * n /\ F[j - 8] = <<"spawn", w>>
        BY <1>3, <2>6, <3>2
      <3>4. j - 8 = i - 8
        BY <1>2, <2>2, <3>3
      <3> QED BY <1>2, <2>1, <3>2, <3>4
    <2> QED BY <2>4, <2>5, <2>6
  <1>9. Starting(s)
    BY <1>5, <1>6, <1>7, <1>8 DEF Starting
  <1>10. \A x \in Core \cup {"signal"} : Has(s, <<"construct", x>>)
    <2>1. 1 \in 1 .. Len(s) /\ 2 \in 1 .. Len(s) /\ 3 \in 1 .. Len(s) /\ 6 \in 1 .. Len(s)
      BY <1>1, <1>2
    <2> QED BY <1>1, <2>1 DEF Has, Core
  <1>11. ASSUME NEW w \in Io PROVE Has(s, <<"await", w>>)
    <2>1. PICK m \in 1 .. n : F[2 * m] = <<"await", w>>
      BY <1>2
    <2>2. 2 * m + 8 \in 9 .. 8 + 2 * n /\ (2 * m + 8) - 8 = 2 * m /\ 2 * m + 8 \in 1 .. Len(s)
      BY <1>1, <1>2, <2>1
    <2>3. s[2 * m + 8] = <<"await", w>>
      BY <1>1, <2>1, <2>2
    <2> QED BY <2>2, <2>3 DEF Has
  <1> QED BY <1>1, <1>9, <1>10, <1>11 DEF s

\* Steps before and after what the threads use is destroyed.
EarlyStep(e) == e[1] \in EndOps /\ e \notin LateSteps \cup {<<"destroy", "signal">>}
LateStep(e) == e[1] \in {"destroy", "exit"}
Early(s) == \A i \in 1 .. Len(s) : EarlyStep(s[i])
InOrder(s) ==
    \E n \in 0 .. Len(s) : /\ \A i \in 1 .. n : EarlyStep(s[i])
                           /\ \A i \in n + 1 .. Len(s) : LateStep(s[i])

\* Early steps after early steps are early.
LEMMA EarlyCat ==
    ASSUME NEW a \in Seq(StepOf), NEW b \in Seq(StepOf), Early(a), Early(b)
    PROVE  a \o b \in Seq(StepOf) /\ Early(a \o b)
  <1> DEFINE c == a \o b
  <1>1. /\ c \in Seq(StepOf) /\ Len(c) = Len(a) + Len(b)
        /\ Len(a) \in Nat /\ Len(b) \in Nat
        /\ \A i \in 1 .. Len(a) + Len(b) : c[i] = IF i <= Len(a) THEN a[i] ELSE b[i - Len(a)]
    BY CatFacts
  <1> HIDE DEF c
  <1>2. ASSUME NEW i \in 1 .. Len(c) PROVE EarlyStep(c[i])
    <2>1. CASE i <= Len(a)
      <3>1. i \in 1 .. Len(a) /\ c[i] = a[i]
        BY <1>1, <2>1
      <3> QED BY <3>1 DEF Early
    <2>2. CASE ~ (i <= Len(a))
      <3>1. i - Len(a) \in 1 .. Len(b) /\ c[i] = b[i - Len(a)]
        BY <1>1, <2>2
      <3> QED BY <3>1 DEF Early
    <2> QED BY <2>1, <2>2
  <1> QED BY <1>1, <1>2 DEF Early, c

\* Early steps before steps in order leave them in order.
LEMMA EarlyBefore ==
    ASSUME NEW a \in Seq(StepOf), NEW b \in Seq(StepOf), Early(a), InOrder(b)
    PROVE  a \o b \in Seq(StepOf) /\ InOrder(a \o b)
  <1> DEFINE c == a \o b
  <1>1. /\ c \in Seq(StepOf) /\ Len(c) = Len(a) + Len(b)
        /\ Len(a) \in Nat /\ Len(b) \in Nat
        /\ \A i \in 1 .. Len(a) + Len(b) : c[i] = IF i <= Len(a) THEN a[i] ELSE b[i - Len(a)]
    BY CatFacts
  <1> HIDE DEF c
  <1>2. PICK n \in 0 .. Len(b) : /\ \A i \in 1 .. n : EarlyStep(b[i])
                                 /\ \A i \in n + 1 .. Len(b) : LateStep(b[i])
    BY DEF InOrder
  <1>3. Len(a) + n \in 0 .. Len(c)
    BY <1>1, <1>2
  <1>4. ASSUME NEW i \in 1 .. Len(a) + n PROVE EarlyStep(c[i])
    <2>1. CASE i <= Len(a)
      <3>1. i \in 1 .. Len(a) /\ c[i] = a[i]
        BY <1>1, <1>2, <2>1
      <3> QED BY <3>1 DEF Early
    <2>2. CASE ~ (i <= Len(a))
      <3>1. i - Len(a) \in 1 .. n /\ c[i] = b[i - Len(a)]
        BY <1>1, <1>2, <2>2
      <3> QED BY <1>2, <3>1
    <2> QED BY <2>1, <2>2
  <1>5. ASSUME NEW i \in (Len(a) + n) + 1 .. Len(c) PROVE LateStep(c[i])
    <2>1. i - Len(a) \in n + 1 .. Len(b) /\ c[i] = b[i - Len(a)]
      BY <1>1, <1>2
    <2> QED BY <1>2, <2>1
  <1>6. InOrder(c)
    BY <1>3, <1>4, <1>5 DEF InOrder
  <1> QED BY <1>1, <1>6 DEF c

\* So do late steps after them.
LEMMA LateAfter ==
    ASSUME NEW a \in Seq(StepOf), NEW b \in Seq(StepOf), InOrder(a),
           \A i \in 1 .. Len(b) : LateStep(b[i])
    PROVE  a \o b \in Seq(StepOf) /\ InOrder(a \o b)
  <1> DEFINE c == a \o b
  <1>1. /\ c \in Seq(StepOf) /\ Len(c) = Len(a) + Len(b)
        /\ Len(a) \in Nat /\ Len(b) \in Nat
        /\ \A i \in 1 .. Len(a) + Len(b) : c[i] = IF i <= Len(a) THEN a[i] ELSE b[i - Len(a)]
    BY CatFacts
  <1> HIDE DEF c
  <1>2. PICK n \in 0 .. Len(a) : /\ \A i \in 1 .. n : EarlyStep(a[i])
                                 /\ \A i \in n + 1 .. Len(a) : LateStep(a[i])
    BY DEF InOrder
  <1>3. n \in 0 .. Len(c)
    BY <1>1, <1>2
  <1>4. ASSUME NEW i \in 1 .. n PROVE EarlyStep(c[i])
    <2>1. i \in 1 .. Len(a) + Len(b) /\ i <= Len(a)
      BY <1>1, <1>2
    <2> QED BY <1>1, <1>2, <2>1
  <1>5. ASSUME NEW i \in n + 1 .. Len(c) PROVE LateStep(c[i])
    <2>1. CASE i <= Len(a)
      <3>1. i \in n + 1 .. Len(a) /\ c[i] = a[i]
        BY <1>1, <1>2, <2>1
      <3> QED BY <1>2, <3>1
    <2>2. CASE ~ (i <= Len(a))
      <3>1. i - Len(a) \in 1 .. Len(b) /\ c[i] = b[i - Len(a)]
        BY <1>1, <1>2, <2>2
      <3> QED BY <3>1
    <2> QED BY <2>1, <2>2
  <1>6. InOrder(c)
    BY <1>3, <1>4, <1>5 DEF InOrder
  <1> QED BY <1>1, <1>6 DEF c

\* Such a sequence joins and saves before it destroys.
LEMMA InOrderEnds ==
    ASSUME NEW s \in Seq(StepOf), InOrder(s)
    PROVE  Ending(s)
  <1>1. PICK n \in 0 .. Len(s) : /\ \A i \in 1 .. n : EarlyStep(s[i])
                                 /\ \A i \in n + 1 .. Len(s) : LateStep(s[i])
    BY DEF InOrder
  <1>2. \A i \in 1 .. Len(s) : i \in 1 .. n \/ i \in n + 1 .. Len(s)
    OBVIOUS
  <1>3. \A i \in 1 .. Len(s) : s[i][1] \in EndOps
    BY <1>1, <1>2 DEF EarlyStep, LateStep, EndOps
  <1>4. ASSUME NEW i \in 1 .. Len(s), NEW j \in 1 .. Len(s),
               \/ s[i][1] = "join" /\ s[j] \in LateSteps
               \/ /\ s[i] = <<"stop", "persistence">>
                  /\ s[j] \in {<<"destroy", "signal">>, <<"exit", "process">>}
        PROVE  i < j
    <2>1. ~ LateStep(s[i])
      BY <1>4 DEF LateStep
    <2>2. ~ EarlyStep(s[j])
      BY <1>4 DEF EarlyStep, LateSteps
    <2>3. i \in 1 .. n /\ j \in n + 1 .. Len(s)
      BY <1>1, <1>2, <2>1, <2>2
    <2> QED BY <2>3
  <1> QED BY <1>3, <1>4 DEF Ending

\* The destructors of main's scope.
LEMMA DestructorsEnd ==
    /\ Destructors \in Seq(StepOf) /\ InOrder(Destructors)
    /\ \A w \in Io : Has(Destructors, <<"join", w>>)
  <1> DEFINE D == <<<<"destroy", "timeout">>>>
             U == <<<<"unlisten", "server">>>>
             P == [i \in 1 .. Len(Workers) |-> <<"post", Workers[i]>>]
             T == ForEachWorker("quit", "join")
             V == <<<<"destroy", "server">>>>
             Z == <<<<"destroy", "tick">>, <<"destroy", "persistence">>, <<"destroy", "rooms">>,
                    <<"destroy", "signal">>, <<"destroy", "loop">>, <<"exit", "process">>>>
  <1>1. Destructors = (D \o (((U \o P) \o T) \o V)) \o Z
    BY DEF Destructors, DestroyServer, StopThreads
  <1>2. \A x \in Objects : /\ <<"destroy", x>> \in StepOf
                           /\ <<"unlisten", x>> \in StepOf
    BY WorkerSteps DEF EndOps
  <1>3. D \in Seq(StepOf) /\ Early(D)
    <2>1. EarlyStep(<<"destroy", "timeout">>)
      BY DEF EarlyStep, LateSteps, EndOps, Core
    <2>2. <<"destroy", "timeout">> \in StepOf
      BY <1>2 DEF Objects
    <2> QED BY <2>1, <2>2 DEF Early
  <1>4. U \in Seq(StepOf) /\ Early(U)
    <2>1. EarlyStep(<<"unlisten", "server">>)
      BY DEF EarlyStep, LateSteps, EndOps, Core
    <2>2. <<"unlisten", "server">> \in StepOf
      BY <1>2 DEF Objects
    <2> QED BY <2>1, <2>2 DEF Early
  <1>5. P \in Seq(StepOf) /\ Early(P)
    <2>1. P \in Seq(StepOf)
      BY WorkerSteps
    <2>2. Len(Workers) \in Nat
      BY LifecycleAssumption
    <2>3. Len(P) = Len(Workers)
      BY <2>2
    <2>4. ASSUME NEW i \in 1 .. Len(P) PROVE EarlyStep(P[i])
      <3>1. P[i] = <<"post", Workers[i]>>
        BY <2>3
      <3> QED BY <3>1 DEF EarlyStep, LateSteps, EndOps
    <2> QED BY <2>1, <2>4 DEF Early
  <1>6. /\ T \in Seq(StepOf) /\ Early(T)
        /\ \A w \in Io : Has(T, <<"join", w>>)
    <2>1. "quit" # "join"
      OBVIOUS
    <2>2. PairsOf("quit", "join", T)
      BY <2>1, ForEachFacts
    <2>3. T \in Seq(StepOf)
      BY WorkerSteps
    <2> HIDE DEF T
    <2>4. \A i \in 1 .. Len(T) : T[i] \in {"quit", "join"} \X Io
      BY <2>2 DEF PairsOf
    <2>5. ASSUME NEW i \in 1 .. Len(T) PROVE EarlyStep(T[i])
      <3>1. T[i] \in {"quit", "join"} \X Io
        BY <2>4
      <3> QED BY <3>1 DEF EarlyStep, LateSteps, EndOps
    <2>6. ASSUME NEW w \in Io PROVE Has(T, <<"join", w>>)
      <3>1. /\ Len(T) = 2 * Len(Workers) /\ Len(Workers) \in Nat
            /\ \E m \in 1 .. Len(Workers) : T[2 * m] = <<"join", w>>
        BY <2>2 DEF PairsOf
      <3>2. PICK m \in 1 .. Len(Workers) : T[2 * m] = <<"join", w>>
        BY <3>1
      <3>3. 2 * m \in 1 .. Len(T)
        BY <3>1
      <3> QED BY <3>2, <3>3 DEF Has
    <2> QED BY <2>3, <2>5, <2>6 DEF Early
  <1>7. V \in Seq(StepOf) /\ \A i \in 1 .. Len(V) : LateStep(V[i])
    <2>1. <<"destroy", "server">> \in StepOf
      BY <1>2 DEF Objects
    <2> QED BY <2>1 DEF LateStep
  <1>8. Z \in Seq(StepOf) /\ \A i \in 1 .. Len(Z) : LateStep(Z[i])
    <2>1. <<"exit", "process">> \in StepOf
      BY WorkerSteps DEF EndOps
    <2>2. Z \in Seq(StepOf)
      BY <1>2, <2>1 DEF Objects
    <2> QED BY <2>2 DEF LateStep
  <1> HIDE DEF D, U, P, T, V, Z
  <1>9. U \o P \in Seq(StepOf) /\ Early(U \o P)
    BY <1>4, <1>5, EarlyCat
  <1>10. (U \o P) \o T \in Seq(StepOf) /\ Early((U \o P) \o T)
    BY <1>6, <1>9, EarlyCat
  <1>11. InOrder((U \o P) \o T)
    <2> DEFINE s == (U \o P) \o T
    <2>1. s \in Seq(StepOf) /\ Early(s)
      BY <1>10
    <2> HIDE DEF s
    <2>2. /\ Len(s) \in 0 .. Len(s)
          /\ \A i \in 1 .. Len(s) : EarlyStep(s[i])
          /\ \A i \in Len(s) + 1 .. Len(s) : LateStep(s[i])
      BY <2>1 DEF Early
    <2>3. InOrder(s)
      BY <2>2 DEF InOrder
    <2> QED BY <2>3 DEF s
  <1>12. /\ ((U \o P) \o T) \o V \in Seq(StepOf)
         /\ InOrder(((U \o P) \o T) \o V)
    BY <1>7, <1>10, <1>11, LateAfter
  <1>13. /\ D \o (((U \o P) \o T) \o V) \in Seq(StepOf)
         /\ InOrder(D \o (((U \o P) \o T) \o V))
    BY <1>3, <1>12, EarlyBefore
  <1>14. Destructors \in Seq(StepOf) /\ InOrder(Destructors)
    BY <1>1, <1>8, <1>13, LateAfter
  <1>15. ASSUME NEW w \in Io PROVE Has(Destructors, <<"join", w>>)
    <2>1. Has((U \o P) \o T, <<"join", w>>)
      BY <1>6, <1>9, HasCat
    <2>2. Has(((U \o P) \o T) \o V, <<"join", w>>)
      BY <1>7, <1>10, <2>1, HasCat
    <2>3. Has(D \o (((U \o P) \o T) \o V), <<"join", w>>)
      <3> DEFINE b == ((U \o P) \o T) \o V
      <3>1. b \in Seq(StepOf) /\ Has(b, <<"join", w>>)
        BY <1>12, <2>2
      <3> HIDE DEF b
      <3>2. Has(D \o b, <<"join", w>>)
        BY <1>3, <3>1, HasCat
      <3> QED BY <3>2 DEF b
    <2> QED BY <1>1, <1>8, <1>13, <2>3, HasCat
  <1> QED BY <1>14, <1>15

\* What main does before it returns comes before all that.
LEMMA CleanupEarly ==
    ASSUME NEW h \in StepOf
    PROVE  /\ Cleanup(h) \in Seq(StepOf) /\ Early(Cleanup(h))
           /\ h = <<"run", "loop">> => Has(Cleanup(h), <<"stop", "persistence">>)
  <1>1. \A x \in Objects : <<"stop", x>> \in StepOf /\ EarlyStep(<<"stop", x>>)
    BY WorkerSteps DEF EndOps, EarlyStep, LateSteps
  <1>2. CASE h = <<"run", "loop">>
    <2>1. Cleanup(h) = <<<<"stop", "timeout">>, <<"stop", "tick">>, <<"stop", "persistence">>,
                         <<"stop", "signal">>>>
      BY <1>2 DEF Cleanup
    <2>2. /\ Cleanup(h) \in Seq(StepOf) /\ Len(Cleanup(h)) = 4
          /\ \A i \in 1 .. 4 : EarlyStep(Cleanup(h)[i])
          /\ Cleanup(h)[3] = <<"stop", "persistence">>
      BY <1>1, <2>1 DEF Objects
    <2>3. 3 \in 1 .. 4
      OBVIOUS
    <2> QED BY <2>2, <2>3 DEF Early, Has
  <1>3. CASE h = <<"start", "signal">>
    <2>1. Cleanup(h) = <<<<"stop", "timeout">>, <<"stop", "tick">>, <<"stop", "persistence">>>>
      BY <1>3 DEF Cleanup
    <2>2. /\ Cleanup(h) \in Seq(StepOf) /\ Len(Cleanup(h)) = 3
          /\ \A i \in 1 .. 3 : EarlyStep(Cleanup(h)[i])
      BY <1>1, <2>1 DEF Objects
    <2> QED BY <1>3, <2>2 DEF Early
  <1>4. CASE h = <<"start", "persistence">>
    <2>1. Cleanup(h) = <<<<"stop", "timeout">>, <<"stop", "tick">>>>
      BY <1>4 DEF Cleanup
    <2>2. /\ Cleanup(h) \in Seq(StepOf) /\ Len(Cleanup(h)) = 2
          /\ \A i \in 1 .. 2 : EarlyStep(Cleanup(h)[i])
      BY <1>1, <2>1 DEF Objects
    <2> QED BY <1>4, <2>2 DEF Early
  <1>5. CASE h = <<"start", "timeout">>
    <2>1. Cleanup(h) = <<<<"stop", "tick">>>>
      BY <1>5 DEF Cleanup
    <2> QED BY <1>1, <1>5, <2>1 DEF Objects, Early
  <1>6. CASE h[1] = "await"
    <2> DEFINE T == ForEachWorker("quit", "join")
               U == <<<<"unlisten", "server">>>>
    <2>1. Cleanup(h) = T \o U /\ h # <<"run", "loop">>
      BY <1>6 DEF Cleanup, StopThreads
    <2>2. T \in Seq(StepOf) /\ Early(T)
      <3>1. "quit" # "join"
        OBVIOUS
      <3>2. PairsOf("quit", "join", T)
        BY <3>1, ForEachFacts
      <3>3. T \in Seq(StepOf)
        BY WorkerSteps
      <3> HIDE DEF T
      <3>4. \A i \in 1 .. Len(T) : T[i] \in {"quit", "join"} \X Io
        BY <3>2 DEF PairsOf
      <3>5. ASSUME NEW i \in 1 .. Len(T) PROVE EarlyStep(T[i])
        <4>1. T[i] \in {"quit", "join"} \X Io
          BY <3>4
        <4> QED BY <4>1 DEF EarlyStep, LateSteps, EndOps
      <3> QED BY <3>3, <3>5 DEF Early
    <2>3. U \in Seq(StepOf) /\ Early(U)
      <3>1. EarlyStep(<<"unlisten", "server">>)
        BY DEF EarlyStep, LateSteps, EndOps, Core
      <3>2. <<"unlisten", "server">> \in StepOf
        BY WorkerSteps DEF Objects, EndOps
      <3> QED BY <3>1, <3>2 DEF Early
    <2> HIDE DEF T, U
    <2> QED BY <2>1, <2>2, <2>3, EarlyCat
  <1>7. CASE /\ h \notin {<<"run", "loop">>, <<"start", "signal">>, <<"start", "persistence">>,
                          <<"start", "timeout">>}
             /\ h[1] # "await"
    <2>1. Cleanup(h) = <<>>
      BY <1>7 DEF Cleanup
    <2> QED BY <1>7, <2>1 DEF Early
  <1> QED BY <1>2, <1>3, <1>4, <1>5, <1>6, <1>7

\* The way out, whatever main was doing.
LEMMA WayOut ==
    ASSUME NEW h \in StepOf
    PROVE  LET s == Cleanup(h) \o Destructors
           IN  /\ s \in Seq(StepOf) /\ Ending(s)
               /\ \A w \in Io : Has(s, <<"join", w>>)
               /\ h = <<"run", "loop">> => Has(s, <<"stop", "persistence">>)
  <1>1. /\ Cleanup(h) \in Seq(StepOf) /\ Early(Cleanup(h))
        /\ Destructors \in Seq(StepOf) /\ InOrder(Destructors)
    BY CleanupEarly, DestructorsEnd
  <1>2. Cleanup(h) \o Destructors \in Seq(StepOf) /\ InOrder(Cleanup(h) \o Destructors)
    BY <1>1, EarlyBefore
  <1>3. Ending(Cleanup(h) \o Destructors)
    BY <1>2, InOrderEnds
  <1>4. \A w \in Io : Has(Cleanup(h) \o Destructors, <<"join", w>>)
    BY <1>1, DestructorsEnd, HasCat
  <1>5. h = <<"run", "loop">> => Has(Cleanup(h) \o Destructors, <<"stop", "persistence">>)
    BY <1>1, CleanupEarly, HasCat
  <1> QED BY <1>2, <1>3, <1>4, <1>5

-----------------------------------------------------------------------------
(* One lemma for each way a step touches what main has still to do. *)

\* What is left of main's steps once it has done one of them.
Advanced(op, x) ==
    /\ todo' \in Seq(StepOf)
    /\ Starting(todo)' = Starting(todo)
    /\ Ending(todo)' = Ending(todo)
    /\ op \in StartOps => Starting(todo) /\ ~ Ending(todo)
    /\ op \in EndOps => Ending(todo) /\ ~ Starting(todo)
    /\ \A e : Has(todo, e)' => Has(todo, e)
    /\ \A e : Has(todo, e) /\ e # <<op, x>> => Has(todo, e)'
    /\ outcome = "none" /\ at[Base] = "out" /\ waking[Base] = NoLoop
    /\ 1 \in 1 .. Len(todo) /\ todo[1] = <<op, x>>

\* Doing the next step neither starts nor ends anything else.
LEMMA NextStep ==
    ASSUME LifeInv, NEW op \in (StartOps \cup EndOps) \ {"run"}, NEW x, AtStep(op, x),
           todo' = Tail(todo)
    PROVE  Advanced(op, x)
  <1>1. /\ todo \in Seq(StepOf) /\ todo # <<>> /\ Head(todo) = <<op, x>>
        /\ outcome = "none" /\ at[Base] = "out" /\ waking[Base] = NoLoop
    BY DEF LifeInv, LifeTypes, AtStep, Free
  <1>2. 1 \in 1 .. Len(todo) /\ todo[1] = <<op, x>> /\ todo' \in Seq(StepOf)
    BY <1>1
  <1>3. Head(todo)[1] # "run"
    BY <1>1
  <1>4. Starting(todo) => Starting(Tail(todo))
    BY <1>1, <1>3, StartingTail
  <1>5. Ending(todo) => Ending(Tail(todo))
    BY <1>1, EndingTail
  <1>6. Starting(todo) \/ Ending(todo)
    BY DEF LifeInv
  <1>7. ~ (Starting(todo) /\ Ending(todo)) /\ ~ (Starting(Tail(todo)) /\ Ending(Tail(todo)))
    BY <1>1, <1>2, NotBoth
  <1>8. op \in StartOps => ~ Ending(todo)
    BY <1>2 DEF Ending, StartOps, EndOps
  <1>9. op \in EndOps => ~ Starting(todo)
    BY <1>2 DEF Starting, StartOps, EndOps
  <1>10. /\ Starting(todo)' = Starting(Tail(todo))
         /\ Ending(todo)' = Ending(Tail(todo))
         /\ \A e : Has(todo, e)' = Has(Tail(todo), e)
    BY DEF Starting, Ending, Has
  <1>11. Starting(todo) \in BOOLEAN /\ Starting(Tail(todo)) \in BOOLEAN
         /\ Ending(todo) \in BOOLEAN /\ Ending(Tail(todo)) \in BOOLEAN
    BY DEF Starting, Ending
  <1>12. ASSUME NEW e
         PROVE  /\ Has(Tail(todo), e) => Has(todo, e)
                /\ Has(todo, e) /\ e # <<op, x>> => Has(Tail(todo), e)
    BY <1>1, HasTail
  <1>13. Starting(todo)' = Starting(todo) /\ Ending(todo)' = Ending(todo)
    BY <1>4, <1>5, <1>6, <1>7, <1>10, <1>11
  <1>14. /\ op \in StartOps => Starting(todo) /\ ~ Ending(todo)
         /\ op \in EndOps => Ending(todo) /\ ~ Starting(todo)
    BY <1>6, <1>8, <1>9
  <1>15. /\ \A e : Has(todo, e)' => Has(todo, e)
         /\ \A e : Has(todo, e) /\ e # <<op, x>> => Has(todo, e)'
    BY <1>10, <1>12
  <1> QED BY <1>1, <1>2, <1>13, <1>14, <1>15 DEF Advanced

\* A step of main that leaves the loops and the threads alone.
LEMMA SucceedKeeps ==
    ASSUME LifeInv, NEW op \in (StartOps \cup EndOps) \ {"run", "spawn"}, NEW x, AtStep(op, x),
           todo' = Tail(todo), UNCHANGED <<at, quit, waking, thread>>,
           dirty' \in BOOLEAN, failed' \in BOOLEAN, blocked' \in BOOLEAN, pending' \in BOOLEAN,
           outcome' \in {"none", "exit", "killed"},
           \A y \in Core : y \in alive => y \in alive' \/ <<op, x>> = <<"destroy", y>>,
           op = "construct" => x \in alive' /\ (x = "signal" => blocked'),
           blocked => blocked' \/ <<op, x>> = <<"destroy", "signal">>,
           op = "await" => thread[x] = "running",
           op = "join" => ~ Active(x),
           dirty' => dirty, failed => failed',
           <<op, x>> = <<"stop", "persistence">> /\ dirty' => failed',
           \/ outcome' = "none"
           \/ <<op, x>> = <<"exit", "process">>
           \/ <<op, x>> = <<"destroy", "signal">> /\ outcome' = "killed"
    PROVE  LifeInv'
  <1>1. Advanced(op, x)
    BY NextStep
  <1>2. LifeTypes'
    BY <1>1 DEF LifeInv, LifeTypes, Advanced
  <1>3. (Starting(todo) \/ Ending(todo))'
    BY <1>1 DEF LifeInv, Advanced
  <1>4. StartedOK'
    <2> SUFFICES ASSUME Starting(todo)'
                 PROVE  /\ \A y \in Core : y \in alive' \/ Has(todo, <<"construct", y>>)'
                        /\ blocked' \/ Has(todo, <<"construct", "signal">>)'
                        /\ \A w \in Io : /\ Has(todo, <<"spawn", w>>)' => thread'[w] = "none"
                                         /\ thread'[w] = "running" \/ Has(todo, <<"await", w>>)'
                                         /\ ~ quit'[w]
      BY DEF StartedOK
    <2>1. Starting(todo) /\ op \notin EndOps
      BY <1>1 DEF Advanced
    <2>2. /\ \A y \in Core : y \in alive \/ Has(todo, <<"construct", y>>)
          /\ blocked \/ Has(todo, <<"construct", "signal">>)
          /\ \A w \in Io : /\ Has(todo, <<"spawn", w>>) => thread[w] = "none"
                           /\ thread[w] = "running" \/ Has(todo, <<"await", w>>)
                           /\ ~ quit[w]
      BY <2>1 DEF LifeInv, StartedOK
    <2>3. op # "destroy"
      BY <2>1 DEF EndOps
    <2>4. /\ \A e : Has(todo, e)' => Has(todo, e)
          /\ \A e : Has(todo, e) /\ e # <<op, x>> => Has(todo, e)'
      BY <1>1 DEF Advanced
    <2>5. ASSUME NEW y \in Core PROVE y \in alive' \/ Has(todo, <<"construct", y>>)'
      BY <2>2, <2>3, <2>4
    <2>6. blocked' \/ Has(todo, <<"construct", "signal">>)'
      BY <2>2, <2>3, <2>4
    <2>7. ASSUME NEW w \in Io
          PROVE  /\ Has(todo, <<"spawn", w>>)' => thread'[w] = "none"
                 /\ thread'[w] = "running" \/ Has(todo, <<"await", w>>)'
                 /\ ~ quit'[w]
      BY <2>2, <2>4
    <2> QED BY <2>5, <2>6, <2>7
  <1>5. \A e \in LateSteps : <<op, x>> = e => \A w \in Io : ~ Active(w)
    <2> SUFFICES ASSUME <<op, x>> \in LateSteps, NEW w \in Io, Active(w)
                 PROVE  FALSE
      OBVIOUS
    <2>1. op \in EndOps
      BY DEF LateSteps, EndOps
    <2>2. Has(todo, <<"join", w>>) /\ Ending(todo)
      BY <1>1, <2>1 DEF LifeInv, ThreadsOK, Advanced
    <2>3. PICK i \in 1 .. Len(todo) : todo[i] = <<"join", w>>
      BY <2>2 DEF Has
    <2>4. todo[i][1] = "join" /\ todo[1] \in LateSteps /\ 1 \in 1 .. Len(todo)
      BY <1>1, <2>3 DEF Advanced
    <2>5. i < 1
      BY <2>2, <2>4 DEF Ending
    <2> QED BY <2>3, <2>5
  <1>6. ThreadsOK'
    <2> SUFFICES ASSUME NEW w \in Io
                 PROVE  /\ Active(w) => Core \subseteq alive'
                        /\ Active(w) /\ Ending(todo)' => Has(todo, <<"join", w>>)'
                        /\ Active(w) => outcome' # "exit"
                        /\ thread[w] # "running" => at[w] = "out"
                        /\ thread[w] = "running" /\ at[w] = "out" => quit[w]
                        /\ waking[w] \in {NoLoop, Base}
                        /\ waking[w] = Base => thread[w] = "running"
                        /\ waking[Base] = w => thread[w] = "running"
      BY DEF ThreadsOK, Active
    <2>1. Active(w) => Core \subseteq alive'
      <3> SUFFICES ASSUME Active(w), NEW y \in Core PROVE y \in alive'
        OBVIOUS
      <3>1. y \in alive
        BY DEF LifeInv, ThreadsOK
      <3>2. <<"destroy", y>> \in LateSteps
        BY DEF LateSteps
      <3> QED BY <1>5, <3>1, <3>2
    <2>2. Active(w) /\ Ending(todo)' => Has(todo, <<"join", w>>)'
      <3> SUFFICES ASSUME Active(w), Ending(todo)' PROVE Has(todo, <<"join", w>>)'
        OBVIOUS
      <3>1. Has(todo, <<"join", w>>)
        BY <1>1 DEF LifeInv, ThreadsOK, Advanced
      <3>2. <<"join", w>> # <<op, x>>
        OBVIOUS
      <3> QED BY <1>1, <3>1, <3>2 DEF Advanced
    <2>3. Active(w) => outcome' # "exit"
      <3>1. <<"exit", "process">> \in LateSteps
        BY DEF LateSteps
      <3> QED BY <1>5, <3>1
    <2> QED BY <2>1, <2>2, <2>3 DEF LifeInv, ThreadsOK
  <1>7. BaseOK'
    BY <1>1 DEF LifeInv, BaseOK, Advanced
  <1>8. SaveOK'
    <2> SUFFICES ASSUME dirty', ~ failed'
                 PROVE  /\ outcome' = "none" /\ blocked'
                        /\ Starting(todo)' \/ Has(todo, <<"stop", "persistence">>)'
      BY DEF SaveOK
    <2>1. /\ blocked
          /\ Starting(todo) \/ Has(todo, <<"stop", "persistence">>)
      BY DEF LifeInv, SaveOK
    <2>2. CASE Starting(todo)
      <3>1. op \notin EndOps
        BY <1>1, <2>2 DEF Advanced
      <3>2. op # "destroy" /\ op # "exit"
        BY <3>1 DEF EndOps
      <3>3. Starting(todo)'
        BY <1>1, <2>2 DEF Advanced
      <3> QED BY <2>1, <3>2, <3>3
    <2>3. CASE ~ Starting(todo)
      <3>1. Has(todo, <<"stop", "persistence">>) /\ Ending(todo)
        BY <2>1, <2>3 DEF LifeInv
      <3>2. PICK i \in 1 .. Len(todo) : todo[i] = <<"stop", "persistence">>
        BY <3>1 DEF Has
      <3>3. todo[1] \notin {<<"destroy", "signal">>, <<"exit", "process">>}
        <4>1. ~ (i < 1) /\ 1 \in 1 .. Len(todo)
          BY <1>1, <3>2 DEF Advanced
        <4> QED BY <3>1, <3>2, <4>1 DEF Ending
      <3>4. /\ <<op, x>> # <<"destroy", "signal">>
            /\ <<op, x>> # <<"exit", "process">>
            /\ <<op, x>> # <<"stop", "persistence">>
        BY <1>1, <3>3 DEF Advanced
      <3>5. Has(todo, <<"stop", "persistence">>)'
        BY <1>1, <3>1, <3>4 DEF Advanced
      <3> QED BY <2>1, <3>4, <3>5
    <2> QED BY <2>2, <2>3
  <1> QED BY <1>2, <1>3, <1>4, <1>6, <1>7, <1>8 DEF LifeInv

\* EventLoopThread::start_loop creates a thread when all it uses is there.
LEMMA SpawnKeeps ==
    ASSUME LifeInv, NEW w \in Io, Spawn(w)
    PROVE  LifeInv'
  <1>0. /\ AtStep("spawn", w) /\ todo' = Tail(todo)
        /\ thread' = [thread EXCEPT ![w] = "starting"]
        /\ UNCHANGED <<at, quit, waking, alive, dirty, failed, blocked, pending, outcome>>
    BY DEF Spawn, Succeed, loopVars, signalVars
  <1>1. Advanced("spawn", w) /\ Starting(todo) /\ ~ Ending(todo)
    <2>1. "spawn" \in (StartOps \cup EndOps) \ {"run"} /\ "spawn" \in StartOps
      BY DEF StartOps
    <2> QED BY <1>0, <2>1, NextStep DEF Advanced
  <1>2. thread' \in [Io -> {"none", "starting", "running", "failed", "ended"}]
    BY <1>0 DEF LifeInv, LifeTypes
  <1>3. /\ thread'[w] = "starting"
        /\ \A v \in Io : v # w => thread'[v] = thread[v]
    BY <1>0 DEF LifeInv, LifeTypes
  <1>4. LifeTypes'
    BY <1>0, <1>1, <1>2 DEF LifeInv, LifeTypes, Advanced
  <1>5. Has(todo, <<"spawn", w>>) /\ ~ Has(todo, <<"spawn", w>>)'
    <2>1. Has(todo, <<"spawn", w>>)
      BY <1>1 DEF Advanced, Has
    <2>2. todo \in Seq(StepOf) /\ todo # <<>> /\ 1 \in 1 .. Len(todo) /\ todo[1] = <<"spawn", w>>
      BY <1>0, <1>1 DEF LifeInv, LifeTypes, AtStep, Advanced
    <2>3. \A j \in 2 .. Len(todo) : todo[j] # <<"spawn", w>>
      BY <1>1, <2>2 DEF Starting
    <2>4. ASSUME NEW j \in 1 .. Len(Tail(todo)) PROVE Tail(todo)[j] # <<"spawn", w>>
      <3>1. Tail(todo)[j] = todo[j + 1] /\ j + 1 \in 2 .. Len(todo)
        BY <2>2
      <3> QED BY <2>3, <3>1
    <2>5. ~ Has(todo, <<"spawn", w>>)'
      BY <1>0, <2>4 DEF Has
    <2> QED BY <2>1, <2>5
  <1>6. thread[w] = "none"
    BY <1>1, <1>5 DEF LifeInv, StartedOK
  <1>7. Core \subseteq alive
    <2> SUFFICES ASSUME NEW y \in Core, y \notin alive PROVE FALSE
      OBVIOUS
    <2>1. Has(todo, <<"construct", y>>)
      BY <1>1 DEF LifeInv, StartedOK
    <2>2. PICK i \in 1 .. Len(todo) : todo[i] = <<"construct", y>>
      BY <2>1 DEF Has
    <2>3. todo[i][1] = "construct" /\ todo[1][1] = "spawn" /\ 1 \in 1 .. Len(todo)
      BY <1>1, <2>2 DEF Advanced
    <2>4. i < 1
      BY <1>1, <2>3 DEF Starting
    <2> QED BY <2>2, <2>4
  <1>8. StartedOK'
    <2>1. /\ \A y \in Core : y \in alive'
          /\ blocked' \/ Has(todo, <<"construct", "signal">>)'
      BY <1>0, <1>1, <1>7 DEF LifeInv, StartedOK, Advanced
    <2>2. ASSUME NEW v \in Io
          PROVE  /\ Has(todo, <<"spawn", v>>)' => thread'[v] = "none"
                 /\ thread'[v] = "running" \/ Has(todo, <<"await", v>>)'
                 /\ ~ quit'[v]
      <3>1. /\ Has(todo, <<"spawn", v>>) => thread[v] = "none"
            /\ thread[v] = "running" \/ Has(todo, <<"await", v>>)
            /\ ~ quit[v]
        BY <1>1 DEF LifeInv, StartedOK
      <3>2. /\ Has(todo, <<"spawn", v>>)' => Has(todo, <<"spawn", v>>)
            /\ Has(todo, <<"await", v>>) => Has(todo, <<"await", v>>)'
        BY <1>1 DEF Advanced
      <3> QED BY <1>0, <1>3, <1>5, <1>6, <3>1, <3>2
    <2> QED BY <2>1, <2>2 DEF StartedOK
  <1>9. ThreadsOK'
    <2>1. ASSUME NEW v \in Io
          PROVE  /\ Core \subseteq alive'
                 /\ ~ Ending(todo)'
                 /\ outcome' # "exit"
                 /\ thread'[v] # "running" => at'[v] = "out"
                 /\ thread'[v] = "running" /\ at'[v] = "out" => quit'[v]
                 /\ waking'[v] \in {NoLoop, Base}
                 /\ waking'[v] = Base => thread'[v] = "running"
                 /\ waking'[Base] = v => thread'[v] = "running"
      <3>1. /\ thread[v] # "running" => at[v] = "out"
            /\ thread[v] = "running" /\ at[v] = "out" => quit[v]
            /\ waking[v] \in {NoLoop, Base}
            /\ waking[v] = Base => thread[v] = "running"
            /\ waking[Base] = v => thread[v] = "running"
        BY DEF LifeInv, ThreadsOK
      <3>2. v = w => thread'[v] = "starting" /\ thread[v] = "none"
        BY <1>3, <1>6
      <3>3. ~ Ending(todo)' /\ outcome' # "exit"
        BY <1>0, <1>1 DEF Advanced
      <3> QED BY <1>0, <1>3, <1>7, <3>1, <3>2, <3>3
    <2> QED BY <2>1 DEF ThreadsOK
  <1>10. BaseOK'
    BY <1>0, <1>1 DEF LifeInv, BaseOK, Advanced
  <1>11. SaveOK'
    BY <1>0, <1>1 DEF LifeInv, SaveOK, Advanced
  <1>12. (Starting(todo) \/ Ending(todo))'
    BY <1>1 DEF Advanced
  <1> QED BY <1>4, <1>8, <1>9, <1>10, <1>11, <1>12 DEF LifeInv

\* ~EventLoopThread and ~TcpServer reach the loop of a thread that runs.
LEMMA OweLifeKeeps ==
    ASSUME LifeInv, WakeInv, NEW w \in Io, NEW op \in {"quit", "post"}, AtStep(op, w),
           todo' = Tail(todo), NEW l \in Io, thread[l] = "running",
           waking' = [waking EXCEPT ![Base] = l],
           \A v \in Io : quit[v] => quit'[v],
           UNCHANGED <<at, thread, alive, dirty, failed, blocked, pending, outcome>>
    PROVE  LifeInv'
  <1>1. Advanced(op, w) /\ Ending(todo) /\ ~ Starting(todo)
    <2>1. op \in (StartOps \cup EndOps) \ {"run"} /\ op \in EndOps
      BY DEF EndOps
    <2> QED BY <2>1, NextStep DEF Advanced
  <1>2. Base \in Loops /\ Base \notin Io
    BY LifecycleAssumption DEF Io
  <1>3. /\ waking'[Base] = l
        /\ \A v \in Io : waking'[v] = waking[v]
    BY <1>2, LifecycleAssumption DEF Io, WakeInv, LoopTypes
  <1>4. LifeTypes'
    BY <1>1 DEF LifeInv, LifeTypes, Advanced
  <1>5. StartedOK' /\ (Starting(todo) \/ Ending(todo))'
    BY <1>1 DEF StartedOK, Advanced
  <1>6. ThreadsOK'
    <2>1. ASSUME NEW v \in Io
          PROVE  /\ Active(v) => Core \subseteq alive'
                 /\ Active(v) => Has(todo, <<"join", v>>)'
                 /\ Active(v) => outcome' # "exit"
                 /\ thread[v] # "running" => at'[v] = "out"
                 /\ thread[v] = "running" /\ at'[v] = "out" => quit'[v]
                 /\ waking'[v] \in {NoLoop, Base}
                 /\ waking'[v] = Base => thread[v] = "running"
                 /\ waking'[Base] = v => thread[v] = "running"
      <3>1. /\ Active(v) => Core \subseteq alive
            /\ Active(v) => Has(todo, <<"join", v>>)
            /\ Active(v) => outcome # "exit"
            /\ thread[v] # "running" => at[v] = "out"
            /\ thread[v] = "running" /\ at[v] = "out" => quit[v]
            /\ waking[v] \in {NoLoop, Base}
            /\ waking[v] = Base => thread[v] = "running"
        BY <1>1 DEF LifeInv, ThreadsOK
      <3>2. Has(todo, <<"join", v>>) => Has(todo, <<"join", v>>)'
        BY <1>1 DEF Advanced
      <3> QED BY <1>3, <3>1, <3>2
    <2> QED BY <2>1 DEF ThreadsOK, Active
  <1>7. BaseOK'
    BY <1>1, <1>3 DEF LifeInv, BaseOK, Advanced
  <1>8. SaveOK'
    BY <1>1 DEF LifeInv, SaveOK, Advanced
  <1> QED BY <1>4, <1>5, <1>6, <1>7, <1>8 DEF LifeInv

\* main gives up, or the loop ends: what is left is the way out.
LEMMA LeaveKeeps ==
    ASSUME LifeInv, Starting(todo), todo # <<>>,
           todo' = Cleanup(Head(todo)) \o Destructors,
           at'[Base] = "out", \A w \in Io : at'[w] = at[w],
           failed' \in BOOLEAN, failed => failed', failed' \/ Head(todo) = <<"run", "loop">>,
           UNCHANGED <<quit, waking, thread, alive, dirty, blocked, pending, outcome>>
    PROVE  LifeInv'
  <1> DEFINE h == Head(todo)
             s == Cleanup(h) \o Destructors
  <1>1. h \in StepOf
    BY DEF LifeInv, LifeTypes
  <1> HIDE DEF h
  <1>2. /\ s \in Seq(StepOf) /\ Ending(s)
        /\ \A w \in Io : Has(s, <<"join", w>>)
        /\ h = <<"run", "loop">> => Has(s, <<"stop", "persistence">>)
    BY <1>1, WayOut
  <1>3. todo' = s
    BY DEF h
  <1> HIDE DEF s
  <1>5. /\ todo' \in Seq(StepOf) /\ Ending(todo)' /\ ~ Starting(todo)'
        /\ \A w \in Io : Has(todo, <<"join", w>>)'
        /\ h = <<"run", "loop">> => Has(todo, <<"stop", "persistence">>)'
    <2>1. Ending(todo)' <=> Ending(s)
      BY <1>3 DEF Ending
    <2>2. ~ Starting(todo)'
      BY <1>2, <2>1 DEF Starting, Ending, Has, StartOps, EndOps
    <2>3. \A e : Has(todo, e)' <=> Has(s, e)
      BY <1>3 DEF Has
    <2> QED BY <1>2, <1>3, <2>1, <2>2, <2>3
  <1>6. LifeTypes' /\ StartedOK' /\ (Starting(todo) \/ Ending(todo))'
    BY <1>5 DEF LifeInv, LifeTypes, StartedOK
  <1>7. ThreadsOK'
    <2>1. ASSUME NEW v \in Io
          PROVE  /\ Active(v) => Core \subseteq alive'
                 /\ Active(v) => outcome' # "exit"
                 /\ thread[v] # "running" => at'[v] = "out"
                 /\ thread[v] = "running" /\ at'[v] = "out" => quit[v]
                 /\ waking[v] \in {NoLoop, Base}
                 /\ waking[v] = Base => thread[v] = "running"
                 /\ waking[Base] = v => thread[v] = "running"
      BY DEF LifeInv, ThreadsOK
    <2> QED BY <1>5, <2>1 DEF ThreadsOK, Active
  <1>8. BaseOK'
    BY DEF LifeInv, BaseOK
  <1>9. SaveOK'
    BY <1>5 DEF LifeInv, SaveOK, h
  <1> QED BY <1>6, <1>7, <1>8, <1>9 DEF LifeInv

\* Only loop() is left to main: all it set up is there.
LEMMA AtRun ==
    ASSUME LifeInv, Starting(todo), Len(todo) = 1
    PROVE  /\ todo # <<>> /\ Head(todo) = <<"run", "loop">>
           /\ blocked /\ \A w \in Io : thread[w] = "running" /\ ~ quit[w]
  <1>1. todo \in Seq(StepOf) /\ todo # <<>> /\ todo[1] = <<"run", "loop">>
    BY SMTT(30) DEF LifeInv, LifeTypes, Starting, Has
  <1>2. \A i \in 1 .. Len(todo) : i = 1
    OBVIOUS
  <1>3. ASSUME NEW e, Has(todo, e) PROVE e = <<"run", "loop">>
    <2>1. PICK i \in 1 .. Len(todo) : todo[i] = e
      BY <1>3 DEF Has
    <2> QED BY <1>1, <1>2, <2>1
  <1>4. \A w \in Io : thread[w] = "running" /\ ~ quit[w]
    <2> TAKE w \in Io
    <2>1. <<"await", w>> # <<"run", "loop">>
      OBVIOUS
    <2>2. ~ Has(todo, <<"await", w>>)
      BY <1>3, <2>1
    <2> QED BY <2>2 DEF LifeInv, StartedOK
  <1>5. blocked
    <2>1. <<"construct", "signal">> # <<"run", "loop">>
      OBVIOUS
    <2>2. ~ Has(todo, <<"construct", "signal">>)
      BY <1>3, <2>1
    <2> QED BY <2>2 DEF LifeInv, StartedOK
  <1> QED BY <1>1, <1>4, <1>5

\* A step of a loop: what main has still to do stays, and so do the threads.
LEMMA LoopLifeKeeps ==
    ASSUME LifeInv,
           UNCHANGED <<todo, thread, alive, failed, blocked, outcome>>,
           dirty' \in BOOLEAN, pending' \in BOOLEAN, outcome = "none",
           dirty' => dirty \/ (Starting(todo) /\ Len(todo) = 1),
           at'[Base] # "out" => Starting(todo) /\ Len(todo) = 1,
           waking'[Base] \in Io \cup {NoLoop},
           \A w \in Io :
              /\ quit'[w] = quit[w]
              /\ thread[w] # "running" => at'[w] = "out"
              /\ thread[w] = "running" /\ at'[w] = "out" => quit[w]
              /\ waking'[w] \in {NoLoop, Base}
              /\ waking'[w] = Base => thread[w] = "running"
              /\ waking'[Base] = w => thread[w] = "running"
    PROVE  LifeInv'
  <1>1. /\ Starting(todo)' = Starting(todo)
        /\ Ending(todo)' = Ending(todo)
        /\ \A e : Has(todo, e)' = Has(todo, e)
    BY DEF Starting, Ending, Has
  <1>2. LifeTypes' /\ (Starting(todo) \/ Ending(todo))'
    BY <1>1 DEF LifeInv, LifeTypes
  <1>3. StartedOK'
    BY <1>1 DEF LifeInv, StartedOK
  <1>4. ThreadsOK'
    <2>1. ASSUME NEW w \in Io
          PROVE  /\ Active(w) => Core \subseteq alive
                 /\ Active(w) /\ Ending(todo)' => Has(todo, <<"join", w>>)'
                 /\ Active(w) => outcome # "exit"
      BY <1>1 DEF LifeInv, ThreadsOK
    <2> QED BY <2>1 DEF ThreadsOK, Active
  <1>5. BaseOK'
    BY <1>1 DEF BaseOK
  <1>6. SaveOK'
    <2>1. CASE dirty
      BY <1>1, <2>1 DEF LifeInv, SaveOK
    <2>2. CASE dirty' /\ Starting(todo) /\ Len(todo) = 1
      BY <1>1, <2>2, AtRun DEF SaveOK
    <2> QED BY <2>1, <2>2 DEF SaveOK
  <1> QED BY <1>2, <1>3, <1>4, <1>5, <1>6 DEF LifeInv

\* A loop that is in loop() is the base loop in main's last step, or that of a
\* thread that runs.
LEMMA WhoLoops ==
    ASSUME LifeInv, NEW l \in Loops, at[l] # "out"
    PROVE  /\ l = Base => Starting(todo) /\ Len(todo) = 1
           /\ l # Base => l \in Io /\ thread[l] = "running"
  BY LifecycleAssumption DEF Io, LifeInv, BaseOK, ThreadsOK

\* The loop of l moves on, and leaves loop() only if it has to quit.
LEMMA MoveLifeKeeps ==
    ASSUME LifeInv, WakeInv, outcome = "none", NEW l \in Loops, at[l] # "out",
           NEW x \in {"out", "check", "wait", "events", "tasks"}, x = "out" => quit[l],
           at' = [at EXCEPT ![l] = x],
           UNCHANGED <<quit, waking, todo, thread, alive, dirty, failed, blocked, pending, outcome>>
    PROVE  LifeInv'
  <1>1. /\ l = Base => Starting(todo) /\ Len(todo) = 1
        /\ l # Base => l \in Io /\ thread[l] = "running"
    BY WhoLoops
  <1>2. Base \in Loops /\ Io \subseteq Loops /\ Base \notin Io
    BY LifecycleAssumption DEF Io
  <1>3. \A m \in Loops : at'[m] = IF m = l THEN x ELSE at[m]
    BY DEF WakeInv, LoopTypes
  <1>4. at'[Base] # "out" => Starting(todo) /\ Len(todo) = 1
    BY <1>1, <1>2, <1>3 DEF LifeInv, BaseOK
  <1>5. dirty' \in BOOLEAN /\ pending' \in BOOLEAN /\ waking'[Base] \in Io \cup {NoLoop}
    BY DEF LifeInv, LifeTypes, BaseOK
  <1>6. ASSUME NEW w \in Io
        PROVE  /\ quit'[w] = quit[w]
               /\ thread[w] # "running" => at'[w] = "out"
               /\ thread[w] = "running" /\ at'[w] = "out" => quit[w]
               /\ waking'[w] \in {NoLoop, Base}
               /\ waking'[w] = Base => thread[w] = "running"
               /\ waking'[Base] = w => thread[w] = "running"
    <2>1. /\ thread[w] # "running" => at[w] = "out"
          /\ thread[w] = "running" /\ at[w] = "out" => quit[w]
          /\ waking[w] \in {NoLoop, Base}
          /\ waking[w] = Base => thread[w] = "running"
          /\ waking[Base] = w => thread[w] = "running"
      BY DEF LifeInv, ThreadsOK
    <2>2. at'[w] = (IF w = l THEN x ELSE at[w]) /\ w # Base
      BY <1>2, <1>3
    <2>3. w = l => thread[w] = "running"
      BY <1>1, <2>2
    <2> QED BY <2>1, <2>2, <2>3
  <1> QED BY <1>4, <1>5, <1>6, LoopLifeKeeps

\* A step that writes an eventfd, or that of a callback: no loop moves.
LEMMA StayLifeKeeps ==
    ASSUME LifeInv, WakeInv, outcome = "none", dirty' \in BOOLEAN, pending' \in BOOLEAN,
           dirty' => dirty \/ (Starting(todo) /\ Len(todo) = 1),
           \A w \in Io : quit'[w] = quit[w],
           NEW t \in Loops, NEW m \in Loops \cup {NoLoop},
           waking' \in {waking, [waking EXCEPT ![t] = m]},
           t = Base => m \in Io \cup {NoLoop} /\ (m # NoLoop => thread[m] = "running"),
           t # Base => m \in {Base, NoLoop} /\ (m # NoLoop => thread[t] = "running"),
           UNCHANGED <<at, todo, thread, alive, failed, blocked, outcome>>
    PROVE  LifeInv'
  <1>1. Base \in Loops /\ Io \subseteq Loops /\ Base \notin Io /\ NoLoop \notin Loops
    BY LifecycleAssumption, EventLoopAssumption DEF Io
  <1>2. \A l \in Loops : waking'[l] = waking[l] \/ (l = t /\ waking'[l] = m)
    BY DEF WakeInv, LoopTypes
  <1>3. waking'[Base] \in Io \cup {NoLoop}
    BY <1>1, <1>2 DEF LifeInv, BaseOK
  <1>4. at'[Base] # "out" => Starting(todo) /\ Len(todo) = 1
    BY DEF LifeInv, BaseOK
  <1>5. ASSUME NEW w \in Io
        PROVE  /\ quit'[w] = quit[w]
               /\ thread[w] # "running" => at'[w] = "out"
               /\ thread[w] = "running" /\ at'[w] = "out" => quit[w]
               /\ waking'[w] \in {NoLoop, Base}
               /\ waking'[w] = Base => thread[w] = "running"
               /\ waking'[Base] = w => thread[w] = "running"
    <2>1. /\ thread[w] # "running" => at[w] = "out"
          /\ thread[w] = "running" /\ at[w] = "out" => quit[w]
          /\ waking[w] \in {NoLoop, Base}
          /\ waking[w] = Base => thread[w] = "running"
          /\ waking[Base] = w => thread[w] = "running"
      BY DEF LifeInv, ThreadsOK
    <2>2. waking'[w] = waking[w] \/ (w = t /\ t # Base /\ waking'[w] = m)
      BY <1>1, <1>2
    <2>3. waking'[Base] = waking[Base] \/ (t = Base /\ waking'[Base] = m)
      BY <1>1, <1>2
    <2> QED BY <1>1, <2>1, <2>2, <2>3
  <1> QED BY <1>3, <1>4, <1>5, LoopLifeKeeps

\* thread_func publishes its loop, or reports that it has none.
LEMMA ThreadStartsKeeps ==
    ASSUME LifeInv, WakeInv, NEW w \in Io, ThreadStarts(w)
    PROVE  LifeInv'
  <1>1. /\ thread[w] = "starting"
        /\ UNCHANGED <<quit, waking, todo, alive, dirty, failed, blocked, pending, outcome>>
    BY DEF ThreadStarts, mainVars, signalVars
  <1>2. PICK x \in {"running", "failed"} :
          /\ thread' = [thread EXCEPT ![w] = x]
          /\ IF x = "running" THEN at' = [at EXCEPT ![w] = "check"] ELSE at' = at
    BY DEF ThreadStarts, EnterLoop
  <1>3. Base \in Loops /\ Io \subseteq Loops /\ Base \notin Io /\ NoLoop \notin Loops
    BY LifecycleAssumption, EventLoopAssumption DEF Io
  <1>4. /\ thread' \in [Io -> {"none", "starting", "running", "failed", "ended"}]
        /\ thread'[w] = x
        /\ \A v \in Io : v # w => thread'[v] = thread[v]
    BY <1>2 DEF LifeInv, LifeTypes
  <1>5. /\ \A l \in Loops : l # w => at'[l] = at[l]
        /\ x = "running" => at'[w] = "check"
        /\ x = "failed" => at'[w] = at[w]
    BY <1>2, <1>3 DEF WakeInv, LoopTypes
  <1>6. /\ Starting(todo)' = Starting(todo)
        /\ Ending(todo)' = Ending(todo)
        /\ \A e : Has(todo, e)' = Has(todo, e)
    BY <1>1 DEF Starting, Ending, Has
  <1>7. LifeTypes' /\ (Starting(todo) \/ Ending(todo))'
    BY <1>1, <1>4, <1>6 DEF LifeInv, LifeTypes
  <1>8. StartedOK'
    BY <1>1, <1>4, <1>6 DEF LifeInv, StartedOK
  <1>9. ThreadsOK'
    <2>1. ASSUME NEW v \in Io
          PROVE  /\ Active(v)' => Core \subseteq alive'
                 /\ Active(v)' /\ Ending(todo)' => Has(todo, <<"join", v>>)'
                 /\ Active(v)' => outcome' # "exit"
                 /\ thread'[v] # "running" => at'[v] = "out"
                 /\ thread'[v] = "running" /\ at'[v] = "out" => quit'[v]
                 /\ waking'[v] \in {NoLoop, Base}
                 /\ waking'[v] = Base => thread'[v] = "running"
                 /\ waking'[Base] = v => thread'[v] = "running"
      <3>1. /\ Active(v) => Core \subseteq alive
            /\ Active(v) /\ Ending(todo) => Has(todo, <<"join", v>>)
            /\ Active(v) => outcome # "exit"
            /\ thread[v] # "running" => at[v] = "out"
            /\ thread[v] = "running" /\ at[v] = "out" => quit[v]
            /\ waking[v] \in {NoLoop, Base}
            /\ waking[v] = Base => thread[v] = "running"
            /\ waking[Base] = v => thread[v] = "running"
        BY DEF LifeInv, ThreadsOK
      <3>2. Active(v)' => Active(v)
        BY <1>1, <1>4 DEF Active
      <3>3. v \in Loops /\ thread[w] # "running"
        BY <1>1, <1>3
      <3> QED BY <1>1, <1>4, <1>5, <1>6, <3>1, <3>2, <3>3
    <2> QED BY <2>1 DEF ThreadsOK
  <1>10. BaseOK'
    BY <1>1, <1>3, <1>5, <1>6 DEF LifeInv, BaseOK
  <1>11. SaveOK'
    BY <1>1, <1>6 DEF LifeInv, SaveOK
  <1> QED BY <1>7, <1>8, <1>9, <1>10, <1>11 DEF LifeInv

\* thread_func returns: it was told to quit, and nobody holds on to its loop.
LEMMA ThreadEndsKeeps ==
    ASSUME LifeInv, WakeInv, NEW w \in Io, ThreadEnds(w)
    PROVE  LifeInv'
  <1>1. /\ thread[w] = "running" /\ at[w] = "out" /\ waking[w] = NoLoop
        /\ ~ (quit[w] /\ waking[Base] = w)
        /\ thread' = [thread EXCEPT ![w] = "ended"]
        /\ UNCHANGED <<at, quit, waking, todo, alive, dirty, failed, blocked, pending, outcome>>
    BY DEF ThreadEnds, Free, loopVars, mainVars, signalVars
  <1>2. quit[w] /\ waking[Base] # w
    BY <1>1 DEF LifeInv, ThreadsOK
  <1>3. /\ thread' \in [Io -> {"none", "starting", "running", "failed", "ended"}]
        /\ thread'[w] = "ended"
        /\ \A v \in Io : v # w => thread'[v] = thread[v]
    BY <1>1 DEF LifeInv, LifeTypes
  <1>4. ~ Starting(todo)
    BY <1>2 DEF LifeInv, StartedOK
  <1>5. /\ Starting(todo)' = Starting(todo)
        /\ Ending(todo)' = Ending(todo)
        /\ \A e : Has(todo, e)' = Has(todo, e)
    BY <1>1 DEF Starting, Ending, Has
  <1>6. LifeTypes' /\ StartedOK' /\ (Starting(todo) \/ Ending(todo))'
    BY <1>1, <1>3, <1>4, <1>5 DEF LifeInv, LifeTypes, StartedOK
  <1>7. ThreadsOK'
    <2>1. ASSUME NEW v \in Io
          PROVE  /\ Active(v)' => Core \subseteq alive'
                 /\ Active(v)' /\ Ending(todo)' => Has(todo, <<"join", v>>)'
                 /\ Active(v)' => outcome' # "exit"
                 /\ thread'[v] # "running" => at'[v] = "out"
                 /\ thread'[v] = "running" /\ at'[v] = "out" => quit'[v]
                 /\ waking'[v] \in {NoLoop, Base}
                 /\ waking'[v] = Base => thread'[v] = "running"
                 /\ waking'[Base] = v => thread'[v] = "running"
      <3>1. /\ Active(v) => Core \subseteq alive
            /\ Active(v) /\ Ending(todo) => Has(todo, <<"join", v>>)
            /\ Active(v) => outcome # "exit"
            /\ thread[v] # "running" => at[v] = "out"
            /\ thread[v] = "running" /\ at[v] = "out" => quit[v]
            /\ waking[v] \in {NoLoop, Base}
            /\ waking[v] = Base => thread[v] = "running"
            /\ waking[Base] = v => thread[v] = "running"
        BY DEF LifeInv, ThreadsOK
      <3>2. Active(v)' => Active(v)
        BY <1>3 DEF Active
      <3>3. NoLoop # Base
        BY LifecycleAssumption, EventLoopAssumption
      <3> QED BY <1>1, <1>2, <1>3, <1>5, <3>1, <3>2, <3>3
    <2> QED BY <2>1 DEF ThreadsOK
  <1>8. BaseOK'
    BY <1>1, <1>5 DEF LifeInv, BaseOK
  <1>9. SaveOK'
    BY <1>1, <1>5 DEF LifeInv, SaveOK
  <1> QED BY <1>6, <1>7, <1>8, <1>9 DEF LifeInv

\* A signal kills the process only where there is nothing to save.
LEMMA SignalKeeps ==
    ASSUME LifeInv, Signal
    PROVE  LifeInv'
  <1>1. /\ pending' \in BOOLEAN /\ outcome' \in {outcome, "killed"} /\ (blocked => outcome' = outcome)
        /\ UNCHANGED <<at, quit, waking, todo, thread, alive, dirty, failed, blocked>>
    BY DEF Signal, LifeInv, LifeTypes, loopVars, mainVars
  <1>2. /\ Starting(todo)' = Starting(todo)
        /\ Ending(todo)' = Ending(todo)
        /\ \A e : Has(todo, e)' = Has(todo, e)
    BY <1>1 DEF Starting, Ending, Has
  <1>3. LifeTypes' /\ StartedOK' /\ (Starting(todo) \/ Ending(todo))'
    BY <1>1, <1>2 DEF LifeInv, LifeTypes, StartedOK
  <1>4. ThreadsOK'
    BY <1>1, <1>2 DEF LifeInv, ThreadsOK, Active
  <1>5. BaseOK'
    BY <1>1, <1>2 DEF LifeInv, BaseOK
  <1>6. SaveOK'
    BY <1>1, <1>2 DEF LifeInv, SaveOK
  <1> QED BY <1>3, <1>4, <1>5, <1>6 DEF LifeInv

-----------------------------------------------------------------------------
(* The steps of main and of the I/O threads are steps of these kinds. *)

\* What main starts with comes before the loop's end and any failure.
LEMMA AtStart ==
    ASSUME LifeInv, NEW op \in StartOps, NEW x, AtStep(op, x)
    PROVE  /\ Starting(todo) /\ todo # <<>> /\ Head(todo) = <<op, x>>
           /\ at[Base] = "out" /\ outcome = "none" /\ waking[Base] = NoLoop
           /\ op = "run" => Len(todo) = 1
  <1>1. /\ todo \in Seq(StepOf) /\ todo # <<>> /\ Head(todo) = <<op, x>>
        /\ at[Base] = "out" /\ outcome = "none" /\ waking[Base] = NoLoop
    BY DEF LifeInv, LifeTypes, AtStep, Free
  <1>2. 1 \in 1 .. Len(todo) /\ todo[1] = <<op, x>>
    BY <1>1
  <1>3. ~ Ending(todo)
    BY <1>2 DEF Ending, StartOps, EndOps
  <1>4. Starting(todo)
    BY <1>3 DEF LifeInv
  <1>5. op = "run" => Len(todo) = 1
    <2>1. todo[1][1] = op
      BY <1>2
    <2> QED BY <1>2, <1>4, <2>1 DEF Starting
  <1> QED BY <1>1, <1>4, <1>5

\* A step that fails leaves main with the way out.
LEMMA AbortKeeps ==
    ASSUME LifeInv, NEW op \in StartOps, NEW x, AtStep(op, x), Abort,
           UNCHANGED <<loopVars, thread, alive, dirty, signalVars>>
    PROVE  LifeInv'
  BY AtStart, LeaveKeeps DEF Abort, loopVars, signalVars

\* A constructor of main, valid or not.
LEMMA ConstructKeeps ==
    ASSUME LifeInv, NEW x \in Objects, Construct(x)
    PROVE  LifeInv'
  <1>1. "construct" \in StartOps \ {"run", "spawn"}
    BY DEF StartOps
  <1>2. /\ AtStep("construct", x) /\ outcome = "none"
        /\ UNCHANGED <<loopVars, thread, dirty, pending, outcome>>
    BY DEF Construct, AtStep
  <1>3. CASE Succeed /\ alive' = alive \cup {x} /\ blocked' = (blocked \/ x = "signal")
    <2>1. /\ UNCHANGED <<at, quit, waking, thread, dirty, failed, pending, outcome>>
          /\ todo' = Tail(todo) /\ blocked' \in BOOLEAN
      BY <1>2, <1>3 DEF Succeed, loopVars
    <2>2. dirty' \in BOOLEAN /\ failed' \in BOOLEAN /\ pending' \in BOOLEAN /\ outcome' = "none"
      BY <1>2, <2>1 DEF LifeInv, LifeTypes
    <2>3. \A y \in Core : y \in alive => y \in alive' \/ <<"construct", x>> = <<"destroy", y>>
      BY <1>3
    <2>4. x \in alive' /\ (x = "signal" => blocked') /\ (blocked => blocked')
      BY <1>3
    <2>5. "construct" \in (StartOps \cup EndOps) \ {"run", "spawn"}
      BY <1>1
    <2>6. /\ dirty' => dirty
          /\ failed => failed'
          /\ <<"construct", x>> # <<"stop", "persistence">>
          /\ outcome' \in {"none", "exit", "killed"}
      BY <2>1, <2>2
    <2> QED BY <1>2, <2>1, <2>2, <2>3, <2>4, <2>5, <2>6, SucceedKeeps
  <1>4. CASE Abort /\ UNCHANGED <<alive, blocked>>
    BY <1>1, <1>2, <1>4, AbortKeeps DEF signalVars
  <1> QED BY <1>3, <1>4 DEF Construct

\* start() of a timer, the service, the signals or the listening socket.
LEMMA StartKeeps ==
    ASSUME LifeInv, NEW op \in {"listen", "start"}, NEW x, AtStep(op, x), Succeed \/ Abort,
           UNCHANGED <<loopVars, thread, alive, dirty, signalVars>>
    PROVE  LifeInv'
  <1>1. op \in StartOps \ {"run", "spawn"}
    BY DEF StartOps
  <1>2. CASE Succeed
    <2>1. /\ UNCHANGED <<at, quit, waking, thread, alive, dirty, failed, blocked, pending, outcome>>
          /\ todo' = Tail(todo) /\ outcome = "none"
      BY <1>2 DEF Succeed, loopVars, signalVars, AtStep
    <2>2. /\ dirty' \in BOOLEAN /\ failed' \in BOOLEAN /\ pending' \in BOOLEAN /\ outcome' = "none"
          /\ blocked' \in BOOLEAN
      BY <2>1 DEF LifeInv, LifeTypes
    <2> QED BY <1>1, <1>2, <2>1, <2>2, SucceedKeeps
  <1>3. CASE Abort
    BY <1>1, <1>3, AbortKeeps
  <1> QED BY <1>2, <1>3

\* Steps on the way out that change neither objects nor threads.
LEMMA StopKeeps ==
    ASSUME LifeInv, NEW op \in {"unlisten", "stop", "join", "quit", "post"}, NEW x, AtStep(op, x),
           todo' = Tail(todo), failed' \in {failed, TRUE},
           dirty' \in {dirty, FALSE},
           <<op, x>> = <<"stop", "persistence">> /\ dirty' => failed',
           op = "join" => ~ Active(x),
           UNCHANGED <<at, quit, waking, thread, alive, signalVars>>
    PROVE  LifeInv'
  <1>1. op \in EndOps
    BY DEF EndOps
  <1>2. UNCHANGED <<blocked, pending, outcome>> /\ outcome = "none"
    BY DEF signalVars, AtStep
  <1>3. /\ dirty' \in BOOLEAN /\ failed' \in BOOLEAN /\ pending' \in BOOLEAN /\ outcome' = "none"
        /\ blocked' \in BOOLEAN
    BY <1>2 DEF LifeInv, LifeTypes
  <1>4. op \in (StartOps \cup EndOps) \ {"run", "spawn"}
    BY <1>1
  <1>5. /\ \A y \in Core : y \in alive => y \in alive'
        /\ op # "construct" /\ op # "await"
        /\ blocked => blocked'
        /\ outcome' \in {"none", "exit", "killed"}
    BY <1>2, <1>3
  <1>6. dirty' => dirty
    <2>1. dirty' = dirty \/ dirty' = FALSE
      OBVIOUS
    <2> QED BY <2>1
  <1>7. failed => failed'
    <2>1. failed' = failed \/ failed' = TRUE
      OBVIOUS
    <2> QED BY <2>1
  <1> QED BY <1>2, <1>3, <1>4, <1>5, <1>6, <1>7, SucceedKeeps

\* A destructor of main's scope.
LEMMA DestroyKeeps ==
    ASSUME LifeInv, NEW x \in Objects, Destroy(x)
    PROVE  LifeInv'
  <1>1. "destroy" \in EndOps
    BY DEF EndOps
  <1>2. /\ AtStep("destroy", x) /\ todo' = Tail(todo)
        /\ UNCHANGED <<at, quit, waking, thread, dirty, failed, pending>>
        /\ alive' = alive \ {x} /\ blocked' = (blocked /\ x # "signal")
        /\ outcome' \in {"none", "killed"} /\ (outcome' = "killed" => x = "signal")
    BY DEF Destroy, Succeed, loopVars
  <1>3. dirty' \in BOOLEAN /\ failed' \in BOOLEAN /\ pending' \in BOOLEAN /\ blocked' \in BOOLEAN
    BY <1>2 DEF LifeInv, LifeTypes
  <1> QED BY <1>1, <1>2, <1>3, SucceedKeeps

\* main returns.
LEMMA ExitKeeps ==
    ASSUME LifeInv, Exit
    PROVE  LifeInv'
  <1>1. "exit" \in EndOps
    BY DEF EndOps
  <1>2. /\ AtStep("exit", "process") /\ todo' = Tail(todo) /\ outcome' = "exit"
        /\ UNCHANGED <<at, quit, waking, thread, alive, dirty, failed, blocked, pending>>
    BY DEF Exit, Succeed, loopVars
  <1>3. dirty' \in BOOLEAN /\ failed' \in BOOLEAN /\ pending' \in BOOLEAN /\ blocked' \in BOOLEAN
    BY <1>2 DEF LifeInv, LifeTypes
  <1> QED BY <1>1, <1>2, <1>3, SucceedKeeps

\* start_loop returns the loop, or null.
LEMMA AwaitKeeps ==
    ASSUME LifeInv, NEW w \in Io, Await(w)
    PROVE  LifeInv'
  <1>1. "await" \in StartOps \ {"run", "spawn"}
    BY DEF StartOps
  <1>2. AtStep("await", w) /\ UNCHANGED <<loopVars, thread, alive, dirty, signalVars>>
    BY DEF Await
  <1>3. CASE thread[w] = "running" /\ Succeed
    <2>1. /\ UNCHANGED <<at, quit, waking, thread, alive, dirty, failed, blocked, pending, outcome>>
          /\ todo' = Tail(todo) /\ outcome = "none"
      BY <1>2, <1>3 DEF Succeed, loopVars, signalVars, AtStep
    <2>2. /\ dirty' \in BOOLEAN /\ failed' \in BOOLEAN /\ pending' \in BOOLEAN /\ outcome' = "none"
          /\ blocked' \in BOOLEAN
      BY <2>1 DEF LifeInv, LifeTypes
    <2> QED BY <1>1, <1>2, <1>3, <2>1, <2>2, SucceedKeeps
  <1>4. CASE Abort
    BY <1>1, <1>2, <1>4, AbortKeeps
  <1> QED BY <1>3, <1>4 DEF Await

\* ~EventLoopThread calls quit only on a loop that runs.
LEMMA QuitThreadKeeps ==
    ASSUME LifeInv, WakeInv, NEW w \in Io, QuitThread(w)
    PROVE  LifeInv'
  <1>1. /\ AtStep("quit", w) /\ todo' = Tail(todo)
        /\ UNCHANGED <<at, thread, alive, dirty, failed, signalVars>>
    BY DEF QuitThread, Succeed
  <1>2. CASE UNCHANGED <<quit, waking>>
    <2>1. failed' \in {failed, TRUE} /\ dirty' \in {dirty, FALSE}
      BY <1>1
    <2> QED BY <1>1, <1>2, <2>1, StopKeeps
  <1>3. CASE thread[w] = "running" /\ SetQuit(Base, w)
    <2>1. Base # w /\ w \in Loops
      BY LifecycleAssumption DEF Io
    <2>2. waking' = [waking EXCEPT ![Base] = w] /\ \A v \in Io : quit[v] => quit'[v]
      BY <1>3, <2>1, LifecycleAssumption DEF SetQuit, WakeInv, LoopTypes, Io
    <2> QED BY <1>1, <1>3, <2>2, OweLifeKeeps DEF signalVars
  <1> QED BY <1>2, <1>3 DEF QuitThread

\* ~TcpServer posts connect_destroyed only to a loop that runs.
LEMMA PostDestroyedKeeps ==
    ASSUME LifeInv, WakeInv, NEW w \in Io, PostDestroyed(w)
    PROVE  LifeInv'
  <1>1. /\ AtStep("post", w) /\ todo' = Tail(todo)
        /\ UNCHANGED <<at, quit, thread, alive, dirty, failed, signalVars>>
    BY DEF PostDestroyed, Succeed
  <1>2. CASE UNCHANGED waking
    <2>1. failed' \in {failed, TRUE} /\ dirty' \in {dirty, FALSE}
      BY <1>1
    <2> QED BY <1>1, <1>2, <2>1, StopKeeps
  <1>3. CASE thread[w] = "running" /\ waking' = [waking EXCEPT ![Base] = w]
    BY <1>1, <1>3, OweLifeKeeps DEF signalVars
  <1>4. UNCHANGED waking \/ (thread[w] = "running" /\ waking' = [waking EXCEPT ![Base] = w])
    BY DEF PostDestroyed, MayPost, QueueInLoop
  <1> QED BY <1>2, <1>3, <1>4

\* Tasks and callbacks: the base loop posts to threads that run, they to it.
LEMMA MayPostLifeKeeps ==
    ASSUME LifeInv, WakeInv, outcome = "none", NEW t \in Loops, at[t] # "out",
           NEW targets, targets = (IF t = Base THEN Busy ELSE {Base}), MayPost(t, targets),
           dirty' \in BOOLEAN, t # Base => dirty' = dirty,
           UNCHANGED <<quit, at, todo, thread, alive, failed, signalVars>>
    PROVE  LifeInv'
  <1>1. /\ t = Base => Starting(todo) /\ Len(todo) = 1
        /\ t # Base => t \in Io /\ thread[t] = "running"
    BY WhoLoops
  <1>2. PICK m \in targets \cup {NoLoop} : waking' \in {waking, [waking EXCEPT ![t] = m]}
    BY DEF MayPost, QueueInLoop
  <1>3. /\ t = Base => m \in Io \cup {NoLoop} /\ (m # NoLoop => thread[m] = "running")
        /\ t # Base => m \in {Base, NoLoop}
    BY <1>1, <1>2, AtRun, LifecycleAssumption DEF Io
  <1>4. m \in Loops \cup {NoLoop}
    BY <1>2, LifecycleAssumption
  <1>5. UNCHANGED <<blocked, pending, outcome>> /\ pending' \in BOOLEAN
    BY DEF signalVars, LifeInv, LifeTypes
  <1>6. dirty' => dirty \/ (Starting(todo) /\ Len(todo) = 1)
    BY <1>1
  <1> QED BY <1>1, <1>2, <1>3, <1>4, <1>5, <1>6, StayLifeKeeps

\* A round of loop().
LEMMA LoopStepLifeKeeps ==
    ASSUME LifeInv, WakeInv, outcome = "none", NEW l \in Loops, LoopStep(l) \/ Wakeup(l),
           UNCHANGED <<todo, thread, mainVars, signalVars>>
    PROVE  LifeInv'
  <1>0. /\ UNCHANGED <<alive, dirty, failed, blocked, pending, outcome>>
        /\ dirty' \in BOOLEAN /\ pending' \in BOOLEAN
    BY DEF mainVars, signalVars, LifeInv, LifeTypes
  <1>1. CASE Wakeup(l)
    <2>1. waking' \in {waking, [waking EXCEPT ![l] = NoLoop]} /\ UNCHANGED <<at, quit>>
      BY <1>1 DEF Wakeup
    <2> QED BY <1>0, <2>1, StayLifeKeeps
  <1>2. CASE CheckQuit(l)
    <2>1. CASE quit[l]
      BY <1>0, <1>2, <2>1, MoveLifeKeeps DEF CheckQuit
    <2>2. CASE ~ quit[l]
      BY <1>0, <1>2, <2>2, MoveLifeKeeps DEF CheckQuit
    <2> QED BY <2>1, <2>2
  <1>3. CASE HandleWakeup(l)
    <2>1. waking' \in {waking, [waking EXCEPT ![l] = NoLoop]} /\ UNCHANGED <<at, quit>>
      BY <1>3 DEF HandleWakeup
    <2> QED BY <1>0, <2>1, StayLifeKeeps
  <1>4. CASE TakeTasks(l)
    BY <1>0, <1>4, MoveLifeKeeps DEF TakeTasks
  <1>5. CASE TasksDone(l)
    BY <1>0, <1>5, MoveLifeKeeps DEF TasksDone
  <1> QED BY <1>1, <1>2, <1>3, <1>4, <1>5 DEF LoopStep

\* epoll_wait returns.
LEMMA EpollLifeKeeps ==
    ASSUME LifeInv, WakeInv, outcome = "none", NEW l \in Loops, NEW events, EpollWait(l, events),
           UNCHANGED <<todo, thread, mainVars, signalVars>>
    PROVE  LifeInv'
  <1>1. /\ at[l] # "out" /\ at' = [at EXCEPT ![l] = "events"]
        /\ UNCHANGED <<quit, waking>>
    BY DEF EpollWait
  <1>2. UNCHANGED <<alive, dirty, failed, blocked, pending, outcome>>
    BY DEF mainVars, signalVars
  <1> QED BY <1>1, <1>2, MoveLifeKeeps

\* main enters loop().
LEMMA RunKeeps ==
    ASSUME LifeInv, WakeInv, Run
    PROVE  LifeInv'
  <1>1. /\ AtStep("run", "loop") /\ at' = [at EXCEPT ![Base] = "check"]
        /\ UNCHANGED <<quit, waking, todo, thread, alive, dirty, failed, blocked, pending, outcome>>
    BY DEF Run, EnterLoop, mainVars, signalVars
  <1>2. Starting(todo) /\ Len(todo) = 1 /\ outcome = "none"
    <2>1. "run" \in StartOps
      BY DEF StartOps
    <2> QED BY <1>1, <2>1, AtStart
  <1>3. \A w \in Io : at'[w] = at[w]
    BY <1>1, LifecycleAssumption DEF Io, WakeInv, LoopTypes
  <1>4. dirty' \in BOOLEAN /\ pending' \in BOOLEAN /\ waking'[Base] \in Io \cup {NoLoop}
    BY <1>1 DEF LifeInv, LifeTypes, BaseOK
  <1>5. ASSUME NEW w \in Io
        PROVE  /\ quit'[w] = quit[w]
               /\ thread[w] # "running" => at'[w] = "out"
               /\ thread[w] = "running" /\ at'[w] = "out" => quit[w]
               /\ waking'[w] \in {NoLoop, Base}
               /\ waking'[w] = Base => thread[w] = "running"
               /\ waking'[Base] = w => thread[w] = "running"
    BY <1>1, <1>3 DEF LifeInv, ThreadsOK
  <1> QED BY <1>1, <1>2, <1>4, <1>5, LoopLifeKeeps

\* loop() returns, or epoll_wait fails.
LEMMA LoopEndsKeeps ==
    ASSUME LifeInv, WakeInv, LoopReturns \/ LoopFails
    PROVE  LifeInv'
  <1>0. Base \in Loops /\ Io \subseteq Loops /\ Base \notin Io
    BY LifecycleAssumption DEF Io
  <1>1. CASE LoopReturns
    <2>1. /\ AtStep("run", "loop") /\ todo' = Cleanup(Head(todo)) \o Destructors
          /\ UNCHANGED <<at, quit, waking, thread, alive, dirty, failed, blocked, pending, outcome>>
      BY <1>1 DEF LoopReturns, loopVars, mainVars, signalVars
    <2>2. /\ Starting(todo) /\ todo # <<>> /\ Head(todo) = <<"run", "loop">>
          /\ at[Base] = "out"
      <3>1. "run" \in StartOps
        BY DEF StartOps
      <3> QED BY <2>1, <3>1, AtStart
    <2>3. failed' \in BOOLEAN
      BY <2>1 DEF LifeInv, LifeTypes
    <2> QED BY <2>1, <2>2, <2>3, LeaveKeeps
  <1>2. CASE LoopFails
    <2>1. /\ at[Base] # "out" /\ at' = [at EXCEPT ![Base] = "out"]
          /\ todo' = Cleanup(Head(todo)) \o Destructors /\ failed' = TRUE
          /\ UNCHANGED <<quit, waking, thread, alive, dirty, blocked, pending, outcome>>
      BY <1>2 DEF LoopFails, Abort, signalVars
    <2>2. Starting(todo) /\ Len(todo) = 1
      BY <1>0, <2>1, WhoLoops
    <2>3. todo # <<>>
      BY <2>2, AtRun
    <2>4. at'[Base] = "out" /\ \A w \in Io : at'[w] = at[w]
      BY <1>0, <2>1 DEF WakeInv, LoopTypes
    <2> QED BY <2>1, <2>2, <2>3, <2>4, LeaveKeeps
  <1> QED BY <1>1, <1>2

\* The callbacks and tasks of the base loop.
LEMMA BaseLoopKeeps ==
    ASSUME LifeInv, WakeInv, outcome = "none",
           (\E x \in watched : RunCallback(x)) \/ HandleSignal \/ RunBaseTask
    PROVE  LifeInv'
  <1>0. Base \in Loops /\ Io \subseteq Loops /\ Base \notin Io
    BY LifecycleAssumption DEF Io
  <1>1. ASSUME NEW x \in watched, RunCallback(x) PROVE LifeInv'
    <2>1. /\ at[Base] # "out" /\ MayPost(Base, Busy)
          /\ UNCHANGED <<quit, at, todo, thread, alive, failed, signalVars>>
      BY <1>1 DEF RunCallback, Callback
    <2>2. dirty' \in BOOLEAN
      BY <1>1 DEF RunCallback, LifeInv, LifeTypes
    <2> QED BY <1>0, <2>1, <2>2, MayPostLifeKeeps
  <1>2. CASE RunBaseTask
    <2>1. /\ at[Base] # "out" /\ MayPost(Base, Busy)
          /\ UNCHANGED <<quit, at, todo, thread, alive, failed, signalVars>>
      BY <1>2 DEF RunBaseTask, RunTask
    <2>2. dirty' \in BOOLEAN
      BY <1>2 DEF RunBaseTask, LifeInv, LifeTypes
    <2> QED BY <1>0, <2>1, <2>2, MayPostLifeKeeps
  <1>3. CASE HandleSignal
    <2>1. /\ quit' = [quit EXCEPT ![Base] = TRUE] /\ pending' = FALSE
          /\ UNCHANGED <<waking, at, todo, thread, alive, dirty, failed, blocked, outcome>>
      BY <1>3 DEF HandleSignal, SetQuit, mainVars
    <2>2. \A w \in Io : quit'[w] = quit[w]
      BY <1>0, <2>1 DEF WakeInv, LoopTypes
    <2>3. dirty' \in BOOLEAN /\ pending' \in BOOLEAN
      BY <2>1 DEF LifeInv, LifeTypes
    <2>4. waking' \in {waking, [waking EXCEPT ![Base] = NoLoop]}
      BY <2>1
    <2> QED BY <1>0, <2>1, <2>2, <2>3, <2>4, StayLifeKeeps
  <1> QED BY <1>1, <1>2, <1>3

\* The steps of main.
LEMMA MainLifeKeeps ==
    ASSUME LifeInv, WakeInv, outcome = "none", MainStep
    PROVE  LifeInv'
  <1>0. Base \in Loops
    BY LifecycleAssumption
  <1>1. ASSUME NEW x \in Objects, Construct(x) PROVE LifeInv'
    BY <1>1, ConstructKeeps
  <1>2. ASSUME NEW x \in Objects, Start(x) PROVE LifeInv'
    BY <1>2, StartKeeps DEF Start
  <1>3. ASSUME NEW x \in Objects, Stop(x) PROVE LifeInv'
    <2>1. /\ AtStep("stop", x) /\ todo' = Tail(todo) /\ failed' \in {failed, TRUE}
          /\ UNCHANGED <<at, quit, waking, thread, alive, dirty, signalVars>>
          /\ x # "persistence"
      BY <1>3 DEF Stop, loopVars
    <2>2. dirty' \in {dirty, FALSE}
      BY <2>1
    <2> QED BY <2>1, <2>2, StopKeeps
  <1>4. ASSUME NEW x \in Objects, Destroy(x) PROVE LifeInv'
    BY <1>4, DestroyKeeps
  <1>5. CASE StopPersistence
    <2>1. /\ AtStep("stop", "persistence") /\ todo' = Tail(todo)
          /\ UNCHANGED <<at, quit, waking, thread, alive, signalVars>>
          /\ failed' \in {failed, TRUE} /\ dirty' \in {dirty, FALSE}
          /\ dirty' => failed'
      BY <1>5 DEF StopPersistence, loopVars
    <2> QED BY <2>1, StopKeeps
  <1>6. CASE Listen
    BY <1>6, StartKeeps DEF Listen
  <1>7. CASE Unlisten
    <2>1. /\ AtStep("unlisten", "server") /\ todo' = Tail(todo)
          /\ UNCHANGED <<at, quit, waking, thread, alive, dirty, failed, signalVars>>
      BY <1>7 DEF Unlisten, Succeed, loopVars
    <2>2. failed' \in {failed, TRUE} /\ dirty' \in {dirty, FALSE}
      BY <2>1
    <2> QED BY <2>1, <2>2, StopKeeps
  <1>8. CASE Exit
    BY <1>8, ExitKeeps
  <1>9. CASE Run
    BY <1>9, RunKeeps
  <1>10. CASE LoopReturns
    BY <1>10, LoopEndsKeeps
  <1>11. ASSUME NEW w \in Io, Spawn(w) \/ Await(w) \/ QuitThread(w) \/ PostDestroyed(w)
         PROVE  LifeInv'
    BY <1>11, SpawnKeeps, AwaitKeeps, QuitThreadKeeps, PostDestroyedKeeps
  <1>12. ASSUME NEW w \in Io, Join(w) PROVE LifeInv'
    <2>1. /\ AtStep("join", w) /\ todo' = Tail(todo) /\ ~ Active(w)
          /\ UNCHANGED <<at, quit, waking, thread, alive, dirty, failed, signalVars>>
      BY <1>12 DEF Join, Succeed, loopVars, Active
    <2>2. failed' \in {failed, TRUE} /\ dirty' \in {dirty, FALSE}
      BY <2>1
    <2> QED BY <2>1, <2>2, StopKeeps
  <1>13. CASE (\E x \in watched : RunCallback(x)) \/ HandleSignal \/ RunBaseTask
    BY <1>13, BaseLoopKeeps
  <1>14. CASE WaitOnBase({})
    BY <1>0, <1>14, EpollLifeKeeps DEF WaitOnBase
  <1>15. CASE (LoopStep(Base) \/ Wakeup(Base)) /\ UNCHANGED <<todo, thread, mainVars, signalVars>>
    BY <1>0, <1>15, LoopStepLifeKeeps
  <1> QED BY <1>1, <1>2, <1>3, <1>4, <1>5, <1>6, <1>7, <1>8, <1>9, <1>10, <1>11, <1>12,
             <1>13, <1>14, <1>15 DEF MainStep

\* The steps of an I/O thread.
LEMMA IoLifeKeeps ==
    ASSUME LifeInv, WakeInv, outcome = "none", NEW w \in Io, IoStep(w)
    PROVE  LifeInv'
  <1>0. w \in Loops /\ w # Base
    BY LifecycleAssumption DEF Io
  <1>1. CASE ThreadStarts(w) \/ ThreadEnds(w)
    BY <1>1, ThreadStartsKeeps, ThreadEndsKeeps
  <1>2. CASE RunTraffic(w) \/ RunIoTask(w)
    <2>1. /\ at[w] # "out" /\ MayPost(w, {Base})
          /\ UNCHANGED <<quit, at, todo, thread, alive, dirty, failed, signalVars>>
      BY <1>2 DEF RunTraffic, RunIoTask, Callback, RunTask, mainVars
    <2>2. dirty' \in BOOLEAN
      BY <2>1 DEF LifeInv, LifeTypes
    <2> QED BY <1>0, <2>1, <2>2, MayPostLifeKeeps
  <1>3. CASE WaitOnIo(w, {})
    BY <1>0, <1>3, EpollLifeKeeps DEF WaitOnIo
  <1>4. CASE (LoopStep(w) \/ Wakeup(w)) /\ UNCHANGED <<todo, thread, mainVars, signalVars>>
    BY <1>0, <1>4, LoopStepLifeKeeps
  <1> QED BY <1>1, <1>2, <1>3, <1>4 DEF IoStep

\* Every step of the process keeps LifeInv.
LEMMA NextLifeKeeps ==
    ASSUME LifeInv, WakeInv, [Next]_vars
    PROVE  LifeInv'
  <1>0. Base \in Loops /\ Io \subseteq Loops /\ Busy \subseteq Io
    BY LifecycleAssumption DEF Io
  <1>1. CASE outcome = "none" /\ MainStep
    BY <1>1, MainLifeKeeps
  <1>2. CASE LoopFails
    BY <1>2, LoopEndsKeeps
  <1>3. CASE Signal
    BY <1>3, SignalKeeps
  <1>4. ASSUME outcome = "none", NEW events, WaitOnBase(events) PROVE LifeInv'
    BY <1>0, <1>4, EpollLifeKeeps DEF WaitOnBase
  <1>5. ASSUME outcome = "none", NEW w \in Io, IoStep(w) PROVE LifeInv'
    BY <1>5, IoLifeKeeps
  <1>6. ASSUME outcome = "none", NEW w \in Busy, WaitOnIo(w, {"traffic"}) PROVE LifeInv'
    BY <1>0, <1>6, EpollLifeKeeps DEF WaitOnIo
  <1>7. CASE UNCHANGED vars
    <2>1. UNCHANGED <<at, quit, waking, todo, thread, alive, dirty, failed, blocked, pending, outcome>>
      BY <1>7 DEF vars, loopVars, mainVars, signalVars
    <2>2. /\ Starting(todo)' = Starting(todo)
          /\ Ending(todo)' = Ending(todo)
          /\ \A e : Has(todo, e)' = Has(todo, e)
      BY <2>1 DEF Starting, Ending, Has
    <2>3. LifeTypes' /\ StartedOK' /\ (Starting(todo) \/ Ending(todo))'
      BY <2>1, <2>2 DEF LifeInv, LifeTypes, StartedOK
    <2>4. ThreadsOK'
      BY <2>1, <2>2 DEF LifeInv, ThreadsOK, Active
    <2>5. BaseOK' /\ SaveOK'
      BY <2>1, <2>2 DEF LifeInv, BaseOK, SaveOK
    <2> QED BY <2>3, <2>4, <2>5 DEF LifeInv
  <1> QED BY <1>1, <1>2, <1>3, <1>4, <1>5, <1>6, <1>7 DEF Next

\* Every state of the process is in LifeInv.
THEOREM LifeInvariance == Spec => []LifeInv
  <1>1. Init => LifeInv
    <2> SUFFICES ASSUME Init PROVE LifeInv
      OBVIOUS
    <2>1. /\ todo \in Seq(StepOf) /\ Starting(todo)
          /\ \A x \in Core \cup {"signal"} : Has(todo, <<"construct", x>>)
          /\ \A w \in Io : Has(todo, <<"await", w>>)
      BY StartupStarts DEF Init
    <2>2. /\ thread = [w \in Io |-> "none"] /\ dirty = FALSE /\ failed = FALSE
          /\ blocked = FALSE /\ pending = FALSE /\ outcome = "none"
          /\ quit = [l \in Loops |-> FALSE]
          /\ at = [l \in Loops |-> "out"]
          /\ waking = [l \in Loops |-> NoLoop]
      BY DEF Init, LoopInit
    <2>3. Base \in Loops /\ Io \subseteq Loops /\ NoLoop \notin Loops
      BY LifecycleAssumption, EventLoopAssumption DEF Io
    <2>4. ~ Ending(todo)
      BY <2>1, NotBoth
    <2>5. LifeTypes /\ SaveOK
      BY <2>1, <2>2 DEF LifeTypes, SaveOK
    <2>6. StartedOK
      BY <2>1, <2>2, <2>3 DEF StartedOK
    <2>7. ThreadsOK /\ BaseOK
      BY <2>2, <2>3, <2>4 DEF ThreadsOK, BaseOK, Active
    <2> QED BY <2>1, <2>5, <2>6, <2>7 DEF LifeInv
  <1>2. LifeInv /\ WakeInv /\ [Next]_vars => LifeInv'
    BY NextLifeKeeps
  <1> QED BY <1>1, <1>2, WakeInvariance, PTL DEF Spec

(***************************************************************************)
(* For every number of I/O threads and wherever main fails: no thread      *)
(* writes the eventfd of a loop that is gone, no I/O thread outlives what  *)
(* it uses, and none is left when main returns (~EventLoopThread,          *)
(* thread_func, ~TcpServer, the order of destruction in main).             *)
(***************************************************************************)
THEOREM NothingEverDangles == Spec => []NothingDangles
  <1>1. LifeInv /\ WakeInv => NothingDangles
    <2> SUFFICES ASSUME LifeInv, WakeInv PROVE NothingDangles
      OBVIOUS
    <2>1. Loops = Io \cup {Base} /\ Base \notin Io /\ NoLoop \notin Loops
      BY LifecycleAssumption, EventLoopAssumption DEF Io
    <2>2. ASSUME NEW t \in Loops, waking[t] # NoLoop
          PROVE  IF waking[t] = Base THEN "loop" \in alive ELSE thread[waking[t]] = "running"
      <3>1. CASE t = Base
        BY <2>1, <2>2, <3>1 DEF LifeInv, BaseOK, ThreadsOK
      <3>2. CASE t \in Io
        <4>1. waking[t] = Base /\ thread[t] = "running"
          BY <2>2, <3>2 DEF LifeInv, ThreadsOK
        <4>2. Core \subseteq alive
          BY <3>2, <4>1 DEF LifeInv, ThreadsOK, Active
        <4> QED BY <4>1, <4>2 DEF Core
      <3> QED BY <2>1, <3>1, <3>2
    <2>3. ASSUME NEW w \in Io, thread[w] \in {"starting", "running"}
          PROVE  {"loop", "rooms", "server"} \subseteq alive /\ outcome # "exit"
      BY <2>3 DEF LifeInv, ThreadsOK, Active, Core
    <2> QED BY <2>2, <2>3 DEF NothingDangles
  <1> QED BY <1>1, LifeInvariance, WakeInvariance, PTL

(***************************************************************************)
(* For every number of I/O threads, however the process ends: what the     *)
(* rooms last held is saved unless main reports a failure (main's order of *)
(* stop() calls, PersistenceService::stop, ~ShutdownSignal).               *)
(***************************************************************************)
THEOREM AlwaysSavedAtEnd == Spec => []SavedAtEnd
  <1>1. LifeInv => SavedAtEnd
    BY DEF LifeInv, SaveOK, SavedAtEnd
  <1> QED BY <1>1, LifeInvariance, PTL
=============================================================================
