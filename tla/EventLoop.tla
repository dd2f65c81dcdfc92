----------------------------- MODULE EventLoop -----------------------------
(***************************************************************************)
(* EventLoop: how threads hand tasks to a loop that sleeps in epoll_wait.  *)
(* Every loop has one owner thread, which goes by the loop's name.         *)
(*                                                                         *)
(* queue_in_loop appends under the mutex and writes the eventfd after it,  *)
(* quit sets a flag and writes the eventfd after it: two steps each, and   *)
(* the loop may take any of its own steps in between.  The eventfd is      *)
(* edge-triggered: epoll reports it once for a write, and only if it still *)
(* holds a count.  Tasks are counted.                                      *)
(***************************************************************************)
EXTENDS Naturals

CONSTANTS
    Loops,      \* the loops, and their threads
    NoLoop      \* no loop

ASSUME EventLoopAssumption == NoLoop \notin Loops

VARIABLES
    queue,      \* pending_functors_
    batch,      \* tasks do_pending_functors has taken and not yet run
    quit,       \* quit_
    written,    \* the eventfd's count is not 0
    edge,       \* the eventfd was written since epoll last reported it
    at,         \* where the loop is: "out" of loop(), about to "check" quit_,
                \* in epoll_wait ("wait"), running callbacks ("events") or "tasks"
    ready,      \* reported events whose callbacks have not run yet
    waking      \* the loop whose eventfd a thread is about to write

loopVars == <<queue, batch, quit, written, edge, at, ready, waking>>

LoopInit ==
    /\ queue = [l \in Loops |-> 0]
    /\ batch = [l \in Loops |-> 0]
    /\ quit = [l \in Loops |-> FALSE]
    /\ written = [l \in Loops |-> FALSE]
    /\ edge = [l \in Loops |-> FALSE]
    /\ at = [l \in Loops |-> "out"]
    /\ ready = [l \in Loops |-> {}]
    /\ waking = [t \in Loops |-> NoLoop]

\* The thread is not in the middle of queue_in_loop or quit.
Free(t) == waking[t] = NoLoop

-----------------------------------------------------------------------------
(* Any thread. *)

\* Mutant: the eventfd is written only if the loop is seen asleep.
QueueInLoopIfAsleep(t, l) ==
    /\ queue' = [queue EXCEPT ![l] = @ + 1]
    /\ waking' = IF at[l] = "wait" THEN [waking EXCEPT ![t] = l] ELSE waking

\* queue_in_loop, up to the unlock.
QueueInLoop(t, l) ==
    /\ queue' = [queue EXCEPT ![l] = @ + 1]
    /\ waking' = [waking EXCEPT ![t] = l]

\* quit: only another thread has to wake the loop.
SetQuit(t, l) ==
    /\ quit' = [quit EXCEPT ![l] = TRUE]
    /\ waking' = IF t = l THEN waking ELSE [waking EXCEPT ![t] = l]

\* wakeup; a count at its maximum (EAGAIN) is not 0 either.
Wakeup(t) ==
    /\ waking[t] # NoLoop
    /\ written' = [written EXCEPT ![waking[t]] = TRUE]
    /\ edge' = [edge EXCEPT ![waking[t]] = TRUE]
    /\ waking' = [waking EXCEPT ![t] = NoLoop]
    /\ UNCHANGED <<queue, batch, quit, at, ready>>

-----------------------------------------------------------------------------
(* The owner: one round of loop(). *)

EnterLoop(l) ==
    /\ at[l] = "out"
    /\ at' = [at EXCEPT ![l] = "check"]

CheckQuit(l) ==
    /\ at[l] = "check"
    /\ at' = [at EXCEPT ![l] = IF quit[l] THEN "out" ELSE "wait"]
    /\ UNCHANGED <<queue, batch, quit, written, edge, ready, waking>>

\* epoll_wait returns what is ready: events of other descriptors, and the
\* eventfd if there is an edge and a count.
EpollWait(l, events) ==
    LET wakeup == IF edge[l] /\ written[l] THEN {"wakeup"} ELSE {}
    IN  /\ at[l] = "wait"
        /\ events \cup wakeup # {}
        /\ at' = [at EXCEPT ![l] = "events"]
        /\ ready' = [ready EXCEPT ![l] = events \cup wakeup]
        /\ edge' = [edge EXCEPT ![l] = FALSE]
        /\ UNCHANGED <<queue, batch, quit, written, waking>>

\* A callback of the list runs; the rest is skipped once quit_ is set (quitting:
\* this callback sets it).
Callback(l, event, quitting) ==
    /\ at[l] = "events"
    /\ event \in ready[l]
    /\ ready' = [ready EXCEPT ![l] = IF quit[l] \/ quitting THEN {} ELSE @ \ {event}]

\* handle_wakeup reads the eventfd until it is empty.
HandleWakeup(l) ==
    /\ Callback(l, "wakeup", FALSE)
    /\ written' = [written EXCEPT ![l] = FALSE]
    /\ UNCHANGED <<queue, batch, quit, edge, at, waking>>

\* do_pending_functors takes all tasks there are.
TakeTasks(l) ==
    /\ at[l] = "events"
    /\ ready[l] = {}
    /\ at' = [at EXCEPT ![l] = "tasks"]
    /\ batch' = [batch EXCEPT ![l] = queue[l]]
    /\ queue' = [queue EXCEPT ![l] = 0]
    /\ UNCHANGED <<quit, written, edge, ready, waking>>

\* do_pending_functors runs one of them.
RunTask(l) ==
    /\ at[l] = "tasks"
    /\ batch[l] > 0
    /\ batch' = [batch EXCEPT ![l] = @ - 1]

TasksDone(l) ==
    /\ at[l] = "tasks"
    /\ batch[l] = 0
    /\ at' = [at EXCEPT ![l] = "check"]
    /\ UNCHANGED <<queue, batch, quit, written, edge, ready, waking>>

\* The steps of a round that do nothing but go on.
LoopStep(l) ==
    /\ Free(l)
    /\ CheckQuit(l) \/ HandleWakeup(l) \/ TakeTasks(l) \/ TasksDone(l)

-----------------------------------------------------------------------------

\* No loop sleeps while there is something for it to do: a loop in epoll_wait
\* with a task queued or its quit flag set has an eventfd that epoll reports, or
\* a thread is about to write it.  (queue_in_loop and quit write the eventfd
\* after the queue or the flag; loop() empties it before it takes the tasks.)
NoLostWakeup ==
    \A l \in Loops :
        at[l] = "wait" /\ (queue[l] > 0 \/ quit[l]) =>
            (edge[l] /\ written[l]) \/ \E t \in Loops : waking[t] = l
=============================================================================
