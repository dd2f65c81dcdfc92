---------------------------- MODULE Persistence ----------------------------
(***************************************************************************)
(* PersistenceService on the base thread, the writer thread of             *)
(* CheckpointStore, and the file system under them.  The state of the      *)
(* rooms is a version number, world; a checkpoint holds a version and a    *)
(* generation.  A checkpoint waits in one slot, which a newer one          *)
(* overwrites.  The process may crash at any point, and the machine may    *)
(* lose power: then file contents that were not synced are garbage, and a  *)
(* rename that was not synced may be undone.                               *)
(*                                                                         *)
(* The condition variables are waited on with a predicate under the mutex, *)
(* so a wait is the guard of the action behind it.                         *)
(***************************************************************************)
EXTENDS Naturals

CONSTANTS
    MaxGeneration,  \* the largest generation (UINT64_MAX)
    MaxData         \* bound: versions of the state of the rooms

ASSUME PersistenceAssumption ==
    /\ MaxGeneration \in Nat \ {0}
    /\ MaxData \in Nat

VARIABLES
    phase,              \* where main is: from load to the end of stop
    world,              \* version of the state of rooms and sessions
    next_generation,    \* PersistenceService::next_generation_
    submitted,          \* CheckpointStore::last_submitted_generation_
    committed,          \* CheckpointStore::last_committed_generation_
    pending,            \* pending_checkpoint_, NoFile when empty
    writer,             \* the next step of the writer thread
    current,            \* the checkpoint it writes
    stop_ok,            \* the result of stop so far
    tmp,                \* the temporary file: its content, whole or not, synced
    main,               \* the file at path_, likewise
    durable             \* the directory entry of path_ that was last synced

\* What reading a file yields; content that is not whole is no checkpoint.
Content(f) == IF f.whole THEN f.cp ELSE [gen |-> 0, data |-> MaxData + 1]

\* The file as the rest of the server sees it.
File == INSTANCE CheckpointFile WITH file <- Content(main), safe <- Content(durable)

Checkpoints == File!Checkpoints
NoFile == File!NoFile

store == <<submitted, committed, pending, writer, current>>
disk == <<tmp, main, durable>>
vars == <<phase, world, next_generation, store, stop_ok, disk>>

Phases == {"down", "loaded", "running", "flushing", "stopping", "stopped", "refused"}

\* writing_ is true in every step but "idle" and "exited".
WriterSteps == {"idle", "open", "write", "sync", "rename", "syncdir", "done", "failed", "exited"}

Files == [cp : Checkpoints \cup {NoFile}, whole : BOOLEAN, synced : BOOLEAN]

Absent == [cp |-> NoFile, whole |-> TRUE, synced |-> TRUE]

Init ==
    /\ phase = "down"
    /\ world = 0
    /\ next_generation = 1
    /\ submitted = 0
    /\ committed = 0
    /\ pending = NoFile
    /\ writer = "exited"
    /\ current = NoFile
    /\ stop_ok = FALSE
    /\ tmp = Absent
    /\ main = Absent
    /\ durable = Absent

-----------------------------------------------------------------------------
(* PersistenceService, on the base thread. *)

\* load: a file that does not decode, or holds the last generation, makes main
\* give up.  The server has the state the file holds, a fresh one without it.
Load ==
    /\ phase = "down"
    /\ IF main.whole /\ main.cp.gen # MaxGeneration
       THEN /\ phase' = "loaded"
            /\ world' = main.cp.data
            /\ next_generation' = main.cp.gen + 1
            /\ submitted' = main.cp.gen
            /\ committed' = main.cp.gen
       ELSE /\ phase' = "refused"
            /\ UNCHANGED <<world, next_generation, submitted, committed>>
    /\ pending' = NoFile
    /\ stop_ok' = FALSE
    /\ UNCHANGED <<writer, current, disk>>

\* start: the writer thread and the timer run, or main ends.
Start ==
    /\ phase = "loaded"
    /\ \/ phase' = "running" /\ writer' = "idle"
       \/ phase' = "down" /\ UNCHANGED writer
    /\ UNCHANGED <<world, next_generation, submitted, committed, pending, current, stop_ok, disk>>

\* A request, a tick or a timeout changes the rooms.
Update ==
    /\ phase = "running"
    /\ world < MaxData
    /\ world' = world + 1
    /\ UNCHANGED <<phase, next_generation, store, stop_ok, disk>>

\* CheckpointStore::submit accepts newer generations only.
CanSave == next_generation # MaxGeneration /\ next_generation > submitted

\* save_now: the current state takes the slot of the writer thread.
SaveNow ==
    /\ CanSave
    /\ pending' = [gen |-> next_generation, data |-> world]
    /\ submitted' = next_generation
    /\ next_generation' = next_generation + 1

\* handle_timer.
HandleTimer ==
    /\ phase = "running"
    /\ SaveNow
    /\ UNCHANGED <<phase, world, committed, writer, current, stop_ok, disk>>

\* stop, up to its wait in flush: the timer is stopped, the final state saved.
BeginStop ==
    /\ phase = "running"
    /\ phase' = "flushing"
    /\ \E timer_stopped \in BOOLEAN :
         \/ SaveNow /\ stop_ok' = timer_stopped
         \/ /\ ~ CanSave
            /\ stop_ok' = FALSE
            /\ UNCHANGED <<pending, submitted, next_generation>>
    /\ UNCHANGED <<world, committed, writer, current, disk>>

\* flush returns: nothing waits and nothing is being written.  Then the writer
\* thread is told to stop (stopping_).
Flush ==
    /\ phase = "flushing"
    /\ pending = NoFile
    /\ writer = "idle"
    /\ phase' = "stopping"
    /\ stop_ok' = (stop_ok /\ submitted = committed)
    /\ UNCHANGED <<world, next_generation, store, disk>>

\* CheckpointStore::stop returns: the writer thread was joined.
JoinWriter ==
    /\ phase = "stopping"
    /\ writer = "exited"
    /\ phase' = "stopped"
    /\ stop_ok' = (stop_ok /\ submitted = committed)
    /\ UNCHANGED <<world, next_generation, store, disk>>

\* main returns; the server may be started again.
Exit ==
    /\ phase = "stopped"
    /\ phase' = "down"
    /\ UNCHANGED <<world, next_generation, store, stop_ok, disk>>

-----------------------------------------------------------------------------
(* The writer thread: thread_main and, from "open" to "syncdir",            *)
(* commit_checkpoint.                                                       *)

Base == <<phase, world, next_generation, submitted, stop_ok>>

TakePending ==
    /\ writer = "idle"
    /\ pending # NoFile
    /\ current' = pending
    /\ pending' = NoFile
    /\ writer' = "open"
    /\ UNCHANGED <<Base, committed, disk>>

\* Mutant: the thread waits for a checkpoint only.
ExitWriterNever ==
    /\ writer = "idle"
    /\ phase = "stopping"
    /\ pending # NoFile
    /\ writer' = "exited"
    /\ UNCHANGED <<Base, committed, pending, current, disk>>

\* thread_main ends when stopping_ is set and the slot is empty.
ExitWriter ==
    /\ writer = "idle"
    /\ phase = "stopping"
    /\ pending = NoFile
    /\ writer' = "exited"
    /\ UNCHANGED <<Base, committed, pending, current, disk>>

\* The steps of a commit that fail unlink the temporary file.
Step(from, to) ==
    /\ writer = from
    /\ writer' = to
    /\ UNCHANGED <<Base, committed, pending, current>>

\* Mutant: the file is written in place.
OpenInPlace ==
    /\ Step("open", "write")
    /\ main' = [cp |-> current, whole |-> FALSE, synced |-> FALSE]
    /\ tmp' = main'
    /\ UNCHANGED durable

\* encode and open(O_TRUNC).
OpenTemporary ==
    \/ /\ Step("open", "write")
       /\ tmp' = [cp |-> current, whole |-> FALSE, synced |-> FALSE]
       /\ UNCHANGED <<main, durable>>
    \/ Step("open", "failed") /\ UNCHANGED disk

WriteAll ==
    \/ /\ Step("write", "sync")
       /\ tmp' = [tmp EXCEPT !.whole = TRUE]
       /\ UNCHANGED <<main, durable>>
    \/ Step("write", "failed") /\ tmp' = Absent /\ UNCHANGED <<main, durable>>

\* Mutant: the file is closed without fsync.
CloseTemporary == Step("sync", "rename") /\ UNCHANGED disk

\* fsync of the file, and close.
SyncTemporary ==
    \/ /\ Step("sync", "rename")
       /\ tmp' = [tmp EXCEPT !.synced = TRUE]
       /\ UNCHANGED <<main, durable>>
    \/ Step("sync", "failed") /\ tmp' = Absent /\ UNCHANGED <<main, durable>>

Rename ==
    \/ /\ Step("rename", "syncdir")
       /\ main' = tmp
       /\ tmp' = Absent
       /\ UNCHANGED durable
    \/ Step("rename", "failed") /\ tmp' = Absent /\ UNCHANGED <<main, durable>>

\* Mutant: the directory is not synced.
SkipDirectory == Step("syncdir", "done") /\ UNCHANGED disk

\* fsync of the directory; when it fails the new file stays in place.
SyncDirectory ==
    \/ Step("syncdir", "done") /\ durable' = main /\ UNCHANGED <<tmp, main>>
    \/ Step("syncdir", "failed") /\ UNCHANGED disk

\* Mutants: the newest submission is recorded; a failure ends the thread.
ReportSubmitted ==
    /\ writer \in {"done", "failed"}
    /\ committed' = IF writer = "done" THEN submitted ELSE committed
    /\ writer' = "idle"
    /\ UNCHANGED <<Base, pending, current, disk>>

ReportAndDie ==
    /\ writer \in {"done", "failed"}
    /\ committed' = IF writer = "done" THEN current.gen ELSE committed
    /\ writer' = IF writer = "done" THEN "idle" ELSE "exited"
    /\ UNCHANGED <<Base, pending, current, disk>>

\* The result is recorded under the mutex (last_failed_generation_ is only
\* reported).
Report ==
    /\ writer \in {"done", "failed"}
    /\ committed' = IF writer = "done" THEN current.gen ELSE committed
    /\ writer' = "idle"
    /\ UNCHANGED <<Base, pending, current, disk>>

WriterStep ==
    \/ TakePending
    \/ ExitWriter
    \/ OpenTemporary
    \/ WriteAll
    \/ SyncTemporary
    \/ Rename
    \/ SyncDirectory
    \/ Report

-----------------------------------------------------------------------------
(* Failures. *)

Down ==
    /\ phase \notin {"down", "refused"}
    /\ phase' = "down"
    /\ writer' = "exited"
    /\ pending' = NoFile
    /\ current' = NoFile
    /\ UNCHANGED <<world, next_generation, submitted, committed, stop_ok>>

\* The process is killed; the kernel keeps the files as they are.
Crash == Down /\ UNCHANGED disk

\* What a file looks like after a loss of power.
Recovered(f) == [f EXCEPT !.whole = f.whole /\ f.synced, !.synced = TRUE]

PowerLoss ==
    /\ Down
    /\ \E entry \in {main, durable} : main' = Recovered(entry) /\ durable' = main'
    /\ tmp' = Recovered(tmp)

-----------------------------------------------------------------------------

BaseStep ==
    \/ Load
    \/ Start
    \/ Update
    \/ HandleTimer
    \/ BeginStop
    \/ Flush
    \/ JoinWriter
    \/ Exit

Next == BaseStep \/ WriterStep \/ Crash \/ PowerLoss

Spec == Init /\ [][Next]_vars

\* The writer thread runs, and so does the base thread once it is in stop.
FairSpec == Spec /\ WF_vars(WriterStep) /\ WF_vars(Flush) /\ WF_vars(JoinWriter)

-----------------------------------------------------------------------------

TypeOK ==
    /\ phase \in Phases
    /\ world \in 0 .. MaxData
    /\ next_generation \in 1 .. MaxGeneration
    /\ submitted \in 0 .. MaxGeneration
    /\ committed \in 0 .. MaxGeneration
    /\ pending \in Checkpoints \cup {NoFile}
    /\ writer \in WriterSteps
    /\ current \in Checkpoints \cup {NoFile}
    /\ stop_ok \in BOOLEAN
    /\ tmp \in Files
    /\ main \in Files
    /\ durable \in Files

\* No crash, failed write or loss of power leaves a file the next start refuses:
\* what is under path_ is always a whole checkpoint, and its generation leaves
\* room for another.
AlwaysLoadable ==
    \A f \in {main, Recovered(main), durable} : f.whole /\ f.cp.gen < MaxGeneration

\* When stop reports success, the final state of the rooms is on disk and even
\* a loss of power right after the exit of the process keeps it.
StopIsDurable ==
    phase = "stopped" /\ stop_ok =>
        main.cp.data = world /\ durable.cp.data = world /\ main.synced

\* A generation this process reports as committed is on disk for good, and an
\* older one never replaces it: not when checkpoints are overwritten in the slot,
\* fail half-way or follow a restart.  (What load reads may still have to be
\* synced: the process before it died between rename and the directory's fsync.)
CommittedIsDurable ==
    /\ phase \in {"running", "flushing", "stopping", "stopped"} =>
         /\ committed <= main.cp.gen
         /\ main.cp.gen <= submitted
    /\ writer = "done" => durable.cp = current

\* The file behaves as CheckpointFile promises: no temporary or partial content
\* is ever under path_, and generations only grow, except that a loss of power
\* may undo what was not synced.
FileIsAtomic == File!FileSpec

\* Stop ends: the wait in flush and the join of the writer thread return.
StopEnds == (phase \in {"flushing", "stopping"}) ~> (phase \in {"stopped", "down"})

\* A checkpoint in the slot is taken up, by itself or through a newer one.
SlotIsServed == (pending # NoFile) ~> (pending = NoFile)
=============================================================================
