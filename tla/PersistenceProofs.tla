------------------------- MODULE PersistenceProofs -------------------------
(***************************************************************************)
(* Persistence is right for every number of generations and versions: the  *)
(* checkpoint file stays loadable, a committed generation is on disk, a    *)
(* successful stop has saved the final state, and the file behaves as      *)
(* CheckpointFile says.                                                    *)
(*                                                                         *)
(* None of this is inductive alone.  Inv adds what the threads know at     *)
(* each step: which thread may run in which phase (Threads), how far the   *)
(* temporary file has got (Progress), and the order of the generations on  *)
(* disk, in the writer's hands and in the slot (Ordered).                  *)
(***************************************************************************)
EXTENDS Persistence, TLAPS

Active == phase \in {"running", "flushing", "stopping", "stopped"}

\* The writer has a checkpoint in its hands.
Busy == writer \in {"open", "write", "sync", "rename", "syncdir", "done", "failed"}

\* A file that a start accepts, before and after a loss of power.
Good(f) == f \in Files /\ f.whole /\ f.synced /\ f.cp.gen < MaxGeneration

\* The writer thread runs only between start and stop, and the slot is empty
\* outside them.
Threads ==
    /\ phase \in {"down", "loaded", "refused", "stopped"} => writer = "exited"
    /\ phase \in {"running", "flushing"} => writer # "exited"
    /\ phase = "stopping" => ~ Busy
    /\ phase \notin {"running", "flushing"} => pending = NoFile

\* What the temporary file and the file hold at each step of a commit.
Progress ==
    /\ writer \in {"write", "sync", "rename"} => tmp.cp = current
    /\ writer \in {"sync", "rename"} => tmp.whole
    /\ writer = "rename" => tmp.synced
    /\ writer \in {"syncdir", "done"} => main.cp = current
    /\ writer = "done" => durable.cp = current

\* Generations grow from the disk through the writer to the slot.
Ordered ==
    /\ phase = "loaded" \/ Active =>
         /\ next_generation = submitted + 1
         /\ committed <= main.cp.gen
         /\ main.cp.gen <= submitted
    /\ phase = "loaded" => committed = submitted
    /\ Busy =>
         /\ current \in Checkpoints
         /\ current.gen < MaxGeneration
         /\ current.gen <= submitted
         /\ committed < current.gen
    /\ writer \in {"open", "write", "sync", "rename"} => main.cp.gen < current.gen
    /\ pending # NoFile =>
         /\ pending \in Checkpoints
         /\ pending.gen < MaxGeneration
         /\ pending.gen = submitted
         /\ main.cp.gen < pending.gen
         /\ Busy => current.gen < pending.gen

\* From the last save on, the newest checkpoint holds the final state, and once
\* its generation is committed it is on disk.
Final ==
    /\ phase \in {"flushing", "stopping", "stopped"} /\ stop_ok =>
         /\ pending # NoFile => pending.data = world
         /\ pending = NoFile =>
              /\ current.gen = submitted
              /\ current.data = world
              /\ committed = submitted => main.cp = current /\ durable.cp = current
    /\ phase \in {"stopping", "stopped"} /\ stop_ok => committed = submitted

Inv == TypeOK /\ Good(main) /\ Good(durable) /\ Threads /\ Progress /\ Ordered /\ Final

-----------------------------------------------------------------------------

\* What the sets of checkpoints and files hold: every generation of a checkpoint
\* is in range, and no checkpoint looks like the absence of a file.
LEMMA CheckpointFacts ==
    /\ \A cp \in Checkpoints : cp.gen \in 1 .. MaxGeneration /\ cp.data \in 0 .. MaxData
    /\ \A g \in 1 .. MaxGeneration, d \in 0 .. MaxData : [gen |-> g, data |-> d] \in Checkpoints
    /\ NoFile.gen = 0 /\ NoFile.data = 0
    /\ NoFile \notin Checkpoints
BY PersistenceAssumption DEF Checkpoints, NoFile, File!Checkpoints, File!NoFile

\* A file holds a checkpoint or none.
LEMMA FileFacts ==
    ASSUME NEW f \in Files
    PROVE  /\ f.cp \in Checkpoints \cup {NoFile}
           /\ f.cp.gen \in 0 .. MaxGeneration
           /\ f.cp.data \in 0 .. MaxData
           /\ f.whole \in BOOLEAN
           /\ f.synced \in BOOLEAN
BY CheckpointFacts, PersistenceAssumption DEF Files

\* A loss of power leaves a file that a start accepts as it is.
LEMMA RecoveredFacts ==
    ASSUME NEW f \in Files
    PROVE  Recovered(f) \in Files /\ (Good(f) => Recovered(f) = f)
<1>1. Recovered(f) \in Files BY DEF Recovered, Files
<1>2. ASSUME Good(f) PROVE Recovered(f) = f
  <2>1. (f.whole /\ f.synced) = f.whole /\ f.whole = TRUE /\ f.synced = TRUE
    BY <1>2, FileFacts DEF Good
  <2>2. QED BY <2>1 DEF Recovered, Files
<1>3. QED BY <1>1, <1>2

\* Init establishes the invariant.
LEMMA InitInv == Init => Inv
<1> SUFFICES ASSUME Init PROVE Inv OBVIOUS
<1> USE CheckpointFacts, PersistenceAssumption DEF Init
<1>1. Absent \in Files /\ Good(Absent) BY DEF Absent, Files, Good
<1>2. TypeOK
  <2>1. stop_ok \in BOOLEAN OBVIOUS
  <2>2. QED BY <1>1, <2>1 DEF TypeOK, Phases, WriterSteps
<1>3. Threads /\ Progress BY DEF Threads, Progress, Busy
<1>4. Ordered /\ Final BY DEF Ordered, Final, Active, Busy
<1>5. QED BY <1>1, <1>2, <1>3, <1>4 DEF Inv

\* load takes the generations from the file.
LEMMA LoadInv == Inv /\ Load => Inv'
<1> SUFFICES ASSUME Inv, Load PROVE Inv' OBVIOUS
<1> USE CheckpointFacts, FileFacts, PersistenceAssumption DEF Load, store, disk
<1>1. TypeOK'
  <2>1. stop_ok' \in BOOLEAN OBVIOUS
  <2>2. /\ main.cp.gen \in 0 .. MaxGeneration
        /\ main.cp.data \in 0 .. MaxData
        /\ main.cp.gen # MaxGeneration
    BY DEF Inv, Good
  <2>3. /\ world' \in 0 .. MaxData
        /\ next_generation' \in 1 .. MaxGeneration
        /\ submitted' \in 0 .. MaxGeneration
        /\ committed' \in 0 .. MaxGeneration
    BY <2>2 DEF Inv, TypeOK
  <2>4. QED BY <2>1, <2>3 DEF Inv, TypeOK, Phases
<1>2. Good(main)' /\ Good(durable)' BY DEF Inv, Good
<1>3. Threads' BY DEF Inv, Threads, Busy
<1>4. Progress' BY DEF Inv, Progress, Threads
<1>5. Ordered' BY DEF Inv, TypeOK, Ordered, Progress, Threads, Active, Busy
<1>6. Final' BY DEF Inv, TypeOK, Final, Ordered, Progress, Threads, Active, Busy
<1>7. QED BY <1>1, <1>2, <1>3, <1>4, <1>5, <1>6 DEF Inv

\* start begins with an empty slot and an idle writer.
LEMMA StartInv == Inv /\ Start => Inv'
<1> SUFFICES ASSUME Inv, Start PROVE Inv' OBVIOUS
<1> USE CheckpointFacts, FileFacts, PersistenceAssumption DEF Start, store, disk
<1>1. TypeOK' BY DEF Inv, TypeOK, Files, Phases, WriterSteps
<1>2. Good(main)' /\ Good(durable)' BY DEF Inv, Good
<1>3. Threads' BY DEF Inv, Threads, Busy
<1>4. Progress' BY DEF Inv, Progress, Threads
<1>5. Ordered' BY DEF Inv, TypeOK, Ordered, Progress, Threads, Active, Busy
<1>6. Final' BY DEF Inv, TypeOK, Final, Ordered, Progress, Threads, Active, Busy
<1>7. QED BY <1>1, <1>2, <1>3, <1>4, <1>5, <1>6 DEF Inv

\* A change of the rooms comes before the last save only.
LEMMA UpdateInv == Inv /\ Update => Inv'
<1> SUFFICES ASSUME Inv, Update PROVE Inv' OBVIOUS
<1> USE CheckpointFacts, FileFacts, PersistenceAssumption DEF Update, store, disk
<1>1. TypeOK' BY DEF Inv, TypeOK, Files, Phases, WriterSteps
<1>2. Good(main)' /\ Good(durable)' BY DEF Inv, Good
<1>3. Threads' BY DEF Inv, Threads, Busy
<1>4. Progress' BY DEF Inv, Progress
<1>5. Ordered' BY DEF Inv, TypeOK, Ordered, Progress, Threads, Active, Busy
<1>6. Final' BY DEF Inv, TypeOK, Final, Ordered, Progress, Threads, Active, Busy
<1>7. QED BY <1>1, <1>2, <1>3, <1>4, <1>5, <1>6 DEF Inv

\* A periodic save takes a generation above all others into the slot.
LEMMA HandleTimerInv == Inv /\ HandleTimer => Inv'
<1> SUFFICES ASSUME Inv, HandleTimer PROVE Inv' OBVIOUS
<1> USE CheckpointFacts, FileFacts, PersistenceAssumption DEF HandleTimer, SaveNow, CanSave, store, disk
<1>1. TypeOK' BY DEF Inv, TypeOK, Files, Phases, WriterSteps
<1>2. Good(main)' /\ Good(durable)' BY DEF Inv, Good
<1>3. Threads' BY DEF Inv, Threads, Busy
<1>4. Progress' BY DEF Inv, Progress
<1>5. Ordered' BY DEF Inv, TypeOK, Ordered, Progress, Threads, Active, Busy
<1>6. Final' BY DEF Inv, TypeOK, Final, Ordered, Progress, Threads, Active, Busy
<1>7. QED BY <1>1, <1>2, <1>3, <1>4, <1>5, <1>6 DEF Inv

\* The save of stop is the newest checkpoint and holds the final state.
LEMMA BeginStopInv == Inv /\ BeginStop => Inv'
<1> SUFFICES ASSUME Inv, BeginStop PROVE Inv' OBVIOUS
<1> USE CheckpointFacts, FileFacts, PersistenceAssumption DEF BeginStop, SaveNow, CanSave, store, disk
<1>1. TypeOK'
  <2>1. stop_ok' \in BOOLEAN OBVIOUS
  <2>2. submitted' \in 0 .. MaxGeneration /\ next_generation' \in 1 .. MaxGeneration
    BY DEF Inv, TypeOK
  <2>3. pending' \in Checkpoints \cup {NoFile}
    BY DEF Inv, TypeOK
  <2>4. QED BY <2>1, <2>2, <2>3 DEF Inv, TypeOK, Phases
<1>2. Good(main)' /\ Good(durable)' BY DEF Inv, Good
<1>3. Threads' BY DEF Inv, Threads, Busy
<1>4. Progress' BY DEF Inv, Progress
<1>5. Ordered' BY DEF Inv, TypeOK, Ordered, Progress, Threads, Active, Busy
<1>6. Final' BY DEF Inv, TypeOK, Final, Ordered, Progress, Threads, Active, Busy
<1>7. QED BY <1>1, <1>2, <1>3, <1>4, <1>5, <1>6 DEF Inv

\* flush returns true only if the newest generation is committed.
LEMMA FlushInv == Inv /\ Flush => Inv'
<1> SUFFICES ASSUME Inv, Flush PROVE Inv' OBVIOUS
<1> USE CheckpointFacts, FileFacts, PersistenceAssumption DEF Flush, store, disk
<1>1. TypeOK' BY DEF Inv, TypeOK, Files, Phases, WriterSteps
<1>2. Good(main)' /\ Good(durable)' BY DEF Inv, Good
<1>3. Threads' BY DEF Inv, Threads, Busy
<1>4. Progress' BY DEF Inv, Progress
<1>5. Ordered' BY DEF Inv, TypeOK, Ordered, Progress, Threads, Active, Busy
<1>6. Final' BY DEF Inv, TypeOK, Final, Ordered, Progress, Threads, Active, Busy
<1>7. QED BY <1>1, <1>2, <1>3, <1>4, <1>5, <1>6 DEF Inv

\* The end of stop changes nothing that is saved.
LEMMA JoinWriterInv == Inv /\ JoinWriter => Inv'
<1> SUFFICES ASSUME Inv, JoinWriter PROVE Inv' OBVIOUS
<1> USE CheckpointFacts, FileFacts, PersistenceAssumption DEF JoinWriter, store, disk
<1>1. TypeOK' BY DEF Inv, TypeOK, Files, Phases, WriterSteps
<1>2. Good(main)' /\ Good(durable)' BY DEF Inv, Good
<1>3. Threads' BY DEF Inv, Threads, Busy
<1>4. Progress' BY DEF Inv, Progress
<1>5. Ordered' BY DEF Inv, TypeOK, Ordered, Progress, Threads, Active, Busy
<1>6. Final' BY DEF Inv, TypeOK, Final, Ordered, Progress, Threads, Active, Busy
<1>7. QED BY <1>1, <1>2, <1>3, <1>4, <1>5, <1>6 DEF Inv

\* At the end of main the writer is gone.
LEMMA ExitInv == Inv /\ Exit => Inv'
<1> SUFFICES ASSUME Inv, Exit PROVE Inv' OBVIOUS
<1> USE CheckpointFacts, FileFacts, PersistenceAssumption DEF Exit, store, disk
<1>1. TypeOK' BY DEF Inv, TypeOK, Files, Phases, WriterSteps
<1>2. Good(main)' /\ Good(durable)' BY DEF Inv, Good
<1>3. Threads' BY DEF Inv, Threads, Busy
<1>4. Progress' BY DEF Inv, Progress
<1>5. Ordered' BY DEF Inv, TypeOK, Ordered, Progress, Threads, Active, Busy
<1>6. Final' BY DEF Inv, TypeOK, Final, Ordered, Progress, Threads, Active, Busy
<1>7. QED BY <1>1, <1>2, <1>3, <1>4, <1>5, <1>6 DEF Inv

\* The checkpoint of the slot becomes the one being written.
LEMMA TakePendingInv == Inv /\ TakePending => Inv'
<1> SUFFICES ASSUME Inv, TakePending PROVE Inv' OBVIOUS
<1> USE CheckpointFacts, FileFacts, PersistenceAssumption DEF TakePending, Base, store, disk
<1>1. TypeOK' BY DEF Inv, TypeOK, Files, Phases, WriterSteps
<1>2. Good(main)' /\ Good(durable)' BY DEF Inv, Good
<1>3. Threads' BY DEF Inv, Threads, Busy
<1>4. Progress' BY DEF Inv, Progress, Threads
<1>5. Ordered' BY DEF Inv, TypeOK, Ordered, Progress, Threads, Active, Busy
<1>6. Final' BY DEF Inv, TypeOK, Final, Ordered, Progress, Threads, Active, Busy
<1>7. QED BY <1>1, <1>2, <1>3, <1>4, <1>5, <1>6 DEF Inv

\* The writer ends with an empty slot.
LEMMA ExitWriterInv == Inv /\ ExitWriter => Inv'
<1> SUFFICES ASSUME Inv, ExitWriter PROVE Inv' OBVIOUS
<1> USE CheckpointFacts, FileFacts, PersistenceAssumption DEF ExitWriter, Base, store, disk
<1>1. TypeOK' BY DEF Inv, TypeOK, Files, Phases, WriterSteps
<1>2. Good(main)' /\ Good(durable)' BY DEF Inv, Good
<1>3. Threads' BY DEF Inv, Threads, Busy
<1>4. Progress' BY DEF Inv, Progress
<1>5. Ordered' BY DEF Inv, TypeOK, Ordered, Progress, Threads, Active, Busy
<1>6. Final' BY DEF Inv, TypeOK, Final, Ordered, Progress, Threads, Active, Busy
<1>7. QED BY <1>1, <1>2, <1>3, <1>4, <1>5, <1>6 DEF Inv

\* The temporary file is opened for the current checkpoint.
LEMMA OpenTemporaryInv == Inv /\ OpenTemporary => Inv'
<1> SUFFICES ASSUME Inv, OpenTemporary PROVE Inv' OBVIOUS
<1> USE CheckpointFacts, FileFacts, PersistenceAssumption DEF OpenTemporary, Step, Base, store, disk
<1>1. TypeOK' BY DEF Inv, TypeOK, Files, Phases, WriterSteps
<1>2. Good(main)' /\ Good(durable)' BY DEF Inv, Good
<1>3. Threads' BY DEF Inv, Threads, Busy
<1>4. Progress' BY DEF Inv, Progress, TypeOK, Files
<1>5. Ordered' BY DEF Inv, TypeOK, Ordered, Progress, Threads, Active, Busy
<1>6. Final' BY DEF Inv, TypeOK, Final, Ordered, Progress, Threads, Active, Busy
<1>7. QED BY <1>1, <1>2, <1>3, <1>4, <1>5, <1>6 DEF Inv

\* A written temporary file is whole.
LEMMA WriteAllInv == Inv /\ WriteAll => Inv'
<1> SUFFICES ASSUME Inv, WriteAll PROVE Inv' OBVIOUS
<1> USE CheckpointFacts, FileFacts, PersistenceAssumption DEF WriteAll, Step, Base, Absent, store, disk
<1>1. TypeOK' BY DEF Inv, TypeOK, Files, Phases, WriterSteps
<1>2. Good(main)' /\ Good(durable)' BY DEF Inv, Good
<1>3. Threads' BY DEF Inv, Threads, Busy
<1>4. Progress' BY DEF Inv, Progress, TypeOK, Files
<1>5. Ordered' BY DEF Inv, TypeOK, Ordered, Progress, Threads, Active, Busy
<1>6. Final' BY DEF Inv, TypeOK, Final, Ordered, Progress, Threads, Active, Busy
<1>7. QED BY <1>1, <1>2, <1>3, <1>4, <1>5, <1>6 DEF Inv

\* A synced one survives a loss of power.
LEMMA SyncTemporaryInv == Inv /\ SyncTemporary => Inv'
<1> SUFFICES ASSUME Inv, SyncTemporary PROVE Inv' OBVIOUS
<1> USE CheckpointFacts, FileFacts, PersistenceAssumption DEF SyncTemporary, Step, Base, Absent, store, disk
<1>1. TypeOK' BY DEF Inv, TypeOK, Files, Phases, WriterSteps
<1>2. Good(main)' /\ Good(durable)' BY DEF Inv, Good
<1>3. Threads' BY DEF Inv, Threads, Busy
<1>4. Progress' BY DEF Inv, Progress, TypeOK, Files
<1>5. Ordered' BY DEF Inv, TypeOK, Ordered, Progress, Threads, Active, Busy
<1>6. Final' BY DEF Inv, TypeOK, Final, Ordered, Progress, Threads, Active, Busy
<1>7. QED BY <1>1, <1>2, <1>3, <1>4, <1>5, <1>6 DEF Inv

\* What is renamed is whole, synced and newer than the file.
LEMMA RenameInv == Inv /\ Rename => Inv'
<1> SUFFICES ASSUME Inv, Rename PROVE Inv' OBVIOUS
<1> USE CheckpointFacts, FileFacts, PersistenceAssumption DEF Rename, Step, Base, Absent, store, disk
<1>1. TypeOK' BY DEF Inv, TypeOK, Files, Phases, WriterSteps
<1>2. Good(main)' /\ Good(durable)' BY DEF Inv, TypeOK, Good, Progress, Ordered, Busy
<1>3. Threads' BY DEF Inv, Threads, Busy
<1>4. Progress' BY DEF Inv, Progress, TypeOK, Files
<1>5. Ordered' BY DEF Inv, TypeOK, Ordered, Progress, Threads, Active, Busy
<1>6. Final' BY DEF Inv, TypeOK, Final, Ordered, Progress, Threads, Active, Busy
<1>7. QED BY <1>1, <1>2, <1>3, <1>4, <1>5, <1>6 DEF Inv

\* The synced directory holds the current checkpoint.
LEMMA SyncDirectoryInv == Inv /\ SyncDirectory => Inv'
<1> SUFFICES ASSUME Inv, SyncDirectory PROVE Inv' OBVIOUS
<1> USE CheckpointFacts, FileFacts, PersistenceAssumption DEF SyncDirectory, Step, Base, store, disk
<1>1. TypeOK' BY DEF Inv, TypeOK, Files, Phases, WriterSteps
<1>2. Good(main)' /\ Good(durable)' BY DEF Inv, Good
<1>3. Threads' BY DEF Inv, Threads, Busy
<1>4. Progress' BY DEF Inv, Progress
<1>5. Ordered' BY DEF Inv, TypeOK, Ordered, Progress, Threads, Active, Busy
<1>6. Final' BY DEF Inv, TypeOK, Final, Ordered, Progress, Threads, Active, Busy
<1>7. QED BY <1>1, <1>2, <1>3, <1>4, <1>5, <1>6 DEF Inv

\* Only a checkpoint on disk is recorded as committed.
LEMMA ReportInv == Inv /\ Report => Inv'
<1> SUFFICES ASSUME Inv, Report PROVE Inv' OBVIOUS
<1> USE CheckpointFacts, FileFacts, PersistenceAssumption DEF Report, Base, store, disk
<1>1. TypeOK' BY DEF Inv, TypeOK, Files, Phases, WriterSteps
<1>2. Good(main)' /\ Good(durable)' BY DEF Inv, Good
<1>3. Threads' BY DEF Inv, Threads, Busy
<1>4. Progress' BY DEF Inv, Progress
<1>5. Ordered' BY DEF Inv, TypeOK, Ordered, Progress, Threads, Active, Busy
<1>6. Final' BY DEF Inv, TypeOK, Final, Ordered, Progress, Threads, Active, Busy
<1>7. QED BY <1>1, <1>2, <1>3, <1>4, <1>5, <1>6 DEF Inv

\* A crash keeps the files.
LEMMA CrashInv == Inv /\ Crash => Inv'
<1> SUFFICES ASSUME Inv, Crash PROVE Inv' OBVIOUS
<1> USE CheckpointFacts, FileFacts, PersistenceAssumption DEF Crash, Down, store, disk
<1>1. TypeOK' BY DEF Inv, TypeOK, Files, Phases, WriterSteps
<1>2. Good(main)' /\ Good(durable)' BY DEF Inv, Good
<1>3. Threads' BY DEF Inv, Threads, Busy
<1>4. Progress' BY DEF Inv, Progress
<1>5. Ordered' BY DEF Inv, TypeOK, Ordered, Progress, Threads, Active, Busy
<1>6. Final' BY DEF Inv, TypeOK, Final, Ordered, Progress, Threads, Active, Busy
<1>7. QED BY <1>1, <1>2, <1>3, <1>4, <1>5, <1>6 DEF Inv

\* A loss of power keeps one of two good files.
LEMMA PowerLossInv == Inv /\ PowerLoss => Inv'
<1> SUFFICES ASSUME Inv, PowerLoss PROVE Inv' OBVIOUS
<1> USE CheckpointFacts, FileFacts, PersistenceAssumption DEF PowerLoss, Down, Recovered, store, disk
<1>1. TypeOK' BY ZenonT(60) DEF Inv, TypeOK, Files, Phases, WriterSteps
<1>2. Good(main)' /\ Good(durable)'
  <2>1. PICK entry \in {main, durable} : main' = Recovered(entry) /\ durable' = main'
    OBVIOUS
  <2>2. Good(entry) /\ main' = entry /\ durable' = entry
    BY <2>1, RecoveredFacts DEF Inv, TypeOK
  <2>3. QED BY <2>2 DEF Good
<1>3. Threads' BY DEF Inv, Threads, Busy
<1>4. Progress' BY DEF Inv, Progress
<1>5. Ordered' BY DEF Inv, TypeOK, Ordered, Progress, Threads, Active, Busy
<1>6. Final' BY DEF Inv, TypeOK, Final, Ordered, Progress, Threads, Active, Busy
<1>7. QED BY <1>1, <1>2, <1>3, <1>4, <1>5, <1>6 DEF Inv

-----------------------------------------------------------------------------

\* Every step of the base thread, of the writer and of the world keeps the invariant.
LEMMA NextInv == Inv /\ [Next]_vars => Inv'
<1> SUFFICES ASSUME Inv, [Next]_vars PROVE Inv' OBVIOUS
<1>1. CASE BaseStep
  BY <1>1, LoadInv, StartInv, UpdateInv, HandleTimerInv, BeginStopInv, FlushInv,
     JoinWriterInv, ExitInv DEF BaseStep
<1>2. CASE WriterStep
  BY <1>2, TakePendingInv, ExitWriterInv, OpenTemporaryInv, WriteAllInv, SyncTemporaryInv,
     RenameInv, SyncDirectoryInv, ReportInv DEF WriterStep
<1>3. CASE Crash \/ PowerLoss BY <1>3, CrashInv, PowerLossInv
<1>4. CASE UNCHANGED vars
  BY <1>4 DEF vars, store, disk, Inv, TypeOK, Good, Threads, Progress, Ordered, Final, Active, Busy
<1>5. QED BY <1>1, <1>2, <1>3, <1>4 DEF Next

\* The inductive invariant of persistence_service.cpp and checkpoint_store.cpp
\* holds in every reachable state.
THEOREM Invariance == Spec => []Inv
BY InitInv, NextInv, PTL DEF Spec

\* Whatever fails or crashes, the file under path_ is one CheckpointStore::load
\* accepts, also after a loss of power.
THEOREM FileStaysLoadable == Spec => []AlwaysLoadable
<1>1. Inv => AlwaysLoadable
  <2> SUFFICES ASSUME Inv PROVE AlwaysLoadable OBVIOUS
  <2>1. Recovered(main) = main BY RecoveredFacts DEF Inv, TypeOK
  <2>2. QED BY <2>1 DEF Inv, Good, AlwaysLoadable
<1>2. QED BY <1>1, Invariance, PTL

\* A successful PersistenceService::stop has saved the final state for good.
THEOREM StopAlwaysDurable == Spec => []StopIsDurable
<1>1. Inv => StopIsDurable
  BY DEF Inv, Good, Threads, Final, StopIsDurable
<1>2. QED BY <1>1, Invariance, PTL

\* What CheckpointStore reports as committed is on disk and not replaced by older.
THEOREM CommittedAlwaysDurable == Spec => []CommittedIsDurable
<1>1. Inv => CommittedIsDurable
  BY DEF Inv, Ordered, Progress, Active, CommittedIsDurable
<1>2. QED BY <1>1, Invariance, PTL

\* commit_checkpoint and the failures around it replace the file as CheckpointFile
\* promises: as a whole, by newer generations, and undone by a loss of power only.
THEOREM FileAlwaysAtomic == Spec => FileIsAtomic
<1>1. Init => File!FileInit
  BY DEF Init, Absent, Content, File!FileInit, NoFile
<1>2. Inv /\ Inv' /\ [Next]_vars =>
        [File!Replace \/ File!Sync \/ File!LosePower]_<<Content(main), Content(durable)>>
  <2> SUFFICES ASSUME Inv, Inv', [Next]_vars
               PROVE  [File!Replace \/ File!Sync \/ File!LosePower]_<<Content(main), Content(durable)>>
    OBVIOUS
  <2>1. /\ Content(main) = main.cp /\ Content(durable) = durable.cp
        /\ Content(main)' = main'.cp /\ Content(durable)' = durable'.cp
    BY DEF Inv, Good, Content
  <2>2. CASE Rename
    BY <2>1, <2>2 DEF Rename, Step, Inv, Progress, Ordered, Busy, File!Replace, Checkpoints
  <2>3. CASE SyncDirectory
    BY <2>1, <2>3 DEF SyncDirectory, Step, disk, File!Sync
  <2>4. CASE PowerLoss
    <3>1. PICK entry \in {main, durable} : main' = Recovered(entry) /\ durable' = main'
      BY <2>4 DEF PowerLoss
    <3>2. main' = entry /\ durable' = entry
      BY <3>1, RecoveredFacts DEF Inv, TypeOK
    <3>3. QED BY <2>1, <3>2 DEF File!LosePower
  <2>5. CASE UNCHANGED <<main, durable>> BY <2>5 DEF Content
  <2>6. QED
    <3>1. BaseStep \/ Crash \/ UNCHANGED vars => UNCHANGED <<main, durable>>
      BY DEF BaseStep, Load, Start, Update, HandleTimer, BeginStop, Flush, JoinWriter, Exit,
             Crash, vars, disk
    <3>2. WriterStep => Rename \/ SyncDirectory \/ UNCHANGED <<main, durable>>
      BY DEF WriterStep, TakePending, ExitWriter, OpenTemporary, WriteAll, SyncTemporary,
             Report, disk
    <3>3. QED BY <2>2, <2>3, <2>4, <2>5, <3>1, <3>2 DEF Next
<1>3. QED BY <1>1, <1>2, Invariance, PTL DEF Spec, FileIsAtomic, File!FileSpec
=============================================================================
