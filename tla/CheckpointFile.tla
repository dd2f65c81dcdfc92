--------------------------- MODULE CheckpointFile ---------------------------
(***************************************************************************)
(* What the rest of the server may assume of the checkpoint file: it is    *)
(* replaced as a whole, by a newer generation only, and once the directory *)
(* is synced the loss of power cannot bring an older one back.             *)
(***************************************************************************)
EXTENDS Naturals

CONSTANTS
    MaxGeneration,  \* the largest generation (UINT64_MAX)
    MaxData         \* bound: versions of the state of the rooms

\* A checkpoint is its generation and the version of the state it holds.
\* Generation 0 stands for no file.
Checkpoints == [gen : 1 .. MaxGeneration, data : 0 .. MaxData]
NoFile == [gen |-> 0, data |-> 0]

VARIABLES
    file,       \* what open(path) finds
    safe        \* what it finds at least after a loss of power

FileInit == file = NoFile /\ safe = NoFile

Replace ==
    /\ \E cp \in Checkpoints : cp.gen > file.gen /\ file' = cp
    /\ UNCHANGED safe

Sync == safe' = file /\ UNCHANGED file

\* The directory entry on disk is the one last synced or the last renamed.
LosePower ==
    /\ \E survivor \in {file, safe} : file' = survivor /\ safe' = survivor

FileSpec == FileInit /\ [][Replace \/ Sync \/ LosePower]_<<file, safe>>
=============================================================================
