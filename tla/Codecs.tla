------------------------------- MODULE Codecs -------------------------------
(***************************************************************************)
(* What the codecs are exposed to, each on a bench of its own: the stream, *)
(* the requests and the replies of Wire, and the bytes of a checkpoint     *)
(* file that storage may damage.                                           *)
(***************************************************************************)
EXTENDS Wire, CheckpointCodec

CONSTANT Checkpoints    \* the checkpoints that are saved

VARIABLE file       \* the checkpoint saved, its bytes, and what became of them

vars == <<wireVars, file>>

\* ServerCheckpoint, RoomCheckpoint and SessionCheckpoint.
RoomType ==
    [room_id : 0 .. Max32, capacity : 0 .. Max64, next_player_id : 0 .. Max64,
     state : {"waiting", "running", "finished"}, tick_id : 0 .. Max64,
     members : MemberList, game_states : StateList]
SessionType == [token : Seq(Byte), room_id : 0 .. Max32, player_id : 0 .. Max64]
CheckpointType ==
    [generation : 0 .. Max64, rooms : Seq(RoomType), sessions : Seq(SessionType)]

ASSUME CodecsAssumption == Checkpoints \subseteq CheckpointType

NoFile == [damage |-> "unwritten"]

Init == WireInit /\ file = NoFile

Talk == WireNext /\ UNCHANGED file

\* The writer thread encodes a checkpoint; a refused one leaves no file.
SaveFile(cp) ==
    /\ bench = "file"
    /\ file = NoFile
    /\ LET encoded == EncodeCheckpoint(cp) IN
         file' = IF encoded.state = "success"
                 THEN [damage |-> "none", checkpoint |-> cp, data |-> encoded.data]
                 ELSE [damage |-> "refused", checkpoint |-> cp]
    /\ UNCHANGED wireVars

\* Storage changes one byte of the file, cuts it short or lengthens it.
ChangeByte(i, byte) ==
    /\ bench = "file"
    /\ file.damage = "none"
    /\ i \in DOMAIN file.data /\ file.data[i] # byte
    /\ file' = [file EXCEPT !.damage = "byte", !.data[i] = byte]
    /\ UNCHANGED wireVars

CutShort(n) ==
    /\ bench = "file"
    /\ file.damage = "none"
    /\ n < Len(file.data)
    /\ file' = [file EXCEPT !.damage = "length", !.data = SubSeq(@, 1, n)]
    /\ UNCHANGED wireVars

Lengthen(byte) ==
    /\ bench = "file"
    /\ file.damage = "none"
    /\ file' = [file EXCEPT !.damage = "length", !.data = Append(@, byte)]
    /\ UNCHANGED wireVars

Next ==
    \/ Talk
    \/ \E cp \in Checkpoints : SaveFile(cp)
    \/ \E i \in 1 .. MaxFile, byte \in Byte : ChangeByte(i, byte)
    \/ \E n \in 0 .. MaxFile : CutShort(n)
    \/ \E byte \in Byte : Lengthen(byte)

Spec == Init /\ [][Next]_vars

\* What was written, and what a reader makes of what is left of it.
Written == EncodeCheckpoint(file.checkpoint).data
Decoded == DecodeCheckpoint(file.data)

\* The bytes of the header that state the generation and the two counts.
UncheckedBytes == Len(Magic) + W32 + 1 .. Len(Magic) + W32 + W64 + W32 + W32

\* The file is read back as it was written.
ReadsBack ==
    file.damage = "none" => Decoded = [state |-> "success", checkpoint |-> file.checkpoint]

\* A file that is read has every byte it was written with, those of the
\* generation and of the counts aside.
DamageIsRefused ==
    LET written == Written IN
    file.damage \in {"none", "length", "byte"} /\ Decoded.state = "success" =>
      /\ Len(file.data) = Len(written)
      /\ \A i \in DOMAIN file.data \ UncheckedBytes : file.data[i] = written[i]

\* With another byte a file is read as the checkpoint saved, or with another
\* generation.
RecordsAreKept ==
    LET decoded == Decoded IN
    file.damage = "byte" /\ decoded.state = "success" =>
      decoded.checkpoint =
        [file.checkpoint EXCEPT !.generation = decoded.checkpoint.generation]

(***************************************************************************)
(* A checkpoint file is read back as it was written.  One damaged byte, in *)
(* the header or in the payload, never makes other rooms or sessions out   *)
(* of it: the file is refused, or the generation alone has changed, which  *)
(* the checksum does not cover.  A file cut short or lengthened is refused *)
(* (checkpoint_codec.cpp:174, 389, 485).                                   *)
(***************************************************************************)
DamageIsDetected == ReadsBack /\ DamageIsRefused /\ RecordsAreKept
=============================================================================
