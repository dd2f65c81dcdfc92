-------------------------- MODULE CheckpointCodec --------------------------
(***************************************************************************)
(* CheckpointCodec (src/checkpoint_codec.cpp): a checkpoint becomes the    *)
(* bytes of the checkpoint file and the bytes a checkpoint again.  The     *)
(* header states the counts and the size and the checksum of the payload.  *)
(***************************************************************************)
EXTENDS Bytes

CONSTANTS
    Magic,          \* CHECKPOINT_MAGIC, as bytes
    Version,        \* CHECKPOINT_VERSION
    FnvBasis,       \* FNV_OFFSET_BASIS
    FnvPrime,       \* FNV_PRIME
    TokenSize,      \* SESSION_TOKEN_SIZE
    HexBytes,       \* the lower case hexadecimal digits, as bytes
    MaxFile,        \* MAX_CHECKPOINT_FILE_SIZE
    ExclusiveOr     \* the exclusive or of a hash and a byte, bit by bit

ASSUME CheckpointAssumption ==
    /\ Magic \in Seq(Byte)
    /\ Version \in 0 .. Max32
    /\ TokenSize \in 0 .. Max32
    /\ HexBytes \subseteq Byte
    /\ MaxFile \in 0 .. Max64
    /\ Base > 2     \* a byte holds the state of a room

\* An odd prime has an inverse among the integers of 64 bits.  Applied twice,
\* an exclusive or gives back what it was applied to.
ASSUME ChecksumAssumption ==
    /\ FnvBasis \in 0 .. Max64 /\ FnvPrime \in 0 .. Max64
    /\ \E inverse \in 0 .. Max64 : (FnvPrime * inverse) % (Max64 + 1) = 1
    /\ ExclusiveOr \in [0 .. Max64 -> [Byte -> 0 .. Max64]]
    /\ \A hash \in 0 .. Max64, byte \in Byte :
         /\ ExclusiveOr[ExclusiveOr[hash][byte]][byte] = hash
         /\ \A other \in Byte : ExclusiveOr[hash][other] = ExclusiveOr[hash][byte] => other = byte

HeaderSize == Len(Magic) + W32 + W64 + W32 + W32 + W64 + W64
MinRoomSize == W32 + W64 + W64 + 1 + W64 + W32 + W32
MinMemberSize == W64 + W32
GameStateSize == W64 + 3 * W32
MinSessionSize == W32 + W32 + W64

States == <<"waiting", "running", "finished">>

ValidToken(token) ==
    Len(token) = TokenSize /\ \A i \in DOMAIN token : token[i] \in HexBytes

\* valid_checkpoint_keys: no room, token or seat occurs twice.
ValidKeys(cp) ==
    /\ \A i, j \in DOMAIN cp.rooms :
         cp.rooms[i].room_id = cp.rooms[j].room_id => i = j
    /\ \A i, j \in DOMAIN cp.sessions :
         /\ ValidToken(cp.sessions[i].token)
         /\ \/ cp.sessions[i].token = cp.sessions[j].token
            \/ /\ cp.sessions[i].room_id = cp.sessions[j].room_id
               /\ cp.sessions[i].player_id = cp.sessions[j].player_id
            => i = j

\* Mutant: the loop stops one byte early.
ChecksumShort(bytes) ==
    Fold(LAMBDA hash, byte : (ExclusiveOr[hash][byte] * FnvPrime) % (Max64 + 1),
             FnvBasis, IF bytes = <<>> THEN bytes ELSE Front(bytes))

\* FNV-1a over the bytes of the payload.
Checksum(bytes) ==
    Fold(LAMBDA hash, byte : (ExclusiveOr[hash][byte] * FnvPrime) % (Max64 + 1),
             FnvBasis, bytes)

(* Encoding. *)
Records(seq, Record(_)) == Concat([i \in DOMAIN seq |-> Record(seq[i])])

EncodedMember(m) ==
    Bytes(m.player_id, W64) \o Bytes(Len(m.player_name), W32) \o m.player_name

EncodedGameState(g) ==
    Bytes(g.player_id, W64) \o Bytes(ToBits(g.x), W32) \o Bytes(ToBits(g.y), W32)
        \o Bytes(ToBits(g.hp), W32)

EncodedRoom(r) ==
    Bytes(r.room_id, W32) \o Bytes(r.capacity, W64) \o Bytes(r.next_player_id, W64)
        \o <<(CHOOSE i \in DOMAIN States : States[i] = r.state) - 1>>
        \o Bytes(r.tick_id, W64)
        \o Bytes(Len(r.members), W32) \o Records(r.members, EncodedMember)
        \o Bytes(Len(r.game_states), W32) \o Records(r.game_states, EncodedGameState)

EncodedSession(s) ==
    Bytes(Len(s.token), W32) \o s.token \o Bytes(s.room_id, W32) \o Bytes(s.player_id, W64)

\* Within a room, too, every count and every size is written as a uint32_t.
RoomFitsU32(r) ==
    /\ Len(r.members) <= Max32 /\ Len(r.game_states) <= Max32
    /\ \A i \in DOMAIN r.members : Len(r.members[i].player_name) <= Max32

EncodeCheckpoint(cp) ==
    LET payload == Records(cp.rooms, EncodedRoom) \o Records(cp.sessions, EncodedSession)
        data == Magic \o Bytes(Version, W32) \o Bytes(cp.generation, W64)
                  \o Bytes(Len(cp.rooms), W32) \o Bytes(Len(cp.sessions), W32)
                  \o Bytes(Len(payload), W64) \o Bytes(Checksum(payload), W64) \o payload
    IN  IF cp.generation = 0
        THEN [state |-> "invalid_checkpoint"]
        ELSE IF Len(cp.rooms) > Max32 \/ Len(cp.sessions) > Max32
        THEN [state |-> "too_large"]
        ELSE IF ~ValidKeys(cp)
        THEN [state |-> "invalid_checkpoint"]
        ELSE IF \/ \E i \in DOMAIN cp.rooms : ~RoomFitsU32(cp.rooms[i])
                \/ Len(data) > MaxFile
        THEN [state |-> "too_large"]
        ELSE [state |-> "success", data |-> data]

(***************************************************************************)
(* Decoding.  A reader is its position, the records read so far and        *)
(* whether a read failed; after a failure nothing more is read.            *)
(***************************************************************************)
Reader(position) == [ok |-> TRUE, position |-> position, records |-> <<>>]
Failed(reader) == [reader EXCEPT !.ok = FALSE]
Remaining(data, reader) == Len(data) - reader.position

\* Fixed-width fields in a row, each after the widths before it.
Fixed(data, position, widths) ==
    LET Before(i) == Fold(LAMBDA sum, width : sum + width, 0, SubSeq(widths, 1, i - 1))
    IN  [i \in DOMAIN widths |-> Field(data, position + Before(i), widths[i])]

\* count records in a row, each read by ReadRecord.
Repeat(count, ReadRecord(_), reader) ==
    Fold(LAMBDA r, i : IF r.ok THEN ReadRecord(r) ELSE r, reader, [i \in 1 .. count |-> i])

ReadMember(data, reader) ==
    LET field == Fixed(data, reader.position, <<W64, W32>>)
        start == reader.position + MinMemberSize
    IN  IF Remaining(data, reader) < MinMemberSize \/ Len(data) - start < field[2]
        THEN Failed(reader)
        ELSE [reader EXCEPT
                !.position = start + field[2],
                !.records = Append(@, [player_id |-> field[1],
                                       player_name |-> SubSeq(data, start + 1, start + field[2])])]

ReadGameState(data, reader) ==
    LET field == Fixed(data, reader.position, <<W64, W32, W32, W32>>)
    IN  IF Remaining(data, reader) < GameStateSize
        THEN Failed(reader)
        ELSE [reader EXCEPT
                !.position = @ + GameStateSize,
                !.records = Append(@, [player_id |-> field[1], x |-> FromBits(field[2]),
                                       y |-> FromBits(field[3]), hp |-> FromBits(field[4])])]

\* The states of the players, after the members: their count and then they.
ReadGameStates(data, members) ==
    LET count == Field(data, members.position, W32)
        start == Reader(members.position + W32)
        ReadOne(r) == ReadGameState(data, r)
    IN  IF \/ ~members.ok
           \/ Remaining(data, members) < W32
           \/ count > Remaining(data, start) \div GameStateSize
        THEN Failed(start)
        ELSE Repeat(count, ReadOne, start)

\* The fields of a room, the members and the states have been read.
AddRoom(reader, field, members, states) ==
    IF ~states.ok
    THEN Failed(reader)
    ELSE [reader EXCEPT
            !.position = states.position,
            !.records = Append(@,
                [room_id |-> field[1], capacity |-> field[2],
                 next_player_id |-> field[3], state |-> States[field[4] + 1],
                 tick_id |-> field[5], members |-> members.records,
                 game_states |-> states.records])]

ReadRoom(data, reader) ==
    LET field == Fixed(data, reader.position, <<W32, W64, W64, 1, W64, W32>>)
        start == Reader(reader.position + MinRoomSize - W32)
        ReadOne(r) == ReadMember(data, r)
        members == Repeat(field[6], ReadOne, start)
    IN  IF \/ Remaining(data, reader) < MinRoomSize     \* the next count included
           \/ field[4] + 1 \notin DOMAIN States
           \/ field[6] > (Remaining(data, start) - W32) \div MinMemberSize
        THEN Failed(reader)
        ELSE AddRoom(reader, field, members, ReadGameStates(data, members))

ReadSession(data, reader) ==
    LET size == Field(data, reader.position, W32)
        start == reader.position + W32
        fixed == Fixed(data, start + size, <<W32, W64>>)
    IN  IF \/ Remaining(data, reader) < W32
           \/ Len(data) - start < size + W32 + W64
        THEN Failed(reader)
        ELSE [reader EXCEPT
                !.position = start + size + W32 + W64,
                !.records = Append(@, [token |-> SubSeq(data, start + 1, start + size),
                                       room_id |-> fixed[1], player_id |-> fixed[2]])]

\* The end of decode: nothing may be left over, and the keys must be valid.
Finish(data, cp, sessions) ==
    IF ~sessions.ok \/ sessions.position # Len(data)
    THEN [state |-> "malformed_data"]
    ELSE IF ~ValidKeys(cp)
    THEN [state |-> "invalid_checkpoint"]
    ELSE [state |-> "success", checkpoint |-> cp]

DecodeSessions(data, header, rooms) ==
    LET ReadOne(r) == ReadSession(data, r)
        sessions == Repeat(header[4], ReadOne, Reader(rooms.position))
    IN  IF ~rooms.ok \/ header[4] > Remaining(data, rooms) \div MinSessionSize
        THEN [state |-> "malformed_data"]
        ELSE Finish(data, [generation |-> header[2], rooms |-> rooms.records,
                           sessions |-> sessions.records], sessions)

DecodeRooms(data, header) ==
    LET ReadOne(r) == ReadRoom(data, r)
        start == Reader(HeaderSize)
    IN  IF header[3] > Remaining(data, start) \div MinRoomSize
        THEN [state |-> "malformed_data"]
        ELSE DecodeSessions(data, header, Repeat(header[3], ReadOne, start))

DecodeCheckpoint(data) ==
    LET header == Fixed(data, Len(Magic), <<W32, W64, W32, W32, W64, W64>>)
        payload == SubSeq(data, HeaderSize + 1, Len(data))
    IN  IF Len(data) > MaxFile
        THEN [state |-> "too_large"]
        ELSE IF Len(data) < HeaderSize \/ SubSeq(data, 1, Len(Magic)) # Magic
        THEN [state |-> "malformed_data"]
        ELSE IF header[1] # Version
        THEN [state |-> "unsupported_version"]
        ELSE IF header[2] = 0
        THEN [state |-> "invalid_checkpoint"]
        ELSE IF header[5] # Len(payload)
        THEN [state |-> "malformed_data"]
        ELSE IF header[6] # Checksum(payload)
        THEN [state |-> "checksum_mismatch"]
        ELSE DecodeRooms(data, header)
=============================================================================
