------------------------------ MODULE Protocol ------------------------------
(***************************************************************************)
(* Protocol (src/protocol.cpp): the payloads of the requests the clients   *)
(* send and of the frames the server answers with.  A decoder yields the   *)
(* set of the one request it accepts, and an encoder of the one payload,   *)
(* or the empty set when the code returns false.                           *)
(***************************************************************************)
EXTENDS Bytes

CONSTANTS
    MaxNameSize,    \* MAX_PLAYER_NAME_SIZE
    MaxTokenSize,   \* MAX_TOKEN_SIZE
    MaxChatSize,    \* MAX_CHAT_MESSAGE_SIZE
    ErrorTypes,     \* the request types an error frame may name
    ErrorCodes      \* the codes it may carry

\* The size of a string has two bytes.
ASSUME ProtocolAssumption ==
    /\ MaxNameSize \in 0 .. Max16
    /\ MaxTokenSize \in 0 .. Max16
    /\ MaxChatSize \in 0 .. Max16

If(condition, result) == IF condition THEN {result} ELSE {}

(* Requests. *)
\* Mutant: bytes after the name are let through.
DecodeJoinSurplus(payload) ==
    LET offset == W32 + W16 IN
    If(/\ HasField(payload, 0, W32)
       /\ HasField(payload, W32, W16)
       /\ Len(payload) - offset >= Field(payload, W32, W16),
       [room_id |-> Field(payload, 0, W32),
        player_name |-> SubSeq(payload, offset + 1, Len(payload))])

DecodeJoin(payload) ==
    LET offset == W32 + W16 IN
    If(/\ HasField(payload, 0, W32)
       /\ HasField(payload, W32, W16)
       /\ Len(payload) - offset = Field(payload, W32, W16),
       [room_id |-> Field(payload, 0, W32),
        player_name |-> SubSeq(payload, offset + 1, Len(payload))])

DecodeLeave(payload) == If(payload = <<>>, <<>>)

DecodeChat(payload) ==
    If(HasField(payload, 0, W16) /\ Len(payload) - W16 = Field(payload, 0, W16),
       [message |-> SubSeq(payload, W16 + 1, Len(payload))])

DecodeMove(payload) ==
    If(Len(payload) = 2 * W32,
       [dx |-> FromBits(Field(payload, 0, W32)),
        dy |-> FromBits(Field(payload, W32, W32))])

DecodeAttack(payload) ==
    If(Len(payload) = W64, [target_player_id |-> Field64(payload, 0)])

DecodeHeartbeat(payload) ==
    If(Len(payload) = W64, [seq |-> Field64(payload, 0)])

DecodeResume(payload) ==
    If(/\ HasField(payload, 0, W16)
       /\ Field(payload, 0, W16) \in 1 .. MaxTokenSize
       /\ Len(payload) - W16 = Field(payload, 0, W16),
       [token |-> SubSeq(payload, W16 + 1, Len(payload))])

\* The decoder of each kind of request.
Decode(kind, payload) ==
    CASE kind = "join" -> DecodeJoin(payload)
      [] kind = "leave" -> DecodeLeave(payload)
      [] kind = "chat" -> DecodeChat(payload)
      [] kind = "move" -> DecodeMove(payload)
      [] kind = "attack" -> DecodeAttack(payload)
      [] kind = "heartbeat" -> DecodeHeartbeat(payload)
      [] kind = "resume" -> DecodeResume(payload)

(* Replies. *)
ValidName(name) == Len(name) \in 1 .. MaxNameSize
ValidMembers(members) ==
    Len(members) <= Max16 /\ \A i \in DOMAIN members : ValidName(members[i].player_name)
ValidStates(states) ==
    Len(states) <= Max16 /\ \A i \in DOMAIN states : states[i].player_id # 0

\* A string goes after its size.
Sized(string) == Bytes(Len(string), W16) \o string

\* Mutant: a name without its size.
MemberBytesUnsized(member) == Bytes64(member.player_id) \o member.player_name

MemberBytes(member) == Bytes64(member.player_id) \o Sized(member.player_name)

MembersBytes(members) ==
    Bytes(Len(members), W16)
        \o Concat([i \in DOMAIN members |-> MemberBytes(members[i])])

StatesBytes(states) ==
    Bytes(Len(states), W16)
        \o Concat([i \in DOMAIN states |->
                     Bytes64(states[i].player_id) \o Bytes(ToBits(states[i].x), W32)
                       \o Bytes(ToBits(states[i].y), W32)
                       \o Bytes(ToBits(states[i].hp), W32)])

EncodeJoinOk(r) ==
    If(Len(r.token) \in 1 .. MaxTokenSize /\ ValidMembers(r.members),
       Bytes(r.room_id, W32) \o Bytes64(r.player_id) \o Sized(r.token)
         \o MembersBytes(r.members))

EncodeResumeOk(r) ==
    If(ValidMembers(r.members) /\ ValidStates(r.states),
       Bytes(r.room_id, W32) \o Bytes64(r.player_id) \o Bytes(r.state, W16)
         \o Bytes64(r.tick_id) \o MembersBytes(r.members) \o StatesBytes(r.states))

EncodePlayerJoined(r) ==
    If(ValidName(r.player_name),
       Bytes(r.room_id, W32) \o Bytes64(r.player_id) \o Sized(r.player_name))

EncodeLeaveOk(r) == {Bytes(r.room_id, W32)}

EncodePlayerLeft(r) == {Bytes(r.room_id, W32) \o Bytes64(r.player_id)}

EncodeChatEvent(r) ==
    If(Len(r.message) \in 1 .. MaxChatSize,
       Bytes(r.room_id, W32) \o Bytes64(r.player_id) \o Sized(r.message))

EncodeError(r) ==
    If(r.request_type \in ErrorTypes /\ r.error_code \in ErrorCodes,
       Bytes(r.request_type, W16) \o Bytes(r.error_code, W16))

EncodeHeartbeatAck(r) == {Bytes64(r.seq)}

EncodeStateSnapshot(r) ==
    If(ValidStates(r.states),
       Bytes(r.room_id, W32) \o Bytes64(r.tick_id) \o StatesBytes(r.states))

\* The encoder of each kind of reply.
Encode(kind, r) ==
    CASE kind = "join_ok" -> EncodeJoinOk(r)
      [] kind = "resume_ok" -> EncodeResumeOk(r)
      [] kind = "player_joined" -> EncodePlayerJoined(r)
      [] kind = "leave_ok" -> EncodeLeaveOk(r)
      [] kind = "player_left" -> EncodePlayerLeft(r)
      [] kind = "chat_event" -> EncodeChatEvent(r)
      [] kind = "error" -> EncodeError(r)
      [] kind = "heartbeat_ack" -> EncodeHeartbeatAck(r)
      [] kind = "state_snapshot" -> EncodeStateSnapshot(r)
=============================================================================
