-------------------------------- MODULE Wire --------------------------------
(***************************************************************************)
(* What client and server say to each other, on three benches: a byte      *)
(* stream cut anywhere (Framing), the payload of a request made of any     *)
(* bytes, and the reply to a request.                                      *)
(***************************************************************************)
EXTENDS Framing

CONSTANTS
    MaxPayload,     \* bound: bytes of a request's payload
    Replies         \* the replies of each kind

VARIABLES
    bench,      \* "stream", "payload" or "reply"; "file" is the bench of Codecs
    payload,    \* the payload of a request
    reply       \* a reply the server sends, with its kind

talkVars == <<payload, reply>>
wireVars == <<framingVars, bench, talkVars>>

\* The parameters of the encoders have the widths of their types.
MemberList == Seq([player_id : 0 .. Max64, player_name : Seq(Byte)])
StateList == Seq([player_id : 0 .. Max64, x : Int32s, y : Int32s, hp : Int32s])
ReplyType(kind) ==
    CASE kind = "join_ok" ->
           [room_id : 0 .. Max32, player_id : 0 .. Max64, token : Seq(Byte), members : MemberList]
      [] kind = "resume_ok" ->
           [room_id : 0 .. Max32, player_id : 0 .. Max64, state : 0 .. Max16,
            tick_id : 0 .. Max64, members : MemberList, states : StateList]
      [] kind = "player_joined" ->
           [room_id : 0 .. Max32, player_id : 0 .. Max64, player_name : Seq(Byte)]
      [] kind = "leave_ok" -> [room_id : 0 .. Max32]
      [] kind = "player_left" -> [room_id : 0 .. Max32, player_id : 0 .. Max64]
      [] kind = "chat_event" ->
           [room_id : 0 .. Max32, player_id : 0 .. Max64, message : Seq(Byte)]
      [] kind = "error" -> [request_type : 0 .. Max16, error_code : 0 .. Max16]
      [] kind = "heartbeat_ack" -> [seq : 0 .. Max64]
      [] kind = "state_snapshot" ->
           [room_id : 0 .. Max32, tick_id : 0 .. Max64, states : StateList]
ReplyKinds ==
    {"join_ok", "resume_ok", "player_joined", "leave_ok", "player_left",
     "chat_event", "error", "heartbeat_ack", "state_snapshot"}

ASSUME WireAssumption ==
    /\ MaxPayload \in Nat
    /\ DOMAIN Replies \subseteq ReplyKinds
    /\ \A kind \in DOMAIN Replies : Replies[kind] \subseteq ReplyType(kind)

NoReply == [kind |-> "none"]

WireInit ==
    /\ FramingInit
    /\ bench \in {"stream", "payload", "reply", "file"}
    /\ payload = <<>> /\ reply = NoReply

Stream == bench = "stream" /\ FramingNext /\ UNCHANGED <<bench, talkVars>>

\* The client may send any bytes as a request.
ExtendPayload(byte) ==
    /\ bench = "payload"
    /\ Len(payload) < MaxPayload
    /\ payload' = Append(payload, byte)
    /\ UNCHANGED <<framingVars, bench, reply>>

SendReply(kind) ==
    /\ bench = "reply"
    /\ reply = NoReply
    /\ \E r \in Replies[kind] : reply' = [kind |-> kind, body |-> r]
    /\ UNCHANGED <<framingVars, bench, payload>>

WireNext ==
    \/ Stream
    \/ \E byte \in Byte : ExtendPayload(byte)
    \/ \E kind \in DOMAIN Replies : SendReply(kind)

WireSpec == WireInit /\ [][WireNext]_wireVars

\* What a client lays out for each kind of request, whatever the decoder does.
\* A string in a request is always the end of its payload, and has a size
\* that fits its field.
Tails == {tail \in Suffixes(payload) : Len(tail) <= Max16}
Requests(kind) ==
    CASE kind = "join" -> [room_id : 0 .. Max32, player_name : Tails]
      [] kind = "leave" -> {<<>>}
      [] kind = "chat" -> [message : Tails]
      [] kind = "move" -> [dx : Int32s, dy : Int32s]
      [] kind = "attack" -> [target_player_id : 0 .. Max64]
      [] kind = "heartbeat" -> [seq : 0 .. Max64]
      [] kind = "resume" -> {r \in [token : Tails] : Len(r.token) \in 1 .. MaxTokenSize}
Layout(kind, r) ==
    CASE kind = "join" -> Bytes(r.room_id, W32) \o Sized(r.player_name)
      [] kind = "leave" -> <<>>
      [] kind = "chat" -> Sized(r.message)
      [] kind = "move" -> Bytes(ToBits(r.dx), W32) \o Bytes(ToBits(r.dy), W32)
      [] kind = "attack" -> Bytes(r.target_player_id, W64)
      [] kind = "heartbeat" -> Bytes(r.seq, W64)
      [] kind = "resume" -> Sized(r.token)
RequestKinds == {"join", "leave", "chat", "move", "attack", "heartbeat", "resume"}

(***************************************************************************)
(* Of all byte strings a client may send, the decoder of a request         *)
(* (protocol.cpp:87) accepts those that lay out one of its requests, to    *)
(* the last byte, and no others, and it yields that very request, negative *)
(* steps and identifiers of full width included.                           *)
(***************************************************************************)
RequestsAreExact ==
    bench = "payload" =>
      \A kind \in RequestKinds :
        Decode(kind, payload) = {r \in Requests(kind) : Layout(kind, r) = payload}

(***************************************************************************)
(* The bytes of a reply determine it: no other reply of its type, with     *)
(* other names, members or states of the players, is encoded alike         *)
(* (protocol.cpp:176), so a client can tell what the server said.          *)
(***************************************************************************)
RepliesAreUnambiguous ==
    reply # NoReply =>
      \A other \in Replies[reply.kind] :
        /\ Encode(reply.kind, reply.body) # {}
        /\ Encode(reply.kind, other) = Encode(reply.kind, reply.body)
        => other = reply.body
=============================================================================
