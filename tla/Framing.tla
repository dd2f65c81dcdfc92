------------------------------ MODULE Framing ------------------------------
(***************************************************************************)
(* The bytes of one connection become frames: Buffer (src/buffer.cpp),     *)
(* Codec (src/codec.cpp) and the two threads that take the frames, the I/O *)
(* thread in RoomService::handle_decoded_frame and the base thread in the  *)
(* handlers of the requests.  TCP splits and joins what the client sends   *)
(* as it likes.                                                            *)
(***************************************************************************)
EXTENDS Protocol

CONSTANTS
    Kind,           \* the kind of request of each known type number
    MaxFrame,       \* MAX_FRAME_LENGTH
    InitialSize,    \* the initial size of a Buffer
    Chunks,         \* the numbers of bytes a read may return
    MaxStream       \* bound: bytes the client sends

ASSUME FramingAssumption ==
    /\ MaxFrame \in W16 .. Max32 /\ InitialSize \in Nat
    /\ Chunks \subseteq Nat /\ MaxStream \in Nat

VARIABLES
    buffer,     \* read_buffer_: the vector and its two positions
    pc,         \* the I/O thread: waits to "read", drains the socket in
                \* "append", hands out frames in "decode"; "closed", or "failed"
                \* by an error of read
    received,   \* history: the bytes read so far
    delivered,  \* the frames posted to the base thread or acknowledged
    handled,    \* how many of them their thread is done with
    refused     \* whether the last one was refused

framingVars == <<buffer, pc, received, delivered, handled, refused>>

(* Buffer. *)
Readable(b) == b.write_pos - b.read_pos
Writeable(b) == Len(b.data) - b.write_pos
Contents(b) == SubSeq(b.data, b.read_pos + 1, b.write_pos)

Retrieve(b, len) ==
    IF len < Readable(b)
    THEN [b EXCEPT !.read_pos = @ + len]
    ELSE [b EXCEPT !.read_pos = 0, !.write_pos = 0]

\* Mutant: the read position stays where it was.
MakeSpaceKeepsRead(b, len) ==
    IF Writeable(b) + b.read_pos < len
    THEN [b EXCEPT !.data = [i \in 1 .. b.write_pos + len |->
                               IF i <= Len(@) THEN @[i] ELSE 0]]
    ELSE [data |-> [i \in DOMAIN b.data |->
                      IF i <= Readable(b) THEN b.data[b.read_pos + i] ELSE b.data[i]],
          read_pos |-> b.read_pos, write_pos |-> Readable(b)]

\* Either the vector grows or the contents move to its front.
MakeSpace(b, len) ==
    IF Writeable(b) + b.read_pos < len
    THEN [b EXCEPT !.data = [i \in 1 .. b.write_pos + len |->
                               IF i <= Len(@) THEN @[i] ELSE 0]]
    ELSE [data |-> [i \in DOMAIN b.data |->
                      IF i <= Readable(b) THEN b.data[b.read_pos + i] ELSE b.data[i]],
          read_pos |-> 0, write_pos |-> Readable(b)]

AppendBytes(b, bytes) ==
    LET room == IF Writeable(b) >= Len(bytes) THEN b ELSE MakeSpace(b, Len(bytes)) IN
    [room EXCEPT
        !.data = [i \in DOMAIN @ |->
                    IF i \in room.write_pos + 1 .. room.write_pos + Len(bytes)
                    THEN bytes[i - room.write_pos] ELSE @[i]],
        !.write_pos = @ + Len(bytes)]

(* Codec. *)
MinFrame == W16     \* MIN_FRAME_LENGTH: a type and no payload

\* Codec::encode: the frame, or nothing when the payload is too long.
EncodeFrame(frame) ==
    If(Len(frame.payload) <= MaxFrame - W16,
       Bytes(W16 + Len(frame.payload), W32) \o Bytes(frame.type, W16) \o frame.payload)

HasLength(b) == Readable(b) >= W32
FrameLength(b) == Field(Contents(b), 0, W32)
LegalLength(b) == FrameLength(b) \in MinFrame .. MaxFrame
HasFrame(b) == Readable(b) >= W32 + FrameLength(b)

NextFrame(b) ==
    [type |-> Field(Contents(b), W32, W16),
     payload |-> SubSeq(Contents(b), W32 + W16 + 1, W32 + FrameLength(b))]

(* The I/O thread. *)
FramingInit ==
    /\ buffer = [data |-> [i \in 1 .. InitialSize |-> 0], read_pos |-> 0, write_pos |-> 0]
    /\ pc = "read"
    /\ received = <<>> /\ delivered = <<>>
    /\ handled = 0
    /\ refused = FALSE

\* Connection::read_from_socket appends whatever one read returns and reads on.
Read(bytes) ==
    /\ pc \in {"read", "append"}
    /\ Len(received) + Len(bytes) <= MaxStream
    /\ buffer' = AppendBytes(buffer, bytes)
    /\ received' = received \o bytes
    /\ pc' = "append"
    /\ UNCHANGED <<delivered, handled, refused>>

\* The socket is empty, at once perhaps, or the peer has shut down: the callback
\* decodes what there is.  On another error the connection is closed undecoded.
ReadEnds ==
    /\ pc \in {"read", "append"}
    /\ pc' \in {"decode", "failed"}
    /\ UNCHANGED <<buffer, received, delivered, handled, refused>>

\* Codec::decode returns true: half a frame is left for the next read.
DecodeWaits ==
    /\ pc = "decode"
    /\ HasLength(buffer) => LegalLength(buffer) /\ ~HasFrame(buffer)
    /\ pc' = "read"
    /\ UNCHANGED <<buffer, received, delivered, handled, refused>>

\* Codec::decode returns false at an illegal length, and the I/O thread closes.
DecodeFails ==
    /\ pc = "decode"
    /\ HasLength(buffer) /\ ~LegalLength(buffer)
    /\ pc' = "closed"
    /\ UNCHANGED <<buffer, received, delivered, handled, refused>>

\* handle_decoded_frame refuses an unknown type and a heartbeat it cannot
\* decode; a known type is posted to the base thread undecoded.
Accepts(frame) ==
    /\ frame.type \in DOMAIN Kind
    /\ Kind[frame.type] = "heartbeat" => DecodeHeartbeat(frame.payload) # {}

\* One frame leaves the buffer before the callback sees it.
DecodeFrame ==
    /\ pc = "decode"
    /\ HasLength(buffer) /\ LegalLength(buffer) /\ HasFrame(buffer)
    /\ delivered' = Append(delivered, NextFrame(buffer))
    /\ buffer' = Retrieve(buffer, W32 + FrameLength(buffer))
    /\ refused' = ~Accepts(NextFrame(buffer))
    /\ pc' = IF refused' THEN "closed" ELSE "decode"
    /\ UNCHANGED <<received, handled>>

(* The base thread. *)
WellFormed(frame) ==
    frame.type \in DOMAIN Kind /\ Decode(Kind[frame.type], frame.payload) # {}

\* handle_join and its like answer a payload they cannot decode with an error
\* frame and return; the connection is left as it is.  What the handlers do
\* with a request they decode is the matter of RoomService.
HandleFrame ==
    /\ handled < Len(delivered)
    /\ handled + 1 < Len(delivered) \/ ~refused
    /\ handled' = handled + 1
    /\ UNCHANGED <<buffer, pc, received, delivered, refused>>

FramingNext ==
    \/ \E n \in Chunks : \E bytes \in [1 .. n -> Byte] : Read(bytes)
    \/ ReadEnds \/ DecodeWaits \/ DecodeFails \/ DecodeFrame
    \/ HandleFrame

(***************************************************************************)
(* However TCP cuts the stream and wherever the Buffer has to move or grow *)
(* (make_space), the frames handed to the callback and the bytes still in  *)
(* the buffer are, in order, exactly the bytes received: no byte of a      *)
(* frame is lost, repeated or taken for another frame's.  The decoder only *)
(* waits for more when there is no whole frame, and only gives up at an    *)
(* illegal length or when the callback refuses (codec.cpp:32, buffer.cpp:70). *)
(***************************************************************************)
StreamIsFramed ==
    /\ \A i \in DOMAIN delivered : EncodeFrame(delivered[i]) # {}
    /\ Concat([i \in DOMAIN delivered |->
                CHOOSE bytes \in EncodeFrame(delivered[i]) : TRUE]) \o Contents(buffer)
         = received
    /\ pc = "read" => \A i \in 0 .. Readable(buffer) :
         \A type \in 0 .. Max16 :
           EncodeFrame([type |-> type,
                        payload |-> SubSeq(Contents(buffer), W32 + W16 + 1, i)])
             # {SubSeq(Contents(buffer), 1, i)}
    /\ pc = "closed" => refused \/ ~LegalLength(buffer)

(***************************************************************************)
(* Once a request is handled whose payload lacks fixed fields, states      *)
(* another length than it has or has bytes to spare, nothing more is read  *)
(* from the connection, as docs/protocol.md says of errors of structure    *)
(* (room_service.cpp:248 and the other handlers).                          *)
(***************************************************************************)
MalformedCloses ==
    pc = "read" => \A i \in 1 .. handled : WellFormed(delivered[i])
=============================================================================
