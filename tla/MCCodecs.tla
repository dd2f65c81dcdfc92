------------------------------ MODULE MCCodecs ------------------------------
(* Codecs with small constants for TLC. *)
EXTENDS Codecs, Bitwise

SmallKinds == 1 :> "join" @@ 2 :> "leave" @@ 3 :> "heartbeat"

Names == {<<1>>, <<1, 0>>, <<0, 1>>}
SmallMembers == SeqOf([player_id : {0, 1}, player_name : Names], 2)
SmallStates == SeqOf([player_id : {1, 16}, x : {-8, -1}, y : {7}, hp : {0}], 2)
Lists(S, n) == {[i \in 1 .. n |-> s] : s \in S}

SmallReplies ==
    [join_ok |-> [room_id : {1}, player_id : {1, 16},
                  token : {<<>>, <<1>>, <<1, 1>>},
                  members : SmallMembers \cup Lists([player_id : {1}, player_name : Names], 4)],
     resume_ok |-> [room_id : {1}, player_id : {1}, state : {1, 2}, tick_id : {0, 255},
                    members : SeqOf([player_id : {0}, player_name : Names], 1),
                    states : SmallStates],
     player_joined |-> [room_id : {1, 15}, player_id : {1, 16}, player_name : Names \cup {<<>>}],
     leave_ok |-> [room_id : {1, 4, 15}],
     player_left |-> [room_id : {1, 4}, player_id : {1, 16, 255}],
     chat_event |-> [room_id : {1}, player_id : {1, 16}, message : Names \cup {<<>>}],
     error |-> [request_type : 0 .. 3, error_code : 0 .. 3],
     heartbeat_ack |-> [seq : {0, 1, 16, 255}],
     state_snapshot |-> [room_id : {1}, tick_id : {0, 255}, states : SmallStates]]

Room(id, members, states) ==
    [room_id |-> id, capacity |-> 3, next_player_id |-> 255, state |-> "running",
     tick_id |-> 17, members |-> members, game_states |-> states]
Rooms == {Room(2, <<>>, <<>>),
          Room(1, <<[player_id |-> 1, player_name |-> <<1, 2>>],
                    [player_id |-> 2, player_name |-> <<3>>]>>,
                  <<[player_id |-> 1, x |-> -8, y |-> 7, hp |-> -1]>>)}
Sessions == [token : {<<1>>, <<2>>}, room_id : {1}, player_id : {1, 2}]
SmallCheckpoints ==
    [generation : {0, 1, 255}, rooms : SeqOf(Rooms, 2), sessions : SeqOf(Sessions, 2)]
SmallMagic == <<2, 1>>
BitwiseXor == [hash \in 0 .. Max64 |-> [byte \in Byte |-> hash ^^ byte]]
=============================================================================
