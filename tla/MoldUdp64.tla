----------------------------- MODULE MoldUdp64 -----------------------------
(***************************************************************************)
(* MoldUDP64 downstream packets (src/moldudp64/moldudp64_encode.cpp,       *)
(* moldudp64_decode.cpp), the framer that numbers generated messages       *)
(* (src/gen/moldudp64_packet_framer.cpp) and the decoder of a packet of    *)
(* ITCH messages (src/replay/moldudp64_itch_replay.cpp).                   *)
(*                                                                         *)
(* A datagram is a record of the header's numbers and the sequence of the  *)
(* message blocks behind it. A block is the ITCH message it encodes (that  *)
(* decode_message reads back what encode_message wrote is shown for every  *)
(* message type by WireCodec), or Cut, when the datagram ends inside it.   *)
(* The session is copied and never compared, and is left out.              *)
(***************************************************************************)
EXTENDS Integers, Sequences

CONSTANTS
    MaxSequenceNumber,    \* 2^64 - 1
    MaxMessageCount,      \* 0xFFFF
    Cut                   \* a message block whose bytes are not all there

ASSUME MoldAssumption == MaxSequenceNumber \in Nat /\ MaxMessageCount \in Nat \ {0}

heartbeat_message_count == 0

end_of_session_message_count == MaxMessageCount

packet_kind_from_message_count(count) ==
    IF count = heartbeat_message_count THEN "heartbeat"
    ELSE IF count = end_of_session_message_count THEN "end_of_session"
    ELSE "data"

is_special_message_count(count) == packet_kind_from_message_count(count) # "data"

\* A sequence number, n messages on.
Plus(sequence_number, n) == (sequence_number + n) % (MaxSequenceNumber + 1)


sequence_number_would_wrap(first, index) == first > MaxSequenceNumber - index

Datagram(first, count, body) ==
    [first_sequence_number |-> first, message_count |-> count, body |-> body]

\* encode_downstream_packet, into a buffer of downstream_packet_encoded_length:
\* the datagram, or Cut where it returns an error. A packet's messages are pairs
\* of a sequence number and a payload.
encode_downstream_packet(packet) ==
    LET count == packet.message_count
        numbered == \A k \in DOMAIN packet.messages :
            packet.messages[k].sequence_number = Plus(packet.first_sequence_number, k - 1) IN
    IF packet.kind # "data"
    THEN IF packet.messages # <<>> \/ packet_kind_from_message_count(count) # packet.kind
         THEN Cut
         ELSE Datagram(packet.first_sequence_number, count, <<>>)
    ELSE IF Len(packet.messages) # count \/ ~numbered THEN Cut
    ELSE Datagram(packet.first_sequence_number, count,
                  [k \in DOMAIN packet.messages |-> packet.messages[k].payload])

\* Mutant of Block: the decoder counts messages from 1.
BlockFromOne(first, body, k) ==
    [sequence_number |-> Plus(first, k), payload |-> body[k]]

\* The k-th message of a packet.
Block(first, body, k) ==
    [sequence_number |-> Plus(first, k - 1), payload |-> body[k]]

\* decode_downstream_packet: every failure is a parse_error. A special count is
\* the header alone; else there are as many whole blocks as the count says and
\* nothing behind them.
decode_downstream_packet(datagram) ==
    LET first == datagram.first_sequence_number
        count == datagram.message_count
        body == datagram.body
        sound == IF is_special_message_count(count) THEN body = <<>>
                 ELSE /\ Len(body) = count
                      /\ \A k \in DOMAIN body : body[k] # Cut
                      /\ ~sequence_number_would_wrap(first, count - 1) IN
    [error |-> IF sound THEN "ok" ELSE "parse_error",
     kind |-> packet_kind_from_message_count(count),
     messages |-> [k \in DOMAIN body |-> Block(first, body, k)]]

-----------------------------------------------------------------------------
\* MoldUdp64PacketFramer's constructor, and reset.
FirstSequenceNumber(configured) == IF configured = 0 THEN 1 ELSE configured

\* Mutant of frame_data_packet: a batch with a message that does not encode takes
\* numbers all the same.
frame_data_packet_advances_first(next, messages, encodable) ==
    LET n == Len(messages)
        datagram ==
            encode_downstream_packet(
                [first_sequence_number |-> next, message_count |-> n, kind |-> "data",
                 messages |-> [k \in 1 .. n |->
                    [sequence_number |-> Plus(next, k - 1), payload |-> messages[k]]]]) IN
    IF n = 0 \/ n > MaxMessageCount THEN [datagram |-> Cut, next |-> next]
    ELSE [datagram |-> IF encodable THEN datagram ELSE Cut, next |-> Plus(next, n)]

\* frame_data_packet at the sequence number next: the datagram, Cut for none, and
\* the number after it. encodable: encode_message accepts every message.
frame_data_packet(next, messages, encodable) ==
    LET n == Len(messages)
        datagram ==
            encode_downstream_packet(
                [first_sequence_number |-> next, message_count |-> n, kind |-> "data",
                 messages |-> [k \in 1 .. n |->
                    [sequence_number |-> Plus(next, k - 1), payload |-> messages[k]]]]) IN
    IF n = 0 \/ n > MaxMessageCount \/ ~encodable \/ datagram = Cut
    THEN [datagram |-> Cut, next |-> next]
    ELSE [datagram |-> datagram, next |-> Plus(next, n)]

frame_heartbeat(next) ==
    encode_downstream_packet(
        [first_sequence_number |-> next, message_count |-> heartbeat_message_count,
         kind |-> "heartbeat", messages |-> <<>>])

=============================================================================
