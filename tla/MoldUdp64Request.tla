-------------------------- MODULE MoldUdp64Request --------------------------
(***************************************************************************)
(* The MoldUDP64 request packet, by which a receiver asks for messages it  *)
(* missed (src/moldudp64/moldudp64_encode.cpp and moldudp64_decode.cpp).   *)
(***************************************************************************)
EXTENDS WireFields

length_request_packet == 20

request_offset == [session |-> 0, sequence_number |-> 10, requested_message_count |-> 18]

request_packet ==
    <<Bytes(request_offset, "session", 10), U64(request_offset, "sequence_number"),
      U16(request_offset, "requested_message_count")>>

encode_request_packet(bytes, packet) ==
    IF size(bytes) # length_request_packet THEN Refused("parse_error", bytes)
    ELSE WriteAll(bytes, request_packet, packet)

decode_request_packet(bytes) ==
    IF size(bytes) # length_request_packet \/ ~AllRead(bytes, request_packet)
    THEN Failed("parse_error")
    ELSE Ok([type |-> "request"] @@ ReadAll(bytes, request_packet))

=============================================================================
