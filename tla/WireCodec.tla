------------------------------ MODULE WireCodec ------------------------------
(***************************************************************************)
(* A message goes over the wire: an encoder writes it into a span taken    *)
(* from a reused buffer, the network may change a byte of it, and the peer *)
(* decodes what arrives. The codecs keep no state: what is checked is that *)
(* the two functions each of the seventeen message types has in the code   *)
(* agree with each other, on every field and every byte.                   *)
(***************************************************************************)
EXTENDS WireFields

CONSTANTS
    ItchCandidates,  \* the ITCH messages a caller may ask to encode
    OuchCandidates,  \* the OUCH messages a caller may ask to encode
    RequestCandidates,  \* the MoldUDP64 requests a caller may ask to encode
    SpanSizes,       \* the sizes of the spans they are given, per protocol
    Fills,           \* what a reused buffer holds before it is written
    DamageValues,    \* the bytes the network may put in place of another
    MaxDamage        \* bound on the bytes changed in one span

Itch == INSTANCE ItchMessages
Ouch == INSTANCE OuchMessages
Mold == INSTANCE MoldUdp64Request

Protocol == {"itch", "ouch", "mold"}

VARIABLES
    protocol,  \* which codec the span belongs to
    span,      \* std::span<std::byte>
    message,   \* the message last passed to encode_message
    error,     \* what encode_message returned; "none" before the call
    damage     \* bytes changed on the way

vars == <<protocol, span, message, error, damage>>

NoMessage == [type |-> "none"]

Candidates ==
    CASE protocol = "itch" -> ItchCandidates
      [] protocol = "ouch" -> OuchCandidates
      [] protocol = "mold" -> RequestCandidates

encode(bytes, m) ==
    CASE protocol = "itch" -> Itch!encode_message(bytes, m)
      [] protocol = "ouch" -> Ouch!encode_message(bytes, m)
      [] protocol = "mold" -> Mold!encode_request_packet(bytes, m)

decode(bytes) ==
    CASE protocol = "itch" -> Itch!decode_message(bytes)
      [] protocol = "ouch" -> Ouch!decode_message(bytes)
      [] protocol = "mold" -> Mold!decode_request_packet(bytes)

Filled(n, fill) == [i \in 0 .. n - 1 |-> fill]

Init ==
    /\ protocol \in Protocol
    /\ \E n \in SpanSizes[protocol], fill \in Fills : span = Filled(n, fill)
    /\ message = NoMessage
    /\ error = "none"
    /\ damage = 0

EncodeMessage(m) ==
    /\ error = "none"
    /\ message' = m
    /\ LET result == encode(span, m)
       IN  span' = result.bytes /\ error' = result.error
    /\ UNCHANGED <<protocol, damage>>

\* The network delivers another byte than the one sent.
DamageByte(i, byte) ==
    /\ error = "ok"
    /\ damage < MaxDamage
    /\ span' = [span EXCEPT ![i] = byte]
    /\ damage' = damage + 1
    /\ UNCHANGED <<protocol, message, error>>

Next ==
    \/ \E m \in Candidates : EncodeMessage(m)
    \/ \E i \in DOMAIN span, byte \in DamageValues : DamageByte(i, byte)

Spec == Init /\ [][Next]_vars

-----------------------------------------------------------------------------
\* What an encoder wrote, the decoder of the same type reads back: every field of
\* the message, for every message the encoder accepts, whatever the buffer held.
RoundTrip == error = "ok" /\ damage = 0 => decode(span) = Ok(message)

\* The decoders are exact: whatever bytes arrive, a message that a decoder accepts
\* encodes to those same bytes, none left over and none different, so the decoder
\* ignores no byte and no two byte strings stand for one message.
ByteExact ==
    LET decoded == decode(span)
    IN  decoded.error = "ok" =>
          \A fill \in Fills :
             encode(Filled(size(span), fill), decoded.value) = [error |-> "ok", bytes |-> span]

\* encode_message writes all of a message or nothing: one it refuses leaves the
\* caller's span as it was, so a slot is never sent half written.
RefusedEncodeLeavesSpan == [][error' \notin {"none", "ok"} => span' = span]_vars

=============================================================================
