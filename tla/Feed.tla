-------------------------------- MODULE Feed --------------------------------
(***************************************************************************)
(* Market data end to end: fgep_md_generator (apps/fgep_md_generator.cpp)  *)
(* builds ITCH messages, frames them in MoldUDP64 packets and sends them;  *)
(* the network loses, duplicates, delays and reorders datagrams, and a     *)
(* receive buffer that is too short truncates them; the receiver decodes a *)
(* packet and ItchReplayApplier (src/replay/itch_replay_apply.cpp) applies *)
(* its messages to the directory and the books of one venue. The generator *)
(* may stop and start again, when the receiver goes on with what it has.   *)
(***************************************************************************)
EXTENDS ItchMessageBuilder, MoldUdp64, VenueBooks

CONSTANTS
    Venue,            \* the applier's venue
    FirstConfigured,  \* MoldUdp64PacketFramerConfig::first_sequence_number
    BatchSizes,       \* messages per packet (fgep_md_generator sends one)
    MaxGenerated,     \* bound: market events per run of the generator
    MaxInFlight,      \* bound: datagrams under way at once
    MaxPackets,       \* bound: packets applied
    MaxRestarts       \* bound: restarts of the generator

VARIABLES
    builder,
    opened,                  \* session-open messages already dealt with
    next_sequence_number,    \* the framer's
    network,                 \* the datagrams under way
    market,                  \* the receiver's directory and books
    stats,                   \* the applier's ItchReplayApplyStats
    restarts,
    assigned,    \* history: which message got which number in which run
    log,         \* history: the messages the applier tried, with the outcome
    offered      \* history: the number of messages in the packets it was given

generator == <<builder, opened, next_sequence_number, assigned>>
receiver == <<market, stats, log, offered>>
vars == <<generator, network, receiver, restarts>>

\* last_sequence_number is Absent until has_last_sequence_number.
NoStats ==
    [packets |-> 0, data_packets |-> 0, heartbeat_packets |-> 0,
     end_of_session_packets |-> 0, instrument_messages |-> 0, book_messages |-> 0,
     ignored_messages |-> 0, failed_messages |-> 0, last_sequence_number |-> Absent]

Init ==
    /\ builder = NewBuilder
    /\ opened = 0
    /\ next_sequence_number = FirstSequenceNumber(FirstConfigured)
    /\ network = {}
    /\ market = add_venue(EmptyMarket, Venue).market
    /\ stats = NoStats
    /\ restarts = 0
    /\ assigned = {}
    /\ log = <<>>
    /\ offered = 0

-----------------------------------------------------------------------------
\* encode_message accepts a message the builder makes: the is_valid_ functions of
\* its three types, whose text fields the builder always fills properly.
Encodable(m) ==
    /\ m.header.stock_locate # 0 /\ m.header.timestamp_ok
    /\ m.type # "stock_directory" =>
         is_valid_order_reference_number(m.order_reference_number) /\ is_valid_shares(m.shares)
    /\ m.type = "add" => is_valid_price4(m.price)

\* A datagram is handed to UdpSender::send, which may fail to send it.
Send(datagram) == network' \in {network, network \cup {datagram}}

\* frame_data_packet and, when it framed a packet, send.
FrameAndSend(messages) ==
    LET framed == frame_data_packet(next_sequence_number, messages,
                                    \A k \in DOMAIN messages : Encodable(messages[k])) IN
    /\ next_sequence_number' = framed.next
    /\ IF framed.datagram = Cut THEN UNCHANGED <<network, assigned>>
       ELSE /\ Send(framed.datagram)
            /\ assigned' = assigned \cup
                 {[run |-> restarts, sequence_number |-> Plus(next_sequence_number, k - 1),
                   message |-> messages[k]] : k \in DOMAIN messages}

\* One round of main's loop over the session-open messages.
OpenSession ==
    /\ opened < symbol_count
    /\ opened' = opened + 1
    /\ FrameAndSend(<<session_open_message(opened + 1)>>)
    /\ UNCHANGED <<builder, receiver, restarts>>

\* n calls of next_market_event.
NextEvents(n) ==
    FoldLeft(LAMBDA made, k :
                 LET event == next_market_event(made.builder) IN
                 [builder |-> event.builder, messages |-> Append(made.messages, event.message)],
             [builder |-> builder, messages |-> <<>>],
             [k \in 1 .. n |-> k])

\* One round of main's loop over market events. An event whose packet is not
\* framed or not sent is not made again.
SendEvents(n) ==
    /\ opened = symbol_count
    /\ builder.generated_count + n <= MaxGenerated
    /\ builder' = NextEvents(n).builder
    /\ FrameAndSend(NextEvents(n).messages)
    /\ UNCHANGED <<opened, receiver, restarts>>

SendHeartbeat ==
    /\ Send(frame_heartbeat(next_sequence_number))
    /\ UNCHANGED <<generator, receiver, restarts>>

\* The end of a session, which a venue announces and the framer does not.
SendEndOfSession ==
    /\ Send(Datagram(next_sequence_number, end_of_session_message_count, <<>>))
    /\ UNCHANGED <<generator, receiver, restarts>>

\* The generator stops, at a signal or a crash, and is started again.
Restart ==
    /\ restarts < MaxRestarts
    /\ restarts' = restarts + 1
    /\ builder' = NewBuilder
    /\ opened' = 0
    /\ next_sequence_number' = FirstSequenceNumber(FirstConfigured)
    /\ UNCHANGED <<network, assigned, receiver>>

-----------------------------------------------------------------------------
\* What apply_message counts a message as when it is applied.
CounterOf(m) ==
    IF m.type \in {"stock_directory", "stock_trading_action"} THEN "instrument_messages"
    ELSE IF m.type = "other" THEN "ignored_messages" ELSE "book_messages"

\* Mutant of apply_decoded: a message is counted as applied before it is.
apply_decoded_counts_first(s, decoded) ==
    LET done == apply_message(s.market, Venue, decoded.payload)
        counted == [s.stats EXCEPT !.last_sequence_number = decoded.sequence_number,
                                   ![CounterOf(decoded.payload)] = @ + 1] IN
    IF s.error # "ok" THEN s
    ELSE [market |-> done.market, error |-> done.error,
          stats |-> IF done.error = "ok" THEN counted
                    ELSE [counted EXCEPT !.failed_messages = @ + 1],
          log |-> Append(s.log, [sequence_number |-> decoded.sequence_number,
                                 message |-> decoded.payload, error |-> done.error])]

\* One round of the loop over a packet's messages: nothing more once one failed.
apply_decoded(s, decoded) ==
    LET done == apply_message(s.market, Venue, decoded.payload)
        counter == IF done.error = "ok" THEN CounterOf(decoded.payload)
                   ELSE "failed_messages" IN
    IF s.error # "ok" THEN s
    ELSE [market |-> done.market, error |-> done.error,
          stats |-> [s.stats EXCEPT !.last_sequence_number = decoded.sequence_number,
                                    ![counter] = @ + 1],
          log |-> Append(s.log, [sequence_number |-> decoded.sequence_number,
                                 message |-> decoded.payload, error |-> done.error])]

\* The counter of a packet's kind.
KindCounter ==
    [data |-> "data_packets", heartbeat |-> "heartbeat_packets",
     end_of_session |-> "end_of_session_packets"]

\* ItchReplayApplier::apply of a packet. Only a data packet has messages.
apply_packet(packet) ==
    FoldLeft(apply_decoded,
             [market |-> market, error |-> "ok", log |-> log,
              stats |-> [stats EXCEPT !.packets = @ + 1, ![KindCounter[packet.kind]] = @ + 1]],
             packet.messages)

\* decode_moldudp64_itch_packet, and apply of what it returns. A packet that
\* does not decode goes no further.
Process(datagram) ==
    LET packet == decode_downstream_packet(datagram)
        after == apply_packet(packet) IN
    IF packet.error # "ok" THEN UNCHANGED receiver
    ELSE /\ stats.packets < MaxPackets
         /\ market' = after.market
         /\ stats' = after.stats
         /\ log' = after.log
         /\ offered' = offered + Len(packet.messages)

\* What a receive buffer too short for a datagram is left with.
Truncations(datagram) ==
    UNION {{[datagram EXCEPT !.body = SubSeq(@, 1, k)],
            [datagram EXCEPT !.body = Append(SubSeq(@, 1, k), Cut)]} :
           k \in 0 .. Len(datagram.body) - 1}

\* A datagram arrives, and may arrive again.
Deliver(datagram) ==
    /\ Process(datagram)
    /\ network' \in {network, network \ {datagram}}
    /\ UNCHANGED <<generator, restarts>>

DeliverTruncated(datagram) ==
    /\ \E short \in Truncations(datagram) : Process(short)
    /\ network' = network \ {datagram}
    /\ UNCHANGED <<generator, restarts>>

Lose(datagram) ==
    /\ network' = network \ {datagram}
    /\ UNCHANGED <<generator, receiver, restarts>>

\* Bounds on what is sent: datagrams under way at once, and heartbeats and ends of
\* session only while the receiver has seen none.
Room == Cardinality(network) < MaxInFlight
Idle == network = {} /\ opened = symbol_count /\ stats.packets = stats.data_packets

Next ==
    \/ Room /\ OpenSession
    \/ Room /\ \E n \in BatchSizes : SendEvents(n)
    \/ Idle /\ SendHeartbeat
    \/ Idle /\ SendEndOfSession
    \/ Restart
    \/ \E datagram \in network : Deliver(datagram)
    \/ \E datagram \in network : DeliverTruncated(datagram)
    \/ \E datagram \in network : Lose(datagram)

Spec == Init /\ [][Next]_vars

\* The same generator over a network that delivers every datagram once, in order
\* and whole.
DeliverInOrder(datagram) == Deliver(datagram) /\ network' = {}

NextReliable ==
    \/ network = {} /\ OpenSession /\ (network' # {} \/ UNCHANGED assigned)
    \/ network = {} /\ SendEvents(1) /\ (network' # {} \/ UNCHANGED assigned)
    \/ \E datagram \in network : DeliverInOrder(datagram)

SpecReliable == Init /\ [][NextReliable]_vars

-----------------------------------------------------------------------------
\* What the framer numbered since the generator was last started.
Numbered == {a \in assigned : a.run = restarts}

\* The numbers of a run have no hole, so that a hole the receiver sees is a loss:
\* the framer takes a number for every message of a packet it frames, and none
\* for a batch it refuses.
StreamHasNoHole ==
    LET first == FirstSequenceNumber(FirstConfigured)
        n == Cardinality(Numbered) IN
    /\ next_sequence_number = Plus(first, n)
    /\ {a.sequence_number : a \in Numbered} = {Plus(first, k) : k \in 0 .. n - 1}

\* Whatever is lost, repeated, reordered or truncated, a message the applier
\* tries under a number is the message the framer gave that number: framing and
\* decoding count alike, and no part of a damaged packet is applied.
SequenceNamesMessage ==
    \A k \in DOMAIN log :
        \E a \in assigned :
            a.sequence_number = log[k].sequence_number /\ a.message = log[k].message


\* The applied messages of a type, and the shares they add or take away.
SharesApplied(type) ==
    FoldLeft(LAMBDA sum, entry :
                 IF entry.error = "ok" /\ entry.message.type = type
                 THEN sum + entry.message.shares ELSE sum,
             0, log)

\* Every book of the venue.
Books == BooksOf(market, Venue)

\* The shares resting over all books.
SharesResting ==
    MapThenSumSet(LAMBDA l :
        MapThenSumSet(LAMBDA ref :
            IF contains_order(Books[l], ref) THEN Books[l].orders[ref].shares ELSE 0,
            OrderReferenceNumber), DOMAIN Books)

\* No share appears or gets lost at the receiver: what rests is what the accepted
\* adds brought less what the accepted cancels took, though adds and cancels
\* arrive twice, in the wrong order, from two runs of the generator that use the
\* same order reference numbers, or not at all.
SharesConserved == SharesResting = SharesApplied("add") - SharesApplied("reduce")

\* The applier's counters tell what happened: every packet is counted under its
\* kind, every message it tried under what became of it, the last number is the
\* last message tried, and when no message failed none was skipped.
StatsReconcile ==
    /\ stats.packets =
         stats.data_packets + stats.heartbeat_packets + stats.end_of_session_packets
    /\ Len(log) = stats.instrument_messages + stats.book_messages
                    + stats.ignored_messages + stats.failed_messages
    /\ stats.failed_messages = Cardinality({k \in DOMAIN log : log[k].error # "ok"})
    /\ stats.failed_messages <= stats.data_packets
    /\ stats.failed_messages = 0 => Len(log) = offered
    /\ stats.last_sequence_number =
         IF log = <<>> THEN Absent ELSE log[Len(log)].sequence_number

\* test_itch_message_builder.cpp: a generated cancel "cancels a real previously-added
\* order reference number once one exists". Over a network that loses, repeats and
\* reorders nothing, then, the book refuses no generated message.
GeneratedStreamApplies == stats.failed_messages = 0

=============================================================================
