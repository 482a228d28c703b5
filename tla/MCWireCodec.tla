----------------------------- MODULE MCWireCodec -----------------------------
(***************************************************************************)
(* WireCodec for TLC. For each message type one valid message whose bytes  *)
(* all differ from their neighbours, and every message that differs from   *)
(* it in one field, over the boundary values of that field.                *)
(***************************************************************************)
EXTENDS WireCodec

\* Digits start, start + 1, ...: the value reads differently in another byte order.
Ascending(w, start) == [k \in 0 .. w - 1 |-> start + k]

All(w, byte) == [k \in 0 .. w - 1 |-> byte]

\* Midnight, the last nanosecond of the day and the one after, and one past 48 bits.
Timestamps ==
    {Zero(8), Itch!max_timestamp_ns_since_midnight,
     [Itch!max_timestamp_ns_since_midnight EXCEPT ![0] = 0, ![1] = 0, ![2] = 79],
     [Zero(8) EXCEPT ![6] = 1]}

\* 999'999 and 1'000'000.
Quantities == {Ouch!max_quantity, [Ouch!max_quantity EXCEPT ![0] = 64]}

Values(f) ==
    CASE f.name = "type" -> {}
      [] f.kind = "u16" -> {Zero(2), [Zero(2) EXCEPT ![1] = 1], All(2, 255)}
      [] f.kind = "u32" -> {Zero(4), Ascending(4, 1), All(4, 255)} \cup
                           (IF f.name = "quantity" THEN Quantities ELSE {})
      [] f.kind = "u48" -> Timestamps
      [] f.kind = "u64" -> {Zero(8), Ascending(8, 1), Ascending(8, 40), All(8, 255)}
      [] f.kind = "ascii" -> {All(f.width, 32), All(f.width, 126),
                              [All(f.width, 65) EXCEPT ![f.width - 1] = 127],
                              [All(f.width, 65) EXCEPT ![0] = 31]}
      [] f.kind = "char" -> {31, 32, 126, 127}
      [] f.kind = "enum" -> DOMAIN f.codes
      [] f.name = "session" -> {All(10, 0), All(10, 255)}
      [] f.name = "optional_appendage" -> {<<>>, All(1, 255), Ascending(2, 7)}

\* The value of field f in the base message: its position sets its bytes.
BaseValue(f) ==
    CASE f.name = "quantity" -> Ascending(3, 5) @@ (3 :> 0)
      [] f.kind \in {"u16", "u32", "u64", "ascii"} -> Ascending(f.width, f.offset + 32)
      [] f.kind = "u48" -> Ascending(6, 10) @@ (6 :> 0 @@ 7 :> 0)
      [] f.kind = "char" -> f.offset + 32
      [] f.kind = "enum" -> CHOOSE e \in DOMAIN f.codes : TRUE
      [] f.name = "session" -> Ascending(10, 31)
      [] f.name = "optional_appendage" -> <<>>

\* A system event is of no stock: its locate is zero.
Base(type, layout) ==
    [name \in FieldNames(layout) \cup {"type"} |->
        IF name = "type" THEN type
        ELSE IF type = "system_event" /\ name = "stock_locate" THEN Zero(2)
        ELSE BaseValue(layout[CHOOSE k \in DOMAIN layout : layout[k].name = name])]

Variants(type, layout) ==
    LET base == Base(type, layout)
    IN  {base} \cup UNION { { [base EXCEPT ![layout[k].name] = v] : v \in Values(layout[k]) }
                            : k \in DOMAIN layout }

ItchLayout(type) ==
    Itch!encode_header \o
    CASE type = "system_event" -> Itch!encode_system_event_message
      [] type = "stock_directory" -> Itch!encode_stock_directory_message
      [] type = "stock_trading_action" -> Itch!encode_stock_trading_action_message
      [] type = "add_order_no_mpid" -> Itch!encode_add_order_no_mpid_message
      [] type = "add_order_with_mpid" -> Itch!encode_add_order_with_mpid_message
      [] type = "order_executed" -> Itch!encode_order_executed_message
      [] type = "order_executed_with_price" -> Itch!encode_order_executed_with_price_message
      [] type = "order_cancel" -> Itch!encode_order_cancel_message
      [] type = "order_delete" -> Itch!encode_order_delete_message
      [] type = "order_replace" -> Itch!encode_order_replace_message
      [] type = "trade_non_cross" -> Itch!encode_trade_non_cross_message
      [] type = "cross_trade" -> Itch!encode_cross_trade_message
      [] type = "broken_trade" -> Itch!encode_broken_trade_message

MCItchCandidates ==
    UNION { Variants(type, ItchLayout(type)) :
              type \in {t \in DOMAIN Itch!MessageType : Itch!is_encode_supported(t)} }

\* The length of the appendage is not a field of the message.
MessageFields(layout) == SelectSeq(layout, LAMBDA f : f.name # "appendage_length")

MCOuchCandidates ==
    Variants("enter_order", MessageFields(Ouch!encode_enter_order_message(0))) \cup
    Variants("replace_order", MessageFields(Ouch!encode_replace_order_message(0))) \cup
    Variants("cancel_order", MessageFields(Ouch!encode_cancel_order_message(0)))

MCRequestCandidates == Variants("request", Mold!request_packet)

MCSpanSizes ==
    [itch |-> {0, 12, 19, 23, 25, 31, 35, 36, 39, 40, 44, 45},
     ouch |-> {0, 10, 11, 12, 13, 40, 41, 42, 47, 48, 49},
     mold |-> {19, 20, 21}]

MCFills == {0, 255}

MCDamageValues == {0, 84}

MCMaxDamage == 1

=============================================================================
