---------------------------- MODULE ItchMessages ----------------------------
(***************************************************************************)
(* The Nasdaq TotalView-ITCH 5.0 codec: message types, field layouts,      *)
(* validity rules, decode_message and encode_message                       *)
(* (include/fgep/itch/*.hpp, src/itch/itch_decode.cpp, itch_encode.cpp).   *)
(* Encoders and decoders have a layout each, as each has a function in the *)
(* code; what they share in the code (offsets, enums, validity) is shared  *)
(* here.                                                                   *)
(***************************************************************************)
EXTENDS WireFields

-----------------------------------------------------------------------------
(* Types and lengths.                                                      *)

MessageType ==
    [system_event |-> Ch.S, stock_directory |-> Ch.R, stock_trading_action |-> Ch.H,
     reg_sho_restriction |-> Ch.Y, market_participant_position |-> Ch.L,
     mwcb_decline_level |-> Ch.V, mwcb_status |-> Ch.W,
     ipo_quoting_period_update |-> Ch.K, luld_auction_collar |-> Ch.J,
     operational_halt |-> Ch.h, add_order_no_mpid |-> Ch.A, add_order_with_mpid |-> Ch.F,
     order_executed |-> Ch.E, order_executed_with_price |-> Ch.C, order_cancel |-> Ch.X,
     order_delete |-> Ch.D, order_replace |-> Ch.U, trade_non_cross |-> Ch.P,
     cross_trade |-> Ch.Q, broken_trade |-> Ch.B, noii |-> Ch.I,
     retail_price_improvement_indicator |-> Ch.N,
     direct_listing_with_capital_raise |-> Ch.O]

message_type_from_char ==
    Ch.S :> "system_event" @@ Ch.R :> "stock_directory" @@ Ch.H :> "stock_trading_action" @@
    Ch.Y :> "reg_sho_restriction" @@ Ch.L :> "market_participant_position" @@
    Ch.V :> "mwcb_decline_level" @@ Ch.W :> "mwcb_status" @@
    Ch.K :> "ipo_quoting_period_update" @@ Ch.J :> "luld_auction_collar" @@
    Ch.h :> "operational_halt" @@ Ch.A :> "add_order_no_mpid" @@
    Ch.F :> "add_order_with_mpid" @@ Ch.E :> "order_executed" @@
    Ch.C :> "order_executed_with_price" @@ Ch.X :> "order_cancel" @@
    Ch.D :> "order_delete" @@ Ch.U :> "order_replace" @@ Ch.P :> "trade_non_cross" @@
    Ch.Q :> "cross_trade" @@ Ch.B :> "broken_trade" @@ Ch.I :> "noii" @@
    Ch.N :> "retail_price_improvement_indicator" @@
    Ch.O :> "direct_listing_with_capital_raise"

\* message_length; the types it does not list are unsupported.
message_length ==
    [system_event |-> 12, add_order_no_mpid |-> 36, add_order_with_mpid |-> 40,
     order_executed |-> 31, order_executed_with_price |-> 36, order_cancel |-> 23,
     order_delete |-> 19, order_replace |-> 35, trade_non_cross |-> 44,
     cross_trade |-> 40, broken_trade |-> 19, stock_directory |-> 39,
     stock_trading_action |-> 25]

is_encode_supported(type) ==
    type \in {"system_event", "stock_directory", "stock_trading_action",
              "add_order_no_mpid", "add_order_with_mpid", "order_executed",
              "order_executed_with_price", "order_cancel", "order_delete",
              "order_replace", "trade_non_cross", "cross_trade", "broken_trade"}

-----------------------------------------------------------------------------
(* Enums: their characters, and their from_char functions.                 *)

SystemEventCode ==
    [start_of_messages |-> Ch.O, start_of_system_hours |-> Ch.S,
     start_of_market_hours |-> Ch.Q, end_of_market_hours |-> Ch.M,
     end_of_system_hours |-> Ch.E, end_of_messages |-> Ch.C]

Side == [buy |-> Ch.B, sell |-> Ch.S]

Printable == [non_printable |-> Ch.N, printable |-> Ch.Y]

CrossType == [opening_cross |-> Ch.O, closing_cross |-> Ch.C, ipo_or_halted |-> Ch.H]

TradingState ==
    [halted |-> Ch.H, paused |-> Ch.P, quotation_only |-> Ch.Q, trading |-> Ch.T]

system_event_code_from_char ==
    Ch.O :> "start_of_messages" @@ Ch.S :> "start_of_system_hours" @@
    Ch.Q :> "start_of_market_hours" @@ Ch.M :> "end_of_market_hours" @@
    Ch.E :> "end_of_system_hours" @@ Ch.C :> "end_of_messages"

side_from_char == Ch.B :> "buy" @@ Ch.S :> "sell"

printable_from_char == Ch.N :> "non_printable" @@ Ch.Y :> "printable"

cross_type_from_char ==
    Ch.O :> "opening_cross" @@ Ch.C :> "closing_cross" @@ Ch.H :> "ipo_or_halted"

trading_state_from_char ==
    Ch.H :> "halted" @@ Ch.P :> "paused" @@ Ch.Q :> "quotation_only" @@ Ch.T :> "trading"

-----------------------------------------------------------------------------
(* Offsets.                                                                *)

header_offset == [type |-> 0, stock_locate |-> 1, tracking_number |-> 3, timestamp_ns |-> 5]

system_event_offset == [event_code |-> 11]

add_order_offset ==
    [order_reference_number |-> 11, side |-> 19, shares |-> 20, stock |-> 24, price |-> 32]

add_order_with_mpid_offset == add_order_offset @@ [attribution |-> 36]

order_executed_offset ==
    [order_reference_number |-> 11, executed_shares |-> 19, match_number |-> 23]

order_executed_with_price_offset ==
    [order_reference_number |-> 11, executed_shares |-> 19, match_number |-> 23,
     printable |-> 31, execution_price |-> 32]

order_cancel_offset == [order_reference_number |-> 11, cancelled_shares |-> 19]

order_delete_offset == [order_reference_number |-> 11]

\* Mutant of order_replace_offset: price one byte early, over the last of shares.
order_replace_offset_overlapping ==
    [original_order_reference_number |-> 11, new_order_reference_number |-> 19,
     shares |-> 27, price |-> 30]

order_replace_offset ==
    [original_order_reference_number |-> 11, new_order_reference_number |-> 19,
     shares |-> 27, price |-> 31]

trade_non_cross_offset ==
    [order_reference_number |-> 11, side |-> 19, shares |-> 20, stock |-> 24,
     price |-> 32, match_number |-> 36]

cross_trade_offset ==
    [shares |-> 11, stock |-> 19, cross_price |-> 27, match_number |-> 31, cross_type |-> 39]

broken_trade_offset == [match_number |-> 11]

stock_directory_offset ==
    [stock |-> 11, market_category |-> 19, financial_status_indicator |-> 20,
     round_lot_size |-> 21, round_lots_only |-> 25, issue_classification |-> 26,
     issue_sub_type |-> 27, authenticity |-> 29, short_sale_threshold_indicator |-> 30,
     ipo_flag |-> 31, luld_reference_price_tier |-> 32, etp_flag |-> 33,
     etp_leverage_factor |-> 34, inverse_indicator |-> 38]

stock_trading_action_offset ==
    [stock |-> 11, trading_state |-> 19, reserved |-> 20, reason |-> 21]

-----------------------------------------------------------------------------
(* Validity.                                                               *)

\* 86'400'000'000'000 - 1, as digits.
max_timestamp_ns_since_midnight ==
    0 :> 255 @@ 1 :> 255 @@ 2 :> 78 @@ 3 :> 145 @@ 4 :> 148 @@ 5 :> 78 @@ 6 :> 0 @@ 7 :> 0

is_valid_timestamp_ns(value) == ~Exceeds(value, max_timestamp_ns_since_midnight)

Positive(value) == \E k \in DOMAIN value : value[k] # 0

is_valid_header_for_stock_message(m) ==
    Positive(m.stock_locate) /\ is_valid_timestamp_ns(m.timestamp_ns)

\* Also require_valid_system_event_for_encode.
require_valid_system_event_header(m) ==
    ~Positive(m.stock_locate) /\ is_valid_timestamp_ns(m.timestamp_ns)

is_valid_add_order_no_mpid_message(m) ==
    /\ is_valid_header_for_stock_message(m)
    /\ Positive(m.order_reference_number) /\ Positive(m.shares) /\ Positive(m.price)
    /\ is_valid_fixed_ascii(m.stock)

is_valid_add_order_with_mpid_message(m) ==
    /\ is_valid_header_for_stock_message(m)
    /\ Positive(m.order_reference_number) /\ Positive(m.shares) /\ Positive(m.price)
    /\ is_valid_fixed_ascii(m.stock) /\ is_valid_fixed_ascii(m.attribution)

is_valid_order_executed_message(m) ==
    /\ is_valid_header_for_stock_message(m)
    /\ Positive(m.order_reference_number) /\ Positive(m.executed_shares)
    /\ Positive(m.match_number)

is_valid_order_executed_with_price_message(m) ==
    /\ is_valid_header_for_stock_message(m)
    /\ Positive(m.order_reference_number) /\ Positive(m.executed_shares)
    /\ Positive(m.match_number) /\ Positive(m.execution_price)

is_valid_order_cancel_message(m) ==
    /\ is_valid_header_for_stock_message(m)
    /\ Positive(m.order_reference_number) /\ Positive(m.cancelled_shares)

is_valid_order_delete_message(m) ==
    is_valid_header_for_stock_message(m) /\ Positive(m.order_reference_number)

is_valid_order_replace_message(m) ==
    /\ is_valid_header_for_stock_message(m)
    /\ Positive(m.original_order_reference_number) /\ Positive(m.new_order_reference_number)
    /\ m.original_order_reference_number # m.new_order_reference_number
    /\ Positive(m.shares) /\ Positive(m.price)

\* The order reference number is not looked at.
is_valid_trade_non_cross_message(m) ==
    /\ is_valid_header_for_stock_message(m)
    /\ Positive(m.shares) /\ Positive(m.price) /\ Positive(m.match_number)
    /\ is_valid_fixed_ascii(m.stock)

is_valid_cross_trade_message(m) ==
    /\ is_valid_header_for_stock_message(m)
    /\ Positive(m.shares) /\ Positive(m.cross_price) /\ Positive(m.match_number)
    /\ is_valid_fixed_ascii(m.stock)

is_valid_broken_trade_message(m) ==
    is_valid_header_for_stock_message(m) /\ Positive(m.match_number)

is_valid_stock_directory_message(m) ==
    /\ is_valid_header_for_stock_message(m)
    /\ is_valid_fixed_ascii(m.stock) /\ is_valid_fixed_ascii(m.issue_sub_type)
    /\ \A char \in {m.market_category, m.financial_status_indicator, m.round_lots_only,
                    m.issue_classification, m.authenticity,
                    m.short_sale_threshold_indicator, m.ipo_flag,
                    m.luld_reference_price_tier, m.etp_flag, m.inverse_indicator} :
          is_printable_ascii_or_space(char)

is_valid_stock_trading_action_message(m) ==
    /\ is_valid_header_for_stock_message(m)
    /\ is_valid_fixed_ascii(m.stock) /\ is_printable_ascii_or_space(m.reserved)
    /\ is_valid_fixed_ascii(m.reason)

IsValid(m) ==
    CASE m.type = "system_event" -> require_valid_system_event_header(m)
      [] m.type = "stock_directory" -> is_valid_stock_directory_message(m)
      [] m.type = "stock_trading_action" -> is_valid_stock_trading_action_message(m)
      [] m.type = "add_order_no_mpid" -> is_valid_add_order_no_mpid_message(m)
      [] m.type = "add_order_with_mpid" -> is_valid_add_order_with_mpid_message(m)
      [] m.type = "order_executed" -> is_valid_order_executed_message(m)
      [] m.type = "order_executed_with_price" -> is_valid_order_executed_with_price_message(m)
      [] m.type = "order_cancel" -> is_valid_order_cancel_message(m)
      [] m.type = "order_delete" -> is_valid_order_delete_message(m)
      [] m.type = "order_replace" -> is_valid_order_replace_message(m)
      [] m.type = "trade_non_cross" -> is_valid_trade_non_cross_message(m)
      [] m.type = "cross_trade" -> is_valid_cross_trade_message(m)
      [] m.type = "broken_trade" -> is_valid_broken_trade_message(m)

-----------------------------------------------------------------------------
(* Decoders: the fields each reads after type, length and header.          *)

decode_header ==
    LET o == header_offset
    IN  <<U16(o, "stock_locate"), U16(o, "tracking_number"), U48(o, "timestamp_ns")>>

decode_system_event_message ==
    LET o == system_event_offset IN <<Enum(o, "event_code", system_event_code_from_char)>>

decode_stock_directory_message ==
    LET o == stock_directory_offset
    IN  <<Ascii(o, "stock", 8), Char(o, "market_category"),
          Char(o, "financial_status_indicator"), U32(o, "round_lot_size"),
          Char(o, "round_lots_only"), Char(o, "issue_classification"),
          Ascii(o, "issue_sub_type", 2), Char(o, "authenticity"),
          Char(o, "short_sale_threshold_indicator"), Char(o, "ipo_flag"),
          Char(o, "luld_reference_price_tier"), Char(o, "etp_flag"),
          U32(o, "etp_leverage_factor"), Char(o, "inverse_indicator")>>

decode_stock_trading_action_message ==
    LET o == stock_trading_action_offset
    IN  <<Ascii(o, "stock", 8), Enum(o, "trading_state", trading_state_from_char),
          Char(o, "reserved"), Ascii(o, "reason", 4)>>

decode_add_order_no_mpid_message ==
    LET o == add_order_offset
    IN  <<U64(o, "order_reference_number"), Enum(o, "side", side_from_char), U32(o, "shares"),
          Ascii(o, "stock", 8), U32(o, "price")>>

decode_add_order_with_mpid_message ==
    LET o == add_order_with_mpid_offset
    IN  <<U64(o, "order_reference_number"), Enum(o, "side", side_from_char), U32(o, "shares"),
          Ascii(o, "stock", 8), U32(o, "price"), Ascii(o, "attribution", 4)>>

decode_order_executed_message ==
    LET o == order_executed_offset
    IN  <<U64(o, "order_reference_number"), U32(o, "executed_shares"),
          U64(o, "match_number")>>

decode_order_executed_with_price_message ==
    LET o == order_executed_with_price_offset
    IN  <<U64(o, "order_reference_number"), U32(o, "executed_shares"), U64(o, "match_number"),
          Enum(o, "printable", printable_from_char), U32(o, "execution_price")>>

decode_order_cancel_message ==
    LET o == order_cancel_offset
    IN  <<U64(o, "order_reference_number"), U32(o, "cancelled_shares")>>

decode_order_delete_message ==
    LET o == order_delete_offset IN <<U64(o, "order_reference_number")>>

decode_order_replace_message ==
    LET o == order_replace_offset
    IN  <<U64(o, "original_order_reference_number"), U64(o, "new_order_reference_number"),
          U32(o, "shares"), U32(o, "price")>>

decode_trade_non_cross_message ==
    LET o == trade_non_cross_offset
    IN  <<U64(o, "order_reference_number"), Enum(o, "side", side_from_char), U32(o, "shares"),
          Ascii(o, "stock", 8), U32(o, "price"), U64(o, "match_number")>>

decode_cross_trade_message ==
    LET o == cross_trade_offset
    IN  <<U64(o, "shares"), Ascii(o, "stock", 8), U32(o, "cross_price"),
          U64(o, "match_number"), Enum(o, "cross_type", cross_type_from_char)>>

decode_broken_trade_message ==
    LET o == broken_trade_offset IN <<U64(o, "match_number")>>

decode_message_type(bytes) ==
    from_char(message_type_from_char, read_char(bytes, header_offset.type))

require_exact_message_type_and_length(bytes, type) ==
    LET decoded == decode_message_type(bytes)
    IN  IF decoded.error # "ok" THEN decoded.error
        ELSE IF decoded.value # type THEN "parse_error"
        ELSE IF type \notin DOMAIN message_length THEN "unsupported"
        ELSE IF size(bytes) # message_length[type] THEN "parse_error"
        ELSE "ok"

\* One of the thirteen decoders, given the fields it reads. A header or a field
\* that cannot be read and a message that is not valid are all parse_error.
Decode(bytes, type, body) ==
    LET error   == require_exact_message_type_and_length(bytes, type)
        layout  == decode_header \o body
        message == ("type" :> type) @@ ReadAll(bytes, layout)
    IN  IF error # "ok" THEN Failed(error)
        ELSE IF AllRead(bytes, layout) /\ IsValid(message) THEN Ok(message)
        ELSE Failed("parse_error")

decode_message(bytes) ==
    LET type    == decode_message_type(bytes)
        decoder ==
            CASE type.value = "system_event" -> decode_system_event_message
              [] type.value = "stock_directory" -> decode_stock_directory_message
              [] type.value = "stock_trading_action" -> decode_stock_trading_action_message
              [] type.value = "add_order_no_mpid" -> decode_add_order_no_mpid_message
              [] type.value = "add_order_with_mpid" -> decode_add_order_with_mpid_message
              [] type.value = "order_executed" -> decode_order_executed_message
              [] type.value = "order_executed_with_price" -> decode_order_executed_with_price_message
              [] type.value = "order_cancel" -> decode_order_cancel_message
              [] type.value = "order_delete" -> decode_order_delete_message
              [] type.value = "order_replace" -> decode_order_replace_message
              [] type.value = "trade_non_cross" -> decode_trade_non_cross_message
              [] type.value = "cross_trade" -> decode_cross_trade_message
              [] type.value = "broken_trade" -> decode_broken_trade_message
    IN  IF type.error # "ok" THEN Failed(type.error)
        ELSE IF type.value \in DOMAIN message_length
        THEN Decode(bytes, type.value, decoder)
        ELSE Failed("unsupported")

-----------------------------------------------------------------------------
(* Encoders: the fields each writes after the checks, type and header.     *)

encode_message_type == <<Enum(header_offset, "type", MessageType)>>

encode_header ==
    LET o == header_offset
    IN  <<U16(o, "stock_locate"), U16(o, "tracking_number"), U48(o, "timestamp_ns")>>

encode_system_event_message ==
    LET o == system_event_offset IN <<Enum(o, "event_code", SystemEventCode)>>

encode_stock_directory_message ==
    LET o == stock_directory_offset
    IN  <<Ascii(o, "stock", 8), Char(o, "market_category"),
          Char(o, "financial_status_indicator"), U32(o, "round_lot_size"),
          Char(o, "round_lots_only"), Char(o, "issue_classification"),
          Ascii(o, "issue_sub_type", 2), Char(o, "authenticity"),
          Char(o, "short_sale_threshold_indicator"), Char(o, "ipo_flag"),
          Char(o, "luld_reference_price_tier"), Char(o, "etp_flag"),
          U32(o, "etp_leverage_factor"), Char(o, "inverse_indicator")>>

encode_stock_trading_action_message ==
    LET o == stock_trading_action_offset
    IN  <<Ascii(o, "stock", 8), Enum(o, "trading_state", TradingState), Char(o, "reserved"),
          Ascii(o, "reason", 4)>>

encode_add_order_no_mpid_message ==
    LET o == add_order_offset
    IN  <<U64(o, "order_reference_number"), Enum(o, "side", Side), U32(o, "shares"),
          Ascii(o, "stock", 8), U32(o, "price")>>

encode_add_order_with_mpid_message ==
    LET o == add_order_with_mpid_offset
    IN  <<U64(o, "order_reference_number"), Enum(o, "side", Side), U32(o, "shares"),
          Ascii(o, "stock", 8), U32(o, "price"), Ascii(o, "attribution", 4)>>

encode_order_executed_message ==
    LET o == order_executed_offset
    IN  <<U64(o, "order_reference_number"), U32(o, "executed_shares"),
          U64(o, "match_number")>>

encode_order_executed_with_price_message ==
    LET o == order_executed_with_price_offset
    IN  <<U64(o, "order_reference_number"), U32(o, "executed_shares"), U64(o, "match_number"),
          Enum(o, "printable", Printable), U32(o, "execution_price")>>

encode_order_cancel_message ==
    LET o == order_cancel_offset
    IN  <<U64(o, "order_reference_number"), U32(o, "cancelled_shares")>>

encode_order_delete_message ==
    LET o == order_delete_offset IN <<U64(o, "order_reference_number")>>

encode_order_replace_message ==
    LET o == order_replace_offset
    IN  <<U64(o, "original_order_reference_number"), U64(o, "new_order_reference_number"),
          U32(o, "shares"), U32(o, "price")>>

encode_trade_non_cross_message ==
    LET o == trade_non_cross_offset
    IN  <<U64(o, "order_reference_number"), Enum(o, "side", Side), U32(o, "shares"),
          Ascii(o, "stock", 8), U32(o, "price"), U64(o, "match_number")>>

encode_cross_trade_message ==
    LET o == cross_trade_offset
    IN  <<U64(o, "shares"), Ascii(o, "stock", 8), U32(o, "cross_price"),
          U64(o, "match_number"), Enum(o, "cross_type", CrossType)>>

encode_broken_trade_message ==
    LET o == broken_trade_offset IN <<U64(o, "match_number")>>

require_exact_encode_length(bytes, type) ==
    IF ~is_encode_supported(type) \/ type \notin DOMAIN message_length THEN "unsupported"
    ELSE IF size(bytes) # message_length[type] THEN "parse_error"
    ELSE "ok"

\* Mutant of Encode: validity is looked at after the writes.
EncodeThenValidate(bytes, message, body) ==
    LET error   == require_exact_encode_length(bytes, message.type)
        written == WriteAll(bytes, encode_message_type \o encode_header \o body, message)
    IN  IF error # "ok" THEN Refused(error, bytes)
        ELSE IF ~IsValid(message) THEN Refused("invalid_argument", written.bytes)
        ELSE written

\* One of the thirteen encoders, given the fields it writes: length, validity,
\* then the writes.
Encode(bytes, message, body) ==
    LET error == require_exact_encode_length(bytes, message.type)
    IN  IF error # "ok" THEN Refused(error, bytes)
        ELSE IF ~IsValid(message) THEN Refused("invalid_argument", bytes)
        ELSE WriteAll(bytes, encode_message_type \o encode_header \o body, message)

encode_message(bytes, message) ==
    LET encoder ==
            CASE message.type = "system_event" -> encode_system_event_message
              [] message.type = "stock_directory" -> encode_stock_directory_message
              [] message.type = "stock_trading_action" -> encode_stock_trading_action_message
              [] message.type = "add_order_no_mpid" -> encode_add_order_no_mpid_message
              [] message.type = "add_order_with_mpid" -> encode_add_order_with_mpid_message
              [] message.type = "order_executed" -> encode_order_executed_message
              [] message.type = "order_executed_with_price" -> encode_order_executed_with_price_message
              [] message.type = "order_cancel" -> encode_order_cancel_message
              [] message.type = "order_delete" -> encode_order_delete_message
              [] message.type = "order_replace" -> encode_order_replace_message
              [] message.type = "trade_non_cross" -> encode_trade_non_cross_message
              [] message.type = "cross_trade" -> encode_cross_trade_message
              [] message.type = "broken_trade" -> encode_broken_trade_message
    IN  Encode(bytes, message, encoder)

=============================================================================
