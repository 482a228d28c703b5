---------------------------- MODULE OuchMessages ----------------------------
(***************************************************************************)
(* The OUCH 5.0 inbound codec: Enter, Replace and Cancel Order with their  *)
(* optional appendage (include/fgep/ouch/*.hpp, src/ouch/ouch_decode.cpp,  *)
(* ouch_encode.cpp).                                                       *)
(***************************************************************************)
EXTENDS WireFields

MessageType == [enter_order |-> Ch.O, replace_order |-> Ch.U, cancel_order |-> Ch.X]

message_type_from_char ==
    Ch.O :> "enter_order" @@ Ch.U :> "replace_order" @@ Ch.X :> "cancel_order"

-----------------------------------------------------------------------------
(* Enums and their from_char functions.                                    *)

Side == [buy |-> Ch.B, sell |-> Ch.S, sell_short |-> Ch.T, sell_short_exempt |-> Ch.E]

TimeInForce ==
    [day |-> Ch.zero, ioc |-> Ch.three, gtx |-> Ch.five, gtt |-> Ch.six, after_hours |-> Ch.E]

Display == [visible |-> Ch.Y, hidden |-> Ch.N, attributable |-> Ch.A]

Capacity == [agency |-> Ch.A, principal |-> Ch.P, riskless |-> Ch.R, other |-> Ch.O]

IntermarketSweepEligibility == [eligible |-> Ch.Y, not_eligible |-> Ch.N]

CrossType ==
    [continuous_market |-> Ch.N, opening_cross |-> Ch.O, closing_cross |-> Ch.C,
     halt_or_ipo |-> Ch.H, supplemental |-> Ch.S, retail |-> Ch.R, extended_life |-> Ch.E,
     after_hours_close |-> Ch.A]

side_from_char ==
    Ch.B :> "buy" @@ Ch.S :> "sell" @@ Ch.T :> "sell_short" @@ Ch.E :> "sell_short_exempt"

time_in_force_from_char ==
    Ch.zero :> "day" @@ Ch.three :> "ioc" @@ Ch.five :> "gtx" @@ Ch.six :> "gtt" @@
    Ch.E :> "after_hours"

display_from_char == Ch.Y :> "visible" @@ Ch.N :> "hidden" @@ Ch.A :> "attributable"

capacity_from_char ==
    Ch.A :> "agency" @@ Ch.P :> "principal" @@ Ch.R :> "riskless" @@ Ch.O :> "other"

intermarket_sweep_eligibility_from_char == Ch.Y :> "eligible" @@ Ch.N :> "not_eligible"

cross_type_from_char ==
    Ch.N :> "continuous_market" @@ Ch.O :> "opening_cross" @@ Ch.C :> "closing_cross" @@
    Ch.H :> "halt_or_ipo" @@ Ch.S :> "supplemental" @@ Ch.R :> "retail" @@
    Ch.E :> "extended_life" @@ Ch.A :> "after_hours_close"

-----------------------------------------------------------------------------
(* Lengths, offsets, validity.                                             *)

base_length == [enter_order |-> 47, replace_order |-> 40, cancel_order |-> 11]

enter_order_offset ==
    [type |-> 0, user_ref_num |-> 1, side |-> 5, quantity |-> 6, symbol |-> 10, price |-> 18,
     time_in_force |-> 26, display |-> 27, capacity |-> 28,
     intermarket_sweep_eligibility |-> 29, cross_type |-> 30, cl_ord_id |-> 31,
     appendage_length |-> 45, optional_appendage |-> 47]

replace_order_offset ==
    [type |-> 0, orig_user_ref_num |-> 1, user_ref_num |-> 5, quantity |-> 9, price |-> 13,
     time_in_force |-> 21, display |-> 22, intermarket_sweep_eligibility |-> 23,
     cl_ord_id |-> 24, appendage_length |-> 38, optional_appendage |-> 40]

cancel_order_offset ==
    [type |-> 0, user_ref_num |-> 1, quantity |-> 5, appendage_length |-> 9,
     optional_appendage |-> 11]

Positive(value) == \E k \in DOMAIN value : value[k] # 0

\* 999'999, the largest quantity below 1'000'000.
max_quantity == 0 :> 63 @@ 1 :> 66 @@ 2 :> 15 @@ 3 :> 0

is_valid_enter_or_replace_quantity(value) == Positive(value) /\ ~Exceeds(value, max_quantity)

is_valid_cancel_quantity(value) == ~Exceeds(value, max_quantity)

appendage_length_fits(appendage) == size(appendage) <= 65535

is_valid_enter_order_message(m) ==
    /\ Positive(m.user_ref_num)
    /\ is_valid_enter_or_replace_quantity(m.quantity)
    /\ Positive(m.price)
    /\ is_valid_fixed_ascii(m.symbol) /\ is_valid_fixed_ascii(m.cl_ord_id)
    /\ appendage_length_fits(m.optional_appendage)

is_valid_replace_order_message(m) ==
    /\ Positive(m.orig_user_ref_num) /\ Positive(m.user_ref_num)
    /\ m.orig_user_ref_num # m.user_ref_num
    /\ is_valid_enter_or_replace_quantity(m.quantity)
    /\ Positive(m.price)
    /\ is_valid_fixed_ascii(m.cl_ord_id)
    /\ appendage_length_fits(m.optional_appendage)

is_valid_cancel_order_message(m) ==
    /\ Positive(m.user_ref_num)
    /\ is_valid_cancel_quantity(m.quantity)
    /\ appendage_length_fits(m.optional_appendage)

IsValid(m) ==
    CASE m.type = "enter_order" -> is_valid_enter_order_message(m)
      [] m.type = "replace_order" -> is_valid_replace_order_message(m)
      [] m.type = "cancel_order" -> is_valid_cancel_order_message(m)

encoded_length(m) == base_length[m.type] + size(m.optional_appendage)

-----------------------------------------------------------------------------
(* Decoders. appendage_length is read with the other fields and dropped.   *)

decode_enter_order_message ==
    LET o == enter_order_offset
    IN  <<U32(o, "user_ref_num"), Enum(o, "side", side_from_char), U32(o, "quantity"),
          Ascii(o, "symbol", 8), U64(o, "price"),
          Enum(o, "time_in_force", time_in_force_from_char),
          Enum(o, "display", display_from_char), Enum(o, "capacity", capacity_from_char),
          Enum(o, "intermarket_sweep_eligibility", intermarket_sweep_eligibility_from_char),
          Enum(o, "cross_type", cross_type_from_char), Ascii(o, "cl_ord_id", 14),
          U16(o, "appendage_length")>>

decode_replace_order_message ==
    LET o == replace_order_offset
    IN  <<U32(o, "orig_user_ref_num"), U32(o, "user_ref_num"), U32(o, "quantity"),
          U64(o, "price"), Enum(o, "time_in_force", time_in_force_from_char),
          Enum(o, "display", display_from_char),
          Enum(o, "intermarket_sweep_eligibility", intermarket_sweep_eligibility_from_char),
          Ascii(o, "cl_ord_id", 14), U16(o, "appendage_length")>>

decode_cancel_order_message ==
    LET o == cancel_order_offset
    IN  <<U32(o, "user_ref_num"), U32(o, "quantity"), U16(o, "appendage_length")>>

decode_message_type(bytes) == from_char(message_type_from_char, read_char(bytes, 0))

require_minimum_length(bytes, minimum) ==
    IF size(bytes) < minimum THEN "parse_error" ELSE "ok"

\* Mutant of require_appendage_exact_length: bytes after the appendage are kept.
require_appendage_minimum_length(bytes, base, length) ==
    IF size(bytes) < base + (length[0] + 256 * length[1]) THEN "parse_error" ELSE "ok"

require_appendage_exact_length(bytes, base, length) ==
    IF size(bytes) # base + (length[0] + 256 * length[1]) THEN "parse_error" ELSE "ok"

\* One of the three decoders, given the fields it reads. The appendage is what
\* is left of the span.
Decode(bytes, type, layout) ==
    LET base   == base_length[type]
        fields == ReadAll(bytes, layout)
        message == [name \in (FieldNames(layout) \ {"appendage_length"})
                               \cup {"type", "optional_appendage"} |->
                      CASE name = "type" -> type
                        [] name = "optional_appendage" ->
                             [i \in 0 .. size(bytes) - base - 1 |-> bytes[base + i]]
                        [] OTHER -> fields[name]]
    IN  IF /\ require_minimum_length(bytes, base) = "ok"
           /\ AllRead(bytes, layout)
           /\ require_appendage_exact_length(bytes, base, fields.appendage_length) = "ok"
           /\ IsValid(message)
        THEN Ok(message)
        ELSE Failed("parse_error")

decode_message(bytes) ==
    LET type    == decode_message_type(bytes)
        decoder == [enter_order |-> decode_enter_order_message,
                    replace_order |-> decode_replace_order_message,
                    cancel_order |-> decode_cancel_order_message]
    IN  IF type.error # "ok"
        THEN Failed(type.error)
        ELSE Decode(bytes, type.value, decoder[type.value])

-----------------------------------------------------------------------------
(* Encoders, for an appendage of n bytes.                                  *)

write_appendage(offsets, n) ==
    <<U16(offsets, "appendage_length"), Bytes(offsets, "optional_appendage", n)>>

encode_enter_order_message(n) ==
    LET o == enter_order_offset
    IN  <<Enum(o, "type", MessageType), U32(o, "user_ref_num"), Enum(o, "side", Side),
          U32(o, "quantity"), Ascii(o, "symbol", 8), U64(o, "price"),
          Enum(o, "time_in_force", TimeInForce), Enum(o, "display", Display),
          Enum(o, "capacity", Capacity),
          Enum(o, "intermarket_sweep_eligibility", IntermarketSweepEligibility),
          Enum(o, "cross_type", CrossType), Ascii(o, "cl_ord_id", 14)>>
        \o write_appendage(o, n)

encode_replace_order_message(n) ==
    LET o == replace_order_offset
    IN  <<Enum(o, "type", MessageType), U32(o, "orig_user_ref_num"), U32(o, "user_ref_num"),
          U32(o, "quantity"), U64(o, "price"), Enum(o, "time_in_force", TimeInForce),
          Enum(o, "display", Display),
          Enum(o, "intermarket_sweep_eligibility", IntermarketSweepEligibility),
          Ascii(o, "cl_ord_id", 14)>>
        \o write_appendage(o, n)

encode_cancel_order_message(n) ==
    LET o == cancel_order_offset
    IN  <<Enum(o, "type", MessageType), U32(o, "user_ref_num"), U32(o, "quantity")>>
        \o write_appendage(o, n)

\* static_cast<AppendageLength>(size).
AppendageLength(n) == 0 :> n % 256 @@ 1 :> (n \div 256) % 256

encode_message(bytes, message) ==
    LET n       == size(message.optional_appendage)
        encoder == [enter_order |-> encode_enter_order_message(n),
                    replace_order |-> encode_replace_order_message(n),
                    cancel_order |-> encode_cancel_order_message(n)]
        values  == ("appendage_length" :> AppendageLength(n)) @@ message
    IN  IF size(bytes) # encoded_length(message) THEN Refused("parse_error", bytes)
        ELSE IF ~IsValid(message) THEN Refused("invalid_argument", bytes)
        ELSE WriteAll(bytes, encoder[message.type], values)

=============================================================================
