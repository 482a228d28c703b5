------------------------------- MODULE ByteIo -------------------------------
(***************************************************************************)
(* The byte-level helpers every codec is built from                        *)
(* (include/fgep/wire/byte_io.hpp and fixed_ascii.hpp).                    *)
(*                                                                         *)
(* A std::span<std::byte> is a function from its offsets to bytes. An      *)
(* unsigned integer of w bytes is the function of its digits: value[k] is  *)
(* (value >> 8k) & 0xFF. So integers keep their width and no arithmetic on *)
(* 64-bit numbers is needed; comparisons go digit by digit.                *)
(***************************************************************************)
EXTENDS Integers, Sequences, FiniteSets

Byte == 0 .. 255

\* A buffer of n bytes.
Span(n) == [0 .. n - 1 -> Byte]

\* std::array<char, n>, and the char it holds.
FixedAscii(n) == [0 .. n - 1 -> Byte]

Uint(w) == [0 .. w - 1 -> Byte]

Zero(w) == [k \in 0 .. w - 1 |-> 0]

\* value > limit.
Exceeds(value, limit) ==
    \E k \in DOMAIN value :
        /\ value[k] > limit[k]
        /\ \A j \in DOMAIN value : j > k => value[j] = limit[j]

size(bytes) == Cardinality(DOMAIN bytes)

\* Result<T>.
Ok(value) == [error |-> "ok", value |-> value]

Failed(error) == [error |-> error, value |-> 0]

-----------------------------------------------------------------------------
has_range(bytes, offset, length) ==
    offset <= size(bytes) /\ length <= size(bytes) - offset

\* The first byte read has the highest weight.
ReadUint(bytes, offset, w) == [k \in 0 .. w - 1 |-> bytes[offset + (w - 1 - k)]]

read_u8(bytes, offset) ==
    IF has_range(bytes, offset, 1) THEN Ok(bytes[offset]) ELSE Failed("parse_error")

read_u16_be(bytes, offset) ==
    IF has_range(bytes, offset, 2) THEN Ok(ReadUint(bytes, offset, 2)) ELSE Failed("parse_error")

read_u32_be(bytes, offset) ==
    IF has_range(bytes, offset, 4) THEN Ok(ReadUint(bytes, offset, 4)) ELSE Failed("parse_error")

\* Six bytes into a uint64_t.
read_u48_be(bytes, offset) ==
    IF has_range(bytes, offset, 6)
    THEN Ok([k \in 0 .. 7 |-> IF k < 6 THEN bytes[offset + (5 - k)] ELSE 0])
    ELSE Failed("parse_error")

read_u64_be(bytes, offset) ==
    IF has_range(bytes, offset, 8) THEN Ok(ReadUint(bytes, offset, 8)) ELSE Failed("parse_error")

is_printable_ascii_or_space(byte) == byte >= 32 /\ byte <= 126

is_valid_fixed_ascii(value) ==
    \A k \in DOMAIN value : is_printable_ascii_or_space(value[k])

read_fixed_ascii(bytes, offset, n) ==
    LET value == [k \in 0 .. n - 1 |-> bytes[offset + k]]
    IN  IF has_range(bytes, offset, n) /\ is_valid_fixed_ascii(value)
        THEN Ok(value)
        ELSE Failed("parse_error")

-----------------------------------------------------------------------------
\* Writers are described by what they put at the i-th byte after their offset
\* and by their error; WireFields applies them to a span.

write_u8(value, i) == value

write_u16_be(value, i) == value[1 - i]

write_u32_be(value, i) == value[3 - i]

\* The value's two highest bytes are cut off; U48Error refuses them.
write_u48_be(value, i) == value[5 - i]

U48Error(value) ==
    IF value[6] # 0 \/ value[7] # 0 THEN "invalid_argument" ELSE "ok"

write_u64_be(value, i) == value[7 - i]

write_fixed_ascii(value, i) == value[i]

FixedAsciiError(value) ==
    IF is_valid_fixed_ascii(value) THEN "ok" ELSE "invalid_argument"

=============================================================================
