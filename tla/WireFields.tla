----------------------------- MODULE WireFields -----------------------------
(***************************************************************************)
(* How the codecs read and write one field, and a message                  *)
(* laid out as a sequence of fields.                                       *)
(*                                                                         *)
(* A field names the reader or writer the code calls for it ("kind"), its  *)
(* offset and width, and for an enum its characters: the to_char table in  *)
(* an encoder's layout, the from_char table in a decoder's. A message is a *)
(* record of its type and its fields, the Header's three included.         *)
(***************************************************************************)
EXTENDS ByteIo, TLC

Field(kind, name, offset, width, codes) ==
    [kind |-> kind, name |-> name, offset |-> offset, width |-> width, codes |-> codes]

\* Fields at the offset the code's constants give them.
U16(offsets, name) == Field("u16", name, offsets[name], 2, <<>>)

U32(offsets, name) == Field("u32", name, offsets[name], 4, <<>>)

U48(offsets, name) == Field("u48", name, offsets[name], 6, <<>>)

U64(offsets, name) == Field("u64", name, offsets[name], 8, <<>>)

Ascii(offsets, name, n) == Field("ascii", name, offsets[name], n, <<>>)

Char(offsets, name) == Field("char", name, offsets[name], 1, <<>>)

Enum(offsets, name, codes) == Field("enum", name, offsets[name], 1, codes)

\* std::byte by std::byte, as write_appendage and write_session copy.
Bytes(offsets, name, n) == Field("bytes", name, offsets[name], n, <<>>)

\* The bytes a field occupies.
Covers(f, i) == f.offset <= i /\ i < f.offset + f.width

-----------------------------------------------------------------------------
\* The characters the protocols use.
Ch == [A |-> 65, B |-> 66, C |-> 67, D |-> 68, E |-> 69, F |-> 70, H |-> 72, I |-> 73,
       J |-> 74, K |-> 75, L |-> 76, M |-> 77, N |-> 78, O |-> 79, P |-> 80, Q |-> 81,
       R |-> 82, S |-> 83, T |-> 84, U |-> 85, V |-> 86, W |-> 87, X |-> 88, Y |-> 89,
       h |-> 104, zero |-> 48, three |-> 51, five |-> 53, six |-> 54]

\* A *_from_char function: its switch, whose default is parse_error.
from_char(codes, read) ==
    IF read.error = "ok" /\ read.value \in DOMAIN codes
    THEN Ok(codes[read.value])
    ELSE Failed("parse_error")

read_char(bytes, offset) == read_u8(bytes, offset)

\* Bytes of any value, as the MoldUDP64 session is read.
read_session(bytes, offset, n) ==
    IF has_range(bytes, offset, n)
    THEN Ok([k \in 0 .. n - 1 |-> bytes[offset + k]])
    ELSE Failed("parse_error")

ReadField(bytes, f) ==
    CASE f.kind = "u16" -> read_u16_be(bytes, f.offset)
      [] f.kind = "u32" -> read_u32_be(bytes, f.offset)
      [] f.kind = "u48" -> read_u48_be(bytes, f.offset)
      [] f.kind = "u64" -> read_u64_be(bytes, f.offset)
      [] f.kind = "ascii" -> read_fixed_ascii(bytes, f.offset, f.width)
      [] f.kind = "bytes" -> read_session(bytes, f.offset, f.width)
      [] f.kind = "char" -> read_char(bytes, f.offset)
      [] f.kind = "enum" -> from_char(f.codes, read_char(bytes, f.offset))

\* Every read of a layout succeeds, and the values read.
AllRead(bytes, layout) ==
    \A k \in DOMAIN layout : ReadField(bytes, layout[k]).error = "ok"

FieldNames(layout) == { layout[k].name : k \in DOMAIN layout }

ReadAll(bytes, layout) ==
    [name \in FieldNames(layout) |->
        ReadField(bytes, layout[CHOOSE k \in DOMAIN layout : layout[k].name = name]).value]

-----------------------------------------------------------------------------
\* What f's writer puts at the i-th byte of its extent.
WrittenByte(f, value, i) ==
    CASE f.kind = "u16" -> write_u16_be(value, i)
      [] f.kind = "u32" -> write_u32_be(value, i)
      [] f.kind = "u48" -> write_u48_be(value, i)
      [] f.kind = "u64" -> write_u64_be(value, i)
      [] f.kind \in {"ascii", "bytes"} -> write_fixed_ascii(value, i)
      [] f.kind = "char" -> write_u8(value, i)
      [] f.kind = "enum" -> write_u8(f.codes[value], i)

WriteError(bytes, f, value) ==
    IF ~has_range(bytes, f.offset, f.width) THEN "parse_error"
    ELSE IF f.kind = "u48" THEN U48Error(value)
    ELSE IF f.kind = "ascii" THEN FixedAsciiError(value)
    ELSE "ok"

\* The fields written one after the other, up to and not including `stop`: a
\* later field overwrites an earlier one where they overlap.
Written(bytes, layout, values, stop) ==
    [i \in DOMAIN bytes |->
        LET writers == { k \in 1 .. stop - 1 : Covers(layout[k], i) }
            last    == layout[CHOOSE k \in writers : \A j \in writers : j <= k]
        IN  IF writers = {}
            THEN bytes[i]
            ELSE WrittenByte(last, values[last.name], i - last.offset)]

\* The first write that fails ends the encoder; the bytes before it stay.
WriteAll(bytes, layout, values) ==
    LET failing == { k \in DOMAIN layout :
                       WriteError(bytes, layout[k], values[layout[k].name]) # "ok" }
        first   == CHOOSE k \in failing : \A j \in failing : k <= j
    IN  IF failing = {}
        THEN [error |-> "ok", bytes |-> Written(bytes, layout, values, Len(layout) + 1)]
        ELSE [error |-> WriteError(bytes, layout[first], values[layout[first].name]),
              bytes |-> Written(bytes, layout, values, first)]

\* An encoder that returns before its first write.
Refused(error, bytes) == [error |-> error, bytes |-> bytes]

=============================================================================
