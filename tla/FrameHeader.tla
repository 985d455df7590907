------------------------------ MODULE FrameHeader -----------------------------
(***************************************************************************)
(* The nine bytes before every payload: write_header of frame/encode.rs    *)
(* and peek_header of frame/decode.rs.                                     *)
(***************************************************************************)
EXTENDS Integers, Sequences

Byte == 0 .. 255

\* SEEDED FAULT: the top byte is lost.
Put31Low(n) == <<0, (n \div 65536) % 256, (n \div 256) % 256, n % 256>>

\* put_u32 of a number whose top bit is clear, and StreamId::new of what get_u32
\* reads, which clears it.
Put31(n) == <<n \div 16777216, (n \div 65536) % 256, (n \div 256) % 256, n % 256>>
Get31(a, b, c, d) == (a % 128) * 16777216 + b * 65536 + c * 256 + d

\* write_header: the length field has the 24 low bits of the length.
WriteHeader(length, code, flags, id) ==
    LET stream == Put31(id)
    IN <<(length \div 65536) % 256, (length \div 256) % 256, length % 256,
         code, flags, stream[1], stream[2], stream[3], stream[4]>>

\* peek_header
PeekHeader(b) ==
    [length   |-> b[1] * 65536 + b[2] * 256 + b[3],
     code     |-> b[4],
     flags    |-> b[5],
     id       |-> Get31(b[6], b[7], b[8], b[9])]
===============================================================================
