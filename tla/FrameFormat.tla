------------------------------ MODULE FrameFormat -----------------------------
(***************************************************************************)
(* frame/types.rs, frame/encode.rs and frame/decode.rs: frames as bytes.   *)
(* Frames has the lengths and the conditions on them; here are the bytes   *)
(* themselves, with type codes, flags and fields at their places.          *)
(*                                                                         *)
(* A frame is a record with the fields of its struct.  Payload data are    *)
(* bytes; a u32 that may use its top bit is two u16, <<high, low>>; an     *)
(* optional priority is a sequence of none or one.                         *)
(***************************************************************************)
EXTENDS FrameHeader, Frames, SequencesExt

\* FrameType: the codes 0 to 9.
TypeNames == <<"DATA", "HEADERS", "PRIORITY", "RST_STREAM", "SETTINGS", "PUSH_PROMISE", "PING",
               "GOAWAY", "WINDOW_UPDATE", "CONTINUATION">>
KnownCode(code) == code < Len(TypeNames)
TypeOfCode(code) == IF KnownCode(code) THEN TypeNames[code + 1] ELSE "UNKNOWN"

\* flags
END_STREAM  == 1
ACK         == 1
END_HEADERS == 4
PADDED      == 8
PRIORITY    == 32
HasFlag(flags, flag) == (flags \div flag) % 2 = 1
Flag(on, flag) == IF on THEN flag ELSE 0

\* SettingId
SettingCode(id) == CASE id = "HeaderTableSize" -> 1
                     [] id = "EnablePush" -> 2
                     [] id = "MaxConcurrentStreams" -> 3
                     [] id = "InitialWindowSize" -> 4
                     [] id = "MaxFrameSize" -> 5
                     [] id = "MaxHeaderListSize" -> 6
SettingOf(code) == CASE code = 1 -> "HeaderTableSize"
                     [] code = 2 -> "EnablePush"
                     [] code = 3 -> "MaxConcurrentStreams"
                     [] code = 4 -> "InitialWindowSize"
                     [] code = 5 -> "MaxFrameSize"
                     [] code = 6 -> "MaxHeaderListSize"
                     [] OTHER -> "Unknown"

Put16(n) == <<n \div 256, n % 256>>
Get16(a, b) == 256 * a + b
PutU32(u) == Put16(u[1]) \o Put16(u[2])
GetU32(b, at) == <<Get16(b[at], b[at + 1]), Get16(b[at + 2], b[at + 3])>>
GetId(b, at) == Get31(b[at], b[at + 1], b[at + 2], b[at + 3])
-------------------------------------------------------------------------------
\* The stream dependency, its top bit the exclusive flag, and the weight.
PutPriority(p) == LET id == Put31(p.dependency)
                  IN <<id[1] + Flag(p.exclusive, 128), id[2], id[3], id[4], p.weight>>
GetPriority(b) == [exclusive |-> b[1] >= 128, dependency |-> GetId(b, 1), weight |-> b[5]]

PutSettings(settings) ==
    FlattenSeq([k \in DOMAIN settings |-> Put16(settings[k].code) \o PutU32(settings[k].value)])
GetSettings(b) ==
    [k \in 1 .. Len(b) \div 6 |-> [code  |-> Get16(b[6 * k - 5], b[6 * k - 4]),
                                   value |-> GetU32(b, 6 * k - 3)]]

\* validate_setting
ValidSetting(s) ==
    /\ SettingOf(s.code) = "EnablePush" => s.value \in {<<0, 0>>, <<0, 1>>}
    /\ SettingOf(s.code) = "InitialWindowSize" => s.value[1] < 32768
    /\ SettingOf(s.code) = "MaxFrameSize" =>
          s.value[1] < 256 /\ (s.value[1] = 0 => s.value[2] >= 16384)
-------------------------------------------------------------------------------
\* Numbers of so many bits, and payloads that a header can announce.
Word16 == {n \in Nat : n < 65536}
Word24 == {n \in Nat : n < 16777216}
Word31 == {n \in Nat : n <= 2147483647}
Word32 == Word16 \X Word16
ByteString == Seq(Byte)

\* Priority, Setting, StreamId, and the frames that a peer accepts: on a stream
\* where they have to be, with settings within their limits and an increment.
Priority == [exclusive: BOOLEAN, dependency: Word31, weight: Byte]
Setting  == {s \in [code: Word16, value: Word32] : ValidSetting(s)}
StreamId == Word31 \ {0}
Sendable ==
    [type: {"DATA"}, id: StreamId, endStream: BOOLEAN, data: ByteString]
    \cup [type: {"HEADERS"}, id: StreamId, endStream: BOOLEAN, endHeaders: BOOLEAN,
          priority: {p \in Seq(Priority) : Len(p) <= 1}, block: ByteString]
    \cup [type: {"PRIORITY"}, id: StreamId, priority: Priority]
    \cup [type: {"RST_STREAM"}, id: StreamId, error: Word32]
    \cup [type: {"SETTINGS"}, ack: {FALSE}, settings: Seq(Setting)]
    \cup [type: {"SETTINGS"}, ack: {TRUE}, settings: {<<>>}]
    \cup [type: {"PUSH_PROMISE"}, id: StreamId, endHeaders: BOOLEAN, promised: Word31,
          block: ByteString]
    \cup [type: {"PING"}, ack: BOOLEAN, data: {d \in ByteString : Len(d) = 8}]
    \cup [type: {"GOAWAY"}, last: Word31, error: Word32, data: ByteString]
    \cup [type: {"WINDOW_UPDATE"}, id: Word31, increment: Word31 \ {0}]
    \cup [type: {"CONTINUATION"}, id: StreamId, endHeaders: BOOLEAN, block: ByteString]
    \cup [type: {"UNKNOWN"}, code: 10 .. 255, flags: Byte, id: Word31, data: ByteString]
-------------------------------------------------------------------------------
\* encode_*: code, flags, stream and payload.
CodeOfType(f) == IF f.type = "UNKNOWN" THEN f.code
                 ELSE CHOOSE code \in 0 .. 9 : TypeOfCode(code) = f.type

FlagsOf(f) ==
    CASE f.type = "DATA" -> Flag(f.endStream, END_STREAM)
      [] f.type = "HEADERS" -> Flag(f.endStream, END_STREAM) + Flag(f.endHeaders, END_HEADERS)
                               + Flag(f.priority # <<>>, PRIORITY)
      [] f.type \in {"PUSH_PROMISE", "CONTINUATION"} -> Flag(f.endHeaders, END_HEADERS)
      [] f.type \in {"SETTINGS", "PING"} -> Flag(f.ack, ACK)
      [] f.type = "UNKNOWN" -> f.flags
      [] OTHER -> 0

IdOf(f) == IF f.type \in OnConnection THEN 0 ELSE f.id

PayloadOf(f) ==
    CASE f.type = "DATA" -> f.data
      [] f.type = "HEADERS" -> IF f.priority = <<>> THEN f.block
                               ELSE PutPriority(f.priority[1]) \o f.block
      [] f.type = "PRIORITY" -> PutPriority(f.priority)
      [] f.type = "RST_STREAM" -> PutU32(f.error)
      [] f.type = "SETTINGS" -> IF f.ack THEN <<>> ELSE PutSettings(f.settings)
      [] f.type = "PUSH_PROMISE" -> Put31(f.promised) \o f.block
      [] f.type = "PING" -> f.data
      [] f.type = "GOAWAY" -> Put31(f.last) \o PutU32(f.error) \o f.data
      [] f.type = "WINDOW_UPDATE" -> Put31(f.increment)
      [] f.type = "CONTINUATION" -> f.block
      [] f.type = "UNKNOWN" -> f.data

\* A frame as Frames has it: what its length depends on.
Outline(f) ==
    [type |-> f.type, id |-> IdOf(f),
     flag |-> CASE f.type \in {"DATA", "HEADERS"} -> f.endStream
                [] f.type \in {"SETTINGS", "PING"} -> f.ack
                [] f.type \in {"PUSH_PROMISE", "CONTINUATION"} -> f.endHeaders
                [] OTHER -> FALSE,
     prio |-> f.type = "HEADERS" /\ f.priority # <<>>,
     n    |-> CASE f.type \in {"DATA", "GOAWAY", "UNKNOWN"} -> Len(f.data)
                [] f.type \in {"HEADERS", "PUSH_PROMISE", "CONTINUATION"} -> Len(f.block)
                [] f.type = "SETTINGS" -> Len(f.settings)
                [] f.type = "WINDOW_UPDATE" -> f.increment
                [] OTHER -> 0]

\* encode
EncodeFrame(f) ==
    WriteHeader(PayloadLen(Outline(f)), CodeOfType(f), FlagsOf(f), IdOf(f)) \o PayloadOf(f)
-------------------------------------------------------------------------------
Drop(bytes, n) == SubSeq(bytes, n + 1, Len(bytes))

Rejected == [type |-> "REJECTED"]

\* remove_padding: the first byte says how many to drop at the end.
Padded(h) == HasFlag(h.flags, PADDED)
RemovePadding(payload) == SubSeq(payload, 2, Len(payload) - payload[1])

\* SEEDED FAULT: padding may take all that is left, and the length byte too.
ValidPaddingLoose(payload) == payload # <<>> /\ payload[1] <= Len(payload)

ValidPadding(payload) == payload # <<>> /\ payload[1] < Len(payload) - 1

ParseData(h, payload) ==
    IF h.id = 0 \/ (Padded(h) /\ ~ValidPadding(payload)) THEN Rejected
    ELSE [type |-> "DATA", id |-> h.id, endStream |-> HasFlag(h.flags, END_STREAM),
          data |-> IF Padded(h) THEN RemovePadding(payload) ELSE payload]

ParseHeaders(h, payload) ==
    LET prio == HasFlag(h.flags, PRIORITY)
        body == IF Padded(h) THEN RemovePadding(payload) ELSE payload
    IN IF \/ h.id = 0
          \/ Padded(h) /\ ~ValidPadding(payload)
          \/ prio /\ Len(body) < 5
       THEN Rejected
       ELSE [type |-> "HEADERS", id |-> h.id,
             endStream  |-> HasFlag(h.flags, END_STREAM),
             endHeaders |-> HasFlag(h.flags, END_HEADERS),
             priority   |-> IF prio THEN <<GetPriority(body)>> ELSE <<>>,
             block      |-> IF prio THEN Drop(body, 5) ELSE body]

ParsePriority(h, payload) ==
    IF h.id = 0 \/ Len(payload) # 5 THEN Rejected
    ELSE [type |-> "PRIORITY", id |-> h.id, priority |-> GetPriority(payload)]

ParseRstStream(h, payload) ==
    IF h.id = 0 \/ Len(payload) # 4 THEN Rejected
    ELSE [type |-> "RST_STREAM", id |-> h.id, error |-> GetU32(payload, 1)]

ParseSettings(h, payload) ==
    LET ack      == HasFlag(h.flags, ACK)
        settings == GetSettings(payload)
    IN IF \/ h.id # 0
          \/ ack /\ payload # <<>>
          \/ Len(payload) % 6 # 0
          \/ \E k \in DOMAIN settings : ~ValidSetting(settings[k])
       THEN Rejected
       ELSE [type |-> "SETTINGS", ack |-> ack, settings |-> settings]

ParsePushPromise(h, payload) ==
    LET body == IF Padded(h) THEN RemovePadding(payload) ELSE payload IN
    IF h.id = 0 \/ (Padded(h) /\ ~ValidPadding(payload)) \/ Len(body) < 4 THEN Rejected
    ELSE [type |-> "PUSH_PROMISE", id |-> h.id, endHeaders |-> HasFlag(h.flags, END_HEADERS),
          promised |-> GetId(body, 1), block |-> Drop(body, 4)]

ParsePing(h, payload) ==
    IF h.id # 0 \/ Len(payload) # 8 THEN Rejected
    ELSE [type |-> "PING", ack |-> HasFlag(h.flags, ACK), data |-> payload]

ParseGoAway(h, payload) ==
    IF h.id # 0 \/ Len(payload) < 8 THEN Rejected
    ELSE [type |-> "GOAWAY", last |-> GetId(payload, 1), error |-> GetU32(payload, 5),
          data |-> Drop(payload, 8)]

ParseWindowUpdate(h, payload) ==
    IF Len(payload) # 4 THEN Rejected
    ELSE IF GetId(payload, 1) = 0 THEN Rejected
    ELSE [type |-> "WINDOW_UPDATE", id |-> h.id, increment |-> GetId(payload, 1)]

ParseContinuation(h, payload) ==
    IF h.id = 0 THEN Rejected
    ELSE [type |-> "CONTINUATION", id |-> h.id, endHeaders |-> HasFlag(h.flags, END_HEADERS),
          block |-> payload]

\* parse_frame
ParseFrame(h, payload) ==
    LET type == TypeOfCode(h.code) IN
    CASE type = "DATA"          -> ParseData(h, payload)
      [] type = "HEADERS"       -> ParseHeaders(h, payload)
      [] type = "PRIORITY"      -> ParsePriority(h, payload)
      [] type = "RST_STREAM"    -> ParseRstStream(h, payload)
      [] type = "SETTINGS"      -> ParseSettings(h, payload)
      [] type = "PUSH_PROMISE"  -> ParsePushPromise(h, payload)
      [] type = "PING"          -> ParsePing(h, payload)
      [] type = "GOAWAY"        -> ParseGoAway(h, payload)
      [] type = "WINDOW_UPDATE" -> ParseWindowUpdate(h, payload)
      [] type = "CONTINUATION"  -> ParseContinuation(h, payload)
      [] OTHER -> [type |-> "UNKNOWN", code |-> h.code, flags |-> h.flags, id |-> h.id,
                   data |-> payload]

\* decode, once the frame is there: what it is, and the bytes that stay.
DecodeFrame(buf) ==
    LET h   == PeekHeader(buf)
        end == FrameHeaderSize + h.length
    IN [frame |-> ParseFrame(h, SubSeq(buf, FrameHeaderSize + 1, end)), rest |-> Drop(buf, end)]

\* What Frames knows of a frame on the wire.
WireOutline(h, payload) ==
    LET type == TypeOfCode(h.code)
        pad  == IF type \in MayPad /\ Padded(h)
                THEN IF payload = <<>> THEN 0 ELSE payload[1] ELSE NoPad
    IN [type |-> type, id |-> h.id,
        flag |-> CASE type \in {"DATA", "HEADERS", "SETTINGS", "PING"} -> HasFlag(h.flags, END_STREAM)
                   [] type \in {"PUSH_PROMISE", "CONTINUATION"} -> HasFlag(h.flags, END_HEADERS)
                   [] OTHER -> FALSE,
        prio |-> type = "HEADERS" /\ HasFlag(h.flags, PRIORITY),
        len  |-> h.length, pad |-> pad,
        value |-> CASE type = "WINDOW_UPDATE" -> IF Len(payload) = 4 THEN GetId(payload, 1) ELSE 0
                    [] type = "SETTINGS" ->
                       IF \A k \in DOMAIN GetSettings(payload) : ValidSetting(GetSettings(payload)[k])
                       THEN 1 ELSE 0
                    [] OTHER -> 1]
===============================================================================
