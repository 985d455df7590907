-------------------------------- MODULE Frames --------------------------------
(***************************************************************************)
(* frame/encode.rs and frame/decode.rs: what the encoder writes for a      *)
(* frame, and which frames on the wire the decoder accepts and as what.    *)
(*                                                                         *)
(* A frame is a record of its type, its stream (0 is the connection), the  *)
(* flag that its type has (END_STREAM of DATA and HEADERS, ACK of SETTINGS *)
(* and PING, END_HEADERS of the others), whether it carries a priority,    *)
(* and n: bytes of data, header block or debug data, the number of         *)
(* settings, or a window increment.                                        *)
(*                                                                         *)
(* On the wire it has a payload length, perhaps padding, and the one value *)
(* that the decoder looks at: an increment, or whether the settings are    *)
(* within their limits.                                                    *)
(***************************************************************************)
EXTENDS Integers

FrameHeaderSize == 9
NoPad == -1

OnStream     == {"DATA", "HEADERS", "PRIORITY", "RST_STREAM", "PUSH_PROMISE", "CONTINUATION"}
OnConnection == {"SETTINGS", "PING", "GOAWAY"}
MayPad       == {"DATA", "HEADERS", "PUSH_PROMISE"}

FrameTypes   == OnStream \cup OnConnection \cup {"WINDOW_UPDATE", "UNKNOWN"}

FrameRecord == [type: FrameTypes, id: Nat, flag: BOOLEAN, prio: BOOLEAN, n: Nat]
WireRecord  == [type: FrameTypes, id: Nat, flag: BOOLEAN, prio: BOOLEAN,
                len: Nat, pad: Nat \cup {NoPad}, value: Nat]

FixedLen == [PRIORITY |-> 5, RST_STREAM |-> 4, PING |-> 8, WINDOW_UPDATE |-> 4]

\* What comes before the n bytes of a frame in its payload.
Fixed(type, prio) == CASE type = "HEADERS" /\ prio -> 5
                       [] type = "PUSH_PROMISE"    -> 4
                       [] type = "GOAWAY"          -> 8
                       [] OTHER                    -> 0

\* SEEDED FAULT: the length field forgets the priority.
PayloadLenNoPriority(f) ==
    CASE f.type \in DOMAIN FixedLen -> FixedLen[f.type]
      [] f.type = "SETTINGS"        -> IF f.flag THEN 0 ELSE 6 * f.n
      [] OTHER                      -> f.n + Fixed(f.type, FALSE)

\* encode_*: the length field.
PayloadLen(f) ==
    CASE f.type \in DOMAIN FixedLen -> FixedLen[f.type]
      [] f.type = "SETTINGS"        -> IF f.flag THEN 0 ELSE 6 * f.n
      [] OTHER                      -> f.n + Fixed(f.type, f.prio)

\* encode
Encoded(f) == [type |-> f.type, id |-> f.id, flag |-> f.flag, prio |-> f.prio,
               len |-> PayloadLen(f), pad |-> NoPad,
               value |-> CASE f.type = "WINDOW_UPDATE" -> f.n
                           [] OTHER                    -> 1]

\* Frames as the connections build them: on a stream or on the connection as
\* the type is, an ACK without settings, an increment that is not zero.
WellFormed(f) ==
    /\ f.type \in OnStream => f.id # 0
    /\ f.type \in OnConnection => f.id = 0
    /\ f.type \in {"PRIORITY", "RST_STREAM", "PING"} => f.n = 0
    /\ f.type = "SETTINGS" /\ f.flag => f.n = 0
    /\ f.type = "WINDOW_UPDATE" => f.n # 0

\* f with padding, as another peer may write it; encode.rs never pads.
WithPadding(f, pad) == [type |-> f.type, id |-> f.id, flag |-> f.flag, prio |-> f.prio,
                        len |-> PayloadLen(f) + 1 + pad, pad |-> pad, value |-> 1]

\* The frame that w is a way to write, from the side of who writes it: it says
\* nothing of what the decoder accepts.  Empty if w is malformed.
Carried(w) ==
    {f \in [type: {w.type}, id: {w.id}, flag: {w.flag}, prio: {w.prio},
            n: (0 .. w.len) \cup {w.value}] :
        /\ WellFormed(f)
        /\ \/ w = Encoded(f)
           \/ w.type \in MayPad /\ w.pad # NoPad /\ w = WithPadding(f, w.pad)}

\* The fields of w that its type does not have are as Encoded leaves them.
Canonical(w) ==
    /\ w.type \notin MayPad => w.pad = NoPad
    /\ w.type = "SETTINGS" => w.value \in {0, 1}
    /\ w.type \notin {"SETTINGS", "WINDOW_UPDATE"} => w.value = 1

\* The padding is all there is beside its own length.
OnlyPadded(w) == w.pad # NoPad /\ w.pad = w.len - 1

\* SEEDED FAULT: the padding's length byte is taken off twice.
PaddingFitsTwice(w) == w.len >= 1 /\ w.pad < w.len - 2

\* remove_padding: the padding and its length byte leave at least one byte.
PaddingFits(w) == w.len >= 1 /\ w.pad < w.len - 1
Unpadded(w) == IF w.type \in MayPad /\ w.pad # NoPad THEN w.len - 1 - w.pad ELSE w.len

\* parse_*: a frame belongs to a stream or to the connection.
RightStream(w) ==
    /\ w.type \in OnStream => w.id # 0
    /\ w.type \in OnConnection => w.id = 0

\* parse_*: its payload has the length, or the least length, of its type.
RightLength(w) ==
    /\ w.type \in DOMAIN FixedLen => w.len = FixedLen[w.type]
    /\ w.type \in MayPad /\ w.pad # NoPad => PaddingFits(w)
    /\ Unpadded(w) >= Fixed(w.type, w.prio)

\* parse_settings, validate_setting
RightSettings(w) == w.len % 6 = 0 /\ (w.flag => w.len = 0) /\ w.value # 0

Parses(w) ==
    /\ RightStream(w)
    /\ RightLength(w)
    /\ w.type = "SETTINGS" => RightSettings(w)
    /\ w.type = "WINDOW_UPDATE" => w.value # 0

\* parse_*: what it makes of an accepted frame.
Parsed(w) ==
    [type |-> w.type, id |-> w.id, flag |-> w.flag, prio |-> w.prio,
     n |-> CASE w.type = "WINDOW_UPDATE"                      -> w.value
             [] w.type = "SETTINGS"                           -> w.len \div 6
             [] w.type \in {"PRIORITY", "RST_STREAM", "PING"} -> 0
             [] OTHER -> Unpadded(w) - Fixed(w.type, w.prio)]
===============================================================================
