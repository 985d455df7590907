------------------------------- MODULE Endpoint -------------------------------
(***************************************************************************)
(* What connection/mod.rs (client) and connection/server.rs (server) have  *)
(* in common: the frame handlers are the same code in both, except for how *)
(* their output leaves (the client flushes to its transport and can fail)  *)
(* and for HEADERS.  Each operator below is the state change of a handler  *)
(* without its output; Connection and ServerConnection add the output.     *)
(*                                                                         *)
(* SETTINGS_HEADER_TABLE_SIZE and header blocks are left to the HPACK      *)
(* modules: here a block either decodes or does not.                       *)
(***************************************************************************)
EXTENDS FlowControl, Stream, Sequences, FiniteSets

CONSTANTS
    DefaultMaxFrame,        \* frame::DEFAULT_MAX_FRAME_SIZE, 16384 in the code
    DefaultMaxConcurrent,   \* max_concurrent_streams of ConnectionSettings::default, 100
    \* What the peer may send and the application may ask for.
    PeerFrames,             \* types of the frames it sends
    PeerSettings,           \* payloads of SETTINGS frames, see IsSettings
    PeerLens, PeerIncrements, PeerIds, PeerEnds,
    AppLens, AppEnds,       \* bytes and end_stream of the application's calls
    \* Bounds on what would grow for ever.
    MaxTraffic,             \* bytes of DATA, both directions together
    MaxCredit,              \* credit the peer grants to one window
    MaxQueue,               \* frames encoded and not yet taken by the socket
    MaxEvents               \* events not yet polled

SettingNames == {"initialWindow", "maxFrame", "maxConcurrent"}

(***************************************************************************)
(* The payload of a SETTINGS frame gives values to some of the settings.   *)
(* Two values for one setting in a frame have the effect of the last one.  *)
(* The decoder has rejected an initial window above 2^31 - 1 and a frame   *)
(* size below the default (decode.rs, validate_setting).                   *)
(***************************************************************************)
IsSettings(s) ==
    /\ DOMAIN s \subseteq SettingNames
    /\ s \in [DOMAIN s -> Nat]
    /\ "initialWindow" \in DOMAIN s => s["initialWindow"] \in U31
    /\ "maxFrame" \in DOMAIN s => s["maxFrame"] \in DefaultMaxFrame .. I32Max

ASSUME EndpointAssumption ==
    /\ DefaultMaxFrame \in 1 .. I32Max
    /\ DefaultMaxConcurrent \in Nat
    /\ \A s \in PeerSettings : IsSettings(s)
    /\ PeerLens \subseteq 0 .. DefaultMaxFrame   \* max_frame_size of the decoder
    /\ PeerIncrements \subseteq U31 \ {0}        \* the decoder rejects 0
    /\ PeerIds \subseteq U31 \ {0}
    /\ AppLens \subseteq U31
    /\ AppEnds \subseteq BOOLEAN /\ PeerEnds \subseteq BOOLEAN
    /\ {MaxTraffic, MaxCredit, MaxQueue, MaxEvents} \subseteq Nat

VARIABLES
    state,          \* ConnectionState
    gotSettings,    \* the peer's first SETTINGS has been handled
    streams,        \* id -> stream, the HashMap
    flow,           \* the connection's FlowControl
    remote,         \* remote_settings, and the encoder's max_frame_size
    writeBuf,       \* write_buf: encoded frames
    events          \* pending events

(***************************************************************************)
(* History of the connection, read by properties only.  0 stands for the   *)
(* connection as a whole, as in WINDOW_UPDATE frames.                      *)
(***************************************************************************)
VARIABLES
    sent,           \* 0 or stream id -> bytes of DATA encoded
    credit,         \* 0 or stream id -> sum of the increments applied
    rcvd,           \* bytes of DATA received
    granted,        \* sum of the increments of the WINDOW_UPDATEs we encoded
    delivered,      \* bytes of DATA put in events
    ended           \* stream id -> which ends of it have been seen on the wire: END_STREAM
                    \* of either side, "lost" if its frame was refused, RST_STREAM

core    == <<state, gotSettings, streams, flow, remote, events>>
history == <<sent, credit, rcvd, granted, delivered, ended>>

States == {"WaitingPreface", "WaitingSettings", "Open", "Draining", "Closed"}
Ends   == {"local", "remote", "lost", "reset"}

RemoteType == [initialWindow: U31, maxFrame: 1 .. I32Max, maxConcurrent: Nat]
EventType  == [type: {"Ready", "Headers", "Request", "Data", "StreamReset", "GoAway", "Error"},
               id: U31]
FrameType  == [type: {"PREFACE", "SETTINGS", "SETTINGS_ACK", "PING_ACK", "WINDOW_UPDATE",
                      "HEADERS", "DATA", "RST_STREAM", "GOAWAY"},
               id: U31, n: Nat, end: BOOLEAN]

CoreTypeOK ==
    /\ state \in States
    /\ gotSettings \in BOOLEAN
    /\ streams \in [DOMAIN streams -> StreamType]
    /\ flow \in FlowType
    /\ flow.initial = DefaultWindow /\ flow.threshold = DefaultWindow \div 2
    /\ remote \in RemoteType
    /\ events \in Seq(EventType)
    /\ sent \in [DOMAIN ended \cup {0} -> Nat]
    /\ credit \in [DOMAIN ended \cup {0} -> Nat]
    /\ rcvd \in Nat /\ granted \in Nat /\ delivered \in Nat
    /\ DOMAIN streams \subseteq DOMAIN ended
    /\ DOMAIN ended \subseteq U31 \ {0}
    /\ ended \in [DOMAIN ended -> SUBSET Ends]

EndpointTypeOK == CoreTypeOK /\ writeBuf \in Seq(FrameType)

EndpointInit ==
    /\ state = "WaitingPreface"
    /\ gotSettings = FALSE
    /\ streams = <<>>
    /\ flow = NewFlow(DefaultWindow)
    /\ remote = [initialWindow |-> DefaultWindow, maxFrame |-> DefaultMaxFrame,
                 maxConcurrent |-> DefaultMaxConcurrent]
    /\ writeBuf = <<>>
    /\ events = <<>>
    /\ sent = [i \in {0} |-> 0]
    /\ credit = [i \in {0} |-> 0]
    /\ rcvd = 0 /\ granted = 0 /\ delivered = 0
    /\ ended = <<>>
-------------------------------------------------------------------------------
Frame(type, id, n, end) == [type |-> type, id |-> id, n |-> n, end |-> end]

EventRoom == Len(events) < MaxEvents
Push(type, id) == events' = Append(events, [type |-> type, id |-> id])

\* f with the key k added or overwritten, HashMap::insert.
Insert(f, k, v) == [i \in DOMAIN f \cup {k} |-> IF i = k THEN v ELSE f[i]]

Mark(i, ends) == ended' = IF i \in DOMAIN ended
                          THEN [ended EXCEPT ![i] = @ \cup ends] ELSE ended
EndMark(end, which) == IF end THEN {which} ELSE {}

\* handle_settings: "apply settings"
Setting(s, name) == IF name \in DOMAIN s THEN s[name] ELSE remote[name]

\* SEEDED FAULT: the new initial window is stored, existing streams keep theirs.
ApplySettingsToNewStreams(s) ==
    /\ remote' = [initialWindow |-> Setting(s, "initialWindow"),
                  maxFrame      |-> Setting(s, "maxFrame"),
                  maxConcurrent |-> Setting(s, "maxConcurrent")]
    /\ UNCHANGED streams

ApplySettings(s) ==
    LET delta == Setting(s, "initialWindow") - remote.initialWindow
    IN /\ remote' = [initialWindow |-> Setting(s, "initialWindow"),
                     maxFrame      |-> Setting(s, "maxFrame"),
                     maxConcurrent |-> Setting(s, "maxConcurrent")]
       /\ streams' = [i \in DOMAIN streams |-> AdjustSendWindow(streams[i], delta)]

\* SEEDED FAULT: every SETTINGS frame opens the connection, not just the first.
HandleSettingsReopens(s) ==
    /\ ApplySettings(s)
    /\ gotSettings' = TRUE
    /\ state' = "Open"
    /\ IF gotSettings THEN UNCHANGED events ELSE Push("Ready", 0)
    /\ UNCHANGED <<flow, history>>

HandleSettings(s) ==
    /\ ApplySettings(s)
    /\ gotSettings' = TRUE
    /\ \/ ~gotSettings /\ state' = "Open" /\ Push("Ready", 0)
       \/ gotSettings /\ UNCHANGED <<state, events>>
    /\ UNCHANGED <<flow, history>>

\* SEEDED FAULT: GOAWAY drops the streams it still covers.
HandleGoAwayDropsStreams ==
    /\ state' = "Draining"
    /\ streams' = <<>>
    /\ Push("GoAway", 0)
    /\ UNCHANGED <<gotSettings, flow, remote, history>>

HandleGoAway ==
    /\ state' = "Draining"
    /\ Push("GoAway", 0)
    /\ UNCHANGED <<gotSettings, streams, flow, remote, history>>

\* handle_window_update, by what the frame's stream id is.
\* SEEDED FAULT: the increment is noted and not added to the window.
CreditConnectionLost(increment) ==
    /\ CanIncrease(flow.window, increment)
    /\ credit' = [credit EXCEPT ![0] = @ + increment]
    /\ UNCHANGED <<state, gotSettings, streams, flow, remote, events,
                   sent, rcvd, granted, delivered, ended>>

CreditConnection(increment) ==
    /\ CanIncrease(flow.window, increment)
    /\ flow' = IncreaseWindow(flow, increment)
    /\ credit' = [credit EXCEPT ![0] = @ + increment]
    /\ UNCHANGED <<state, gotSettings, streams, remote, events,
                   sent, rcvd, granted, delivered, ended>>

CreditStream(i, increment) ==
    /\ i \in DOMAIN streams
    /\ CanIncrease(streams[i].sendWindow, increment)
    /\ streams' = [streams EXCEPT ![i] = IncreaseSendWindow(@, increment)]
    /\ credit' = [credit EXCEPT ![i] = @ + increment]
    /\ UNCHANGED <<state, gotSettings, flow, remote, events,
                   sent, rcvd, granted, delivered, ended>>

RejectCredit(i, increment) ==
    /\ \/ i = 0 /\ ~CanIncrease(flow.window, increment)
       \/ i \in DOMAIN streams /\ ~CanIncrease(streams[i].sendWindow, increment)
    /\ Push("Error", i)
    /\ UNCHANGED <<state, gotSettings, streams, flow, remote, history>>

\* handle_data: whether the received bytes make a WINDOW_UPDATE due, and of how much.
AfterData(len)  == Consume(flow, len)
UpdateDue(len)  == ShouldUpdate(AfterData(len))
Increment(len)  == AfterData(len).consumed

\* SEEDED FAULT: the END_STREAM flag of DATA is not recorded.
HandleDataNoEnd(i, len, end, deliver) ==
    /\ streams' = IF i \in DOMAIN streams
                  THEN [streams EXCEPT ![i] = RecvBytes(@, len)] ELSE streams
    /\ flow' = IF UpdateDue(len) THEN ResetPending(AfterData(len)) ELSE AfterData(len)
    /\ IF deliver THEN Push("Data", i) ELSE UNCHANGED events
    /\ rcvd' = rcvd + len
    /\ granted' = IF UpdateDue(len) THEN granted + Increment(len) ELSE granted
    /\ delivered' = IF deliver THEN delivered + len ELSE delivered
    /\ Mark(i, EndMark(end, "remote"))
    /\ UNCHANGED <<state, gotSettings, remote, sent, credit>>

\* deliver: the WINDOW_UPDATE, if one was due, could be written.
HandleData(i, len, end, deliver) ==
    /\ streams' = IF i \in DOMAIN streams
                  THEN [streams EXCEPT ![i] = IF end THEN RecvEndStream(RecvBytes(@, len))
                                                     ELSE RecvBytes(@, len)]
                  ELSE streams
    /\ flow' = IF UpdateDue(len) THEN ResetPending(AfterData(len)) ELSE AfterData(len)
    /\ IF deliver THEN Push("Data", i) ELSE UNCHANGED events
    /\ rcvd' = rcvd + len
    /\ granted' = IF UpdateDue(len) THEN granted + Increment(len) ELSE granted
    /\ delivered' = IF deliver THEN delivered + len ELSE delivered
    /\ Mark(i, EndMark(end, "remote"))
    /\ UNCHANGED <<state, gotSettings, remote, sent, credit>>

HandleRstStream(i) ==
    /\ streams' = IF i \in DOMAIN streams
                  THEN [streams EXCEPT ![i] = ResetStream(@)] ELSE streams
    /\ Push("StreamReset", i)
    /\ Mark(i, {"reset"})
    /\ UNCHANGED <<state, gotSettings, flow, remote, sent, credit, rcvd, granted, delivered>>

\* An error event and nothing else.
HandleError(i) ==
    /\ Push("Error", i)
    /\ UNCHANGED <<state, gotSettings, streams, flow, remote, history>>

\* A frame of stream i that is refused: all it does is an error event, which may
\* name the stream or not (0).  END_STREAM, if it carries one, is lost.
HandleRefused(i, end, named) ==
    /\ Push("Error", named)
    /\ Mark(i, EndMark(end, "lost"))
    /\ UNCHANGED <<state, gotSettings, streams, flow, remote,
                   sent, credit, rcvd, granted, delivered>>

\* streams.insert of a new stream, and the start of its history.
OpenStream(i, stream, ends) ==
    /\ streams' = Insert(streams, i, stream)
    /\ sent' = Insert(sent, i, 0)
    /\ credit' = Insert(credit, i, 0)
    /\ ended' = Insert(ended, i, ends)

\* SEEDED FAULT: only the stream's window is consulted.
AvailableOfStream(i) == AsUSize(streams[i].sendWindow)

\* send_data: what both windows allow.  A negative window, read as usize, is
\* no limit at all.
Available(i) == Lesser(AsUSize(flow.window), AsUSize(streams[i].sendWindow))

\* send_data after its checks: n bytes go out on stream i.
SendOn(i, n, isEnd) ==
    /\ flow' = Consume(flow, n)
    /\ streams' = [streams EXCEPT ![i] = IF isEnd THEN SendEndStream(SendBytes(@, n))
                                                  ELSE SendBytes(@, n)]
    /\ sent' = [sent EXCEPT ![0] = @ + n, ![i] = @ + n]
    /\ Mark(i, EndMark(isEnd, "local"))
    /\ UNCHANGED <<state, gotSettings, remote, events, credit, rcvd, granted, delivered>>

\* poll_events
TakeEvents ==
    /\ events # <<>>
    /\ events' = <<>>
    /\ UNCHANGED <<state, gotSettings, streams, flow, remote, history>>
-------------------------------------------------------------------------------
(***************************************************************************)
(* Properties that hold of both ends.                                      *)
(***************************************************************************)

\* The receive and the send direction share one window and one counter.  As
\* long as the peer's grants fit the window type, the two stay in step with
\* the traffic: the window is what was granted less what is not yet accounted
\* for, and the counter is every byte, of either direction, since the last
\* WINDOW_UPDATE.
ConnLedger ==
    DefaultWindow + credit[0] <= I32Max =>
        /\ flow.consumed = sent[0] + rcvd - granted
        /\ flow.window = DefaultWindow + credit[0] - flow.consumed

\* send_data reads the connection window `as usize`: were it ever negative
\* there, the window would be no limit.  It never is, in any interleaving of
\* sends, receives and grants, while the peer's grants fit the window type.
ConnWindowNonNegative ==
    DefaultWindow + credit[0] <= I32Max => flow.window >= 0

\* The bytes received and not yet given back never reach the threshold: the
\* peer, whose view of our window is DefaultWindow + granted - rcvd, always
\* has more than half of it left and cannot be blocked for ever.  (A peer that
\* pads its DATA is not credited for the padding, which handle_data never sees.)
PeerNotStarved ==
    DefaultWindow + credit[0] <= I32Max => rcvd - granted < DefaultWindow \div 2

\* Each stream's send window, an i32 that wraps, is congruent to what the peer
\* allowed for the stream less what was sent on it, whatever the order of
\* SETTINGS, WINDOW_UPDATE and DATA.
StreamLedger ==
    \A i \in DOMAIN streams :
        (streams[i].sendWindow - (remote.initialWindow + credit[i] - sent[i])) % U32Mod = 0

\* The state of a stream claims no end that did not cross the wire, and a
\* reset stream is closed for good.
StreamStateJustified ==
    \A i \in DOMAIN streams :
        LET st == streams[i].state IN
        /\ st = "HalfClosedLocal"  => "local" \in ended[i]
        /\ st = "HalfClosedRemote" => "remote" \in ended[i]
        /\ st = "Closed" => "reset" \in ended[i] \/ {"local", "remote"} \subseteq ended[i]
        /\ "reset" \in ended[i] => st = "Closed"

\* What stream.rs says of HalfClosedRemote, "peer sent END_STREAM": a stream
\* the peer has ended no longer counts as receiving.
PeerEndRecorded ==
    \A i \in DOMAIN streams : ended[i] \cap {"remote", "lost"} # {} => ~CanRecv(streams[i])

\* The same of an END_STREAM that came with a frame that was not refused, on
\* DATA or HEADERS, whatever both sides did to the stream before and after.
AcceptedEndRecorded ==
    \A i \in DOMAIN streams : "remote" \in ended[i] => ~CanRecv(streams[i])

\* What stream.rs says of HalfClosedLocal, "we've sent END_STREAM": a stream
\* on which END_STREAM was sent is no longer open for sending.
EndStreamRecorded ==
    \A i \in DOMAIN streams : "local" \in ended[i] => ~CanSend(streams[i])

\* flow_control.rs: "a send window that limits how much data can be in
\* flight": never more bytes sent than the peer allowed.
SentWithinCredit == sent[0] <= DefaultWindow + credit[0]

\* The same for a stream: the bytes it sends never pass the limit in force
\* when they are sent.
StreamSendWithinWindow ==
    [][\A i \in DOMAIN streams \cap DOMAIN sent' :
          sent'[i] > sent[i] => sent'[i] <= remote.initialWindow + credit[i]]_<<streams, sent>>

Rank(st) == CASE st = "Open" -> 0 [] st = "Closed" -> 2 [] OTHER -> 1

\* A stream, while it is kept, only moves towards Closed: no frame and no call
\* reopens it or swaps one half-closed state for the other.
StreamForwardOnly ==
    [][\A i \in DOMAIN streams \cap DOMAIN streams' :
          LET old == streams[i].state
              new == streams'[i].state
          IN new # old => Rank(new) > Rank(old)]_streams

\* Once the connection has been open, draining is for ever: no later SETTINGS
\* or call takes it back to Open.
DrainingIsFinal ==
    [][state = "Draining" /\ gotSettings => state' = "Draining"]_<<state, gotSettings>>
===============================================================================
