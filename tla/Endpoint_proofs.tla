---------------------------- MODULE Endpoint_proofs ---------------------------
(***************************************************************************)
(* Lemmas about the machine integers, the flow control object, the stream  *)
(* and the handlers the two connections share.                             *)
(***************************************************************************)
EXTENDS Endpoint, TLAPS

(***************************************************************************)
(* Constants and machine integers                                          *)
(***************************************************************************)

\* What the assumptions say of the constants, as numbers.
LEMMA ConstantFacts ==
    /\ I32Max \in Nat /\ I32Max >= 1
    /\ USizeMod \in Nat /\ USizeMod > 4 * (I32Max + 1)
    /\ DefaultWindow \in Nat /\ DefaultWindow >= 2 /\ DefaultWindow <= I32Max
    /\ DefaultMaxFrame \in Nat /\ DefaultMaxFrame >= 1 /\ DefaultMaxFrame <= I32Max
    /\ DefaultMaxConcurrent \in Nat
  <1>1. PICK h \in 0 .. I32Max : I32Max = 2 * h + 1
    BY MachineIntAssumption
  <1>2. h \in Int /\ 0 <= h
    OBVIOUS
  <1>3. I32Max \in Nat /\ I32Max >= 1
    BY <1>1, <1>2
  <1> QED
    BY <1>3, MachineIntAssumption, FlowControlAssumption, EndpointAssumption

\* The threshold is at least one byte and less than the whole window.
LEMMA ThresholdFacts ==
    /\ DefaultWindow \div 2 \in Nat
    /\ DefaultWindow \div 2 >= 1
    /\ DefaultWindow \div 2 < DefaultWindow
  BY ConstantFacts

\* One conditional correction brings a sum of two i32 back into range.
LEMMA WrapI32Type ==
    ASSUME NEW x \in Int, x >= 2 * I32Min, x <= 2 * I32Max + 2
    PROVE  WrapI32(x) \in I32
  BY ConstantFacts DEF WrapI32, I32, I32Min, U32Mod, U32Max

\* ... and leaves alone a sum that is in range.
LEMMA WrapI32Exact ==
    ASSUME NEW x \in I32
    PROVE  WrapI32(x) = x
  BY ConstantFacts DEF WrapI32, I32, I32Min

\* The same for a sum of two u32.
LEMMA WrapU32Type ==
    ASSUME NEW x \in Nat, x <= 2 * U32Max
    PROVE  WrapU32(x) \in U32
  BY ConstantFacts DEF WrapU32, U32, U32Mod, U32Max

\* `as i32` of a u32 is an i32 ...
LEMMA AsI32Type ==
    ASSUME NEW u \in U32
    PROVE  AsI32(u) \in I32
  BY ConstantFacts DEF AsI32, I32, I32Min, U32, U32Mod, U32Max

\* ... and the same number below 2^31.
LEMMA AsI32Exact ==
    ASSUME NEW u \in U31
    PROVE  AsI32(u) = u
  BY ConstantFacts DEF AsI32, U31

\* A 31-bit number is a u32 and an i32.
LEMMA U31InU32 == U31 \subseteq U32 /\ U31 \subseteq I32
  BY ConstantFacts DEF U31, U32, U32Max, I32, I32Min

(***************************************************************************)
(* The flow control object and the stream                                  *)
(***************************************************************************)

\* FlowControl::new with the default window is a FlowControl.
LEMMA NewFlowType == NewFlow(DefaultWindow) \in FlowType
  BY ConstantFacts, ThresholdFacts, AsI32Type
     DEF NewFlow, FlowType, U32, U32Max

\* consume keeps the width of window and counter.
LEMMA ConsumeType ==
    ASSUME NEW f \in FlowType, NEW n \in U31
    PROVE  /\ Consume(f, n) \in FlowType
           /\ Consume(f, n).initial = f.initial
           /\ Consume(f, n).threshold = f.threshold
  <1>1. AsI32(n) = n
    BY AsI32Exact
  <1>2. WrapI32(f.window - n) \in I32
    BY WrapI32Type, ConstantFacts DEF FlowType, I32, I32Min, U31
  <1>3. WrapU32(f.consumed + n) \in U32
    BY WrapU32Type, ConstantFacts DEF FlowType, U32, U32Max, U31
  <1> QED
    BY <1>1, <1>2, <1>3 DEF Consume, FlowType

\* reset_pending does too: its unchecked addition wraps.
LEMMA ResetPendingType ==
    ASSUME NEW f \in FlowType
    PROVE  /\ ResetPending(f) \in FlowType
           /\ ResetPending(f).initial = f.initial
           /\ ResetPending(f).threshold = f.threshold
  <1>1. AsI32(f.consumed) \in I32
    BY AsI32Type DEF FlowType
  <1>2. WrapI32(f.window + AsI32(f.consumed)) \in I32
    BY <1>1, WrapI32Type, ConstantFacts DEF FlowType, I32, I32Min
  <1>3. 0 \in U32
    BY ConstantFacts DEF U32, U32Max
  <1> QED
    BY <1>2, <1>3 DEF ResetPending, FlowType

\* increase_window, where it accepts, stays within an i32.
LEMMA IncreaseWindowType ==
    ASSUME NEW f \in FlowType, NEW n \in U31, CanIncrease(f.window, n)
    PROVE  /\ IncreaseWindow(f, n) \in FlowType
           /\ IncreaseWindow(f, n).initial = f.initial
           /\ IncreaseWindow(f, n).threshold = f.threshold
  <1>1. f.window + n \in I32
    BY ConstantFacts DEF CanIncrease, FlowType, I32, I32Min, U31
  <1> QED
    BY <1>1 DEF IncreaseWindow, FlowType

\* A stream opened with any initial window the decoder lets through is a Stream.
LEMMA NewStreamType ==
    ASSUME NEW size \in U31
    PROVE  NewStream(size) \in StreamType
  BY U31InU32, AsI32Type, ConstantFacts DEF NewStream, StreamType, StreamStates, U32, U32Max

\* Stream::send_data keeps the width of the send window.
LEMMA SendBytesType ==
    ASSUME NEW s \in StreamType, NEW n \in U31
    PROVE  SendBytes(s, n) \in StreamType
  <1>1. WrapI32(s.sendWindow - AsI32(n)) \in I32
    BY AsI32Exact, WrapI32Type, ConstantFacts DEF StreamType, I32, I32Min, U31
  <1> QED
    BY <1>1 DEF SendBytes, StreamType

\* Stream::recv_data keeps the width of the receive window and counter.
LEMMA RecvBytesType ==
    ASSUME NEW s \in StreamType, NEW n \in U31
    PROVE  RecvBytes(s, n) \in StreamType
  <1>1. WrapI32(s.recvWindow - AsI32(n)) \in I32
    BY AsI32Exact, WrapI32Type, ConstantFacts DEF StreamType, I32, I32Min, U31
  <1>2. WrapU32(s.bytesReceived + n) \in U32
    BY WrapU32Type, ConstantFacts DEF StreamType, U32, U32Max, U31
  <1> QED
    BY <1>1, <1>2 DEF RecvBytes, StreamType

\* The changes of state lead to declared states.
LEMMA EndStreamType ==
    ASSUME NEW s \in StreamType
    PROVE  /\ SendEndStream(s) \in StreamType
           /\ RecvEndStream(s) \in StreamType
           /\ ResetStream(s) \in StreamType
  BY DEF SendEndStream, RecvEndStream, ResetStream, StreamType, StreamStates

\* increase_send_window, where it accepts, stays within an i32.
LEMMA StreamCreditType ==
    ASSUME NEW s \in StreamType, NEW n \in U31, CanIncrease(s.sendWindow, n)
    PROVE  IncreaseSendWindow(s, n) \in StreamType
  <1>1. s.sendWindow + n \in I32
    BY ConstantFacts DEF CanIncrease, StreamType, I32, I32Min, U31
  <1> QED
    BY <1>1 DEF IncreaseSendWindow, StreamType

\* adjust_send_window wraps within an i32 for any two initial windows.
LEMMA AdjustType ==
    ASSUME NEW s \in StreamType, NEW old \in U31, NEW new \in U31
    PROVE  AdjustSendWindow(s, new - old) \in StreamType
  <1>1. WrapI32(s.sendWindow + (new - old)) \in I32
    BY WrapI32Type, ConstantFacts DEF StreamType, I32, I32Min, U31
  <1> QED
    BY <1>1 DEF AdjustSendWindow, StreamType

(***************************************************************************)
(* The handlers keep the types.                                            *)
(***************************************************************************)

\* An event pushed leaves a sequence of events.
LEMMA PushType ==
    ASSUME CoreTypeOK, NEW i \in U31,
           NEW type \in {"Ready", "Headers", "Request", "Data", "StreamReset", "GoAway", "Error"},
           Push(type, i)
    PROVE  events' \in Seq(EventType)
  BY DEF CoreTypeOK, Push, EventType

\* Marking an end keeps the streams the history knows.
LEMMA MarkType ==
    ASSUME CoreTypeOK, NEW i, NEW ends \in SUBSET Ends, Mark(i, ends)
    PROVE  /\ DOMAIN ended' = DOMAIN ended
           /\ ended' \in [DOMAIN ended -> SUBSET Ends]
  BY DEF CoreTypeOK, Mark

\* An END_STREAM flag marks one end or none.
LEMMA EndMarkType ==
    ASSUME NEW end \in BOOLEAN, NEW which \in Ends
    PROVE  EndMark(end, which) \in SUBSET Ends
  BY DEF EndMark

\* 0, the id of the connection, is a 31-bit number.
LEMMA ZeroInU31 == 0 \in U31
  BY ConstantFacts DEF U31

\* The state both constructors build is well typed.
LEMMA InitType == EndpointInit => EndpointTypeOK
  <1> SUFFICES ASSUME EndpointInit PROVE EndpointTypeOK
    OBVIOUS
  <1>1. flow \in FlowType /\ flow.initial = DefaultWindow /\ flow.threshold = DefaultWindow \div 2
    BY NewFlowType DEF EndpointInit, NewFlow
  <1>2. remote \in RemoteType
    BY ConstantFacts DEF EndpointInit, RemoteType, U31
  <1>3. streams \in [DOMAIN streams -> StreamType] /\ ended \in [DOMAIN ended -> SUBSET Ends]
    BY DEF EndpointInit
  <1>4. DOMAIN streams = {} /\ DOMAIN ended = {}
    BY DEF EndpointInit
  <1>5. sent \in [DOMAIN ended \cup {0} -> Nat] /\ credit \in [DOMAIN ended \cup {0} -> Nat]
    BY <1>4 DEF EndpointInit
  <1>6. events \in Seq(EventType) /\ writeBuf \in Seq(FrameType)
    BY DEF EndpointInit
  <1>7. /\ state \in States /\ gotSettings \in BOOLEAN
        /\ rcvd \in Nat /\ granted \in Nat /\ delivered \in Nat
    BY DEF EndpointInit, States
  <1> QED
    BY <1>1, <1>2, <1>3, <1>4, <1>5, <1>6, <1>7 DEF EndpointTypeOK, CoreTypeOK

\* Frame builds frames.
LEMMA FrameTyped ==
    ASSUME NEW type \in {"PREFACE", "SETTINGS", "SETTINGS_ACK", "PING_ACK", "WINDOW_UPDATE",
                         "HEADERS", "DATA", "RST_STREAM", "GOAWAY"},
           NEW i \in U31, NEW n \in Nat, NEW end \in BOOLEAN
    PROVE  Frame(type, i, n, end) \in FrameType
  BY DEF Frame, FrameType

\* Settings a frame leaves out keep their value, so remote stays well typed.
LEMMA SettingsPayload ==
    ASSUME CoreTypeOK, NEW s \in PeerSettings
    PROVE  [initialWindow |-> Setting(s, "initialWindow"),
            maxFrame      |-> Setting(s, "maxFrame"),
            maxConcurrent |-> Setting(s, "maxConcurrent")] \in RemoteType
  <1>1. IsSettings(s)
    BY EndpointAssumption
  <1>2. Setting(s, "initialWindow") \in U31
    BY <1>1 DEF IsSettings, Setting, CoreTypeOK, RemoteType
  <1>3. Setting(s, "maxFrame") \in 1 .. I32Max
    BY <1>1, EndpointAssumption, ConstantFacts DEF IsSettings, Setting, CoreTypeOK, RemoteType
  <1>4. Setting(s, "maxConcurrent") \in Nat
    BY <1>1 DEF IsSettings, Setting, CoreTypeOK, RemoteType
  <1> QED
    BY <1>2, <1>3, <1>4 DEF RemoteType

\* handle_settings keeps the types, the wrapped send windows included.
LEMMA HandleSettingsType ==
    ASSUME CoreTypeOK, NEW s \in PeerSettings, HandleSettings(s)
    PROVE  CoreTypeOK'
  <1>1. remote' \in RemoteType
    BY SettingsPayload DEF HandleSettings, ApplySettings
  <1>2. /\ remote.initialWindow \in U31
        /\ Setting(s, "initialWindow") \in U31
    BY SettingsPayload DEF CoreTypeOK, RemoteType
  <1>3. \A i \in DOMAIN streams :
           AdjustSendWindow(streams[i], Setting(s, "initialWindow") - remote.initialWindow)
              \in StreamType
    BY <1>2, AdjustType DEF CoreTypeOK
  <1>4. /\ DOMAIN streams' = DOMAIN streams
        /\ streams' \in [DOMAIN streams -> StreamType]
    BY <1>3 DEF HandleSettings, ApplySettings
  <1>5. events' \in Seq(EventType)
    BY PushType, ZeroInU31 DEF HandleSettings, CoreTypeOK
  <1>6. state' \in States /\ gotSettings' \in BOOLEAN
    BY DEF HandleSettings, States, CoreTypeOK
  <1> QED
    BY <1>1, <1>4, <1>5, <1>6 DEF HandleSettings, CoreTypeOK, history

\* handle_goaway keeps the types.
LEMMA HandleGoAwayType ==
    ASSUME CoreTypeOK, HandleGoAway
    PROVE  CoreTypeOK'
  <1>1. events' \in Seq(EventType)
    BY PushType, ZeroInU31 DEF HandleGoAway
  <1> QED
    BY <1>1 DEF HandleGoAway, CoreTypeOK, States, history

\* WINDOW_UPDATE of the connection keeps the types.
LEMMA CreditConnectionType ==
    ASSUME CoreTypeOK, NEW n \in U31, CreditConnection(n)
    PROVE  CoreTypeOK'
  <1>1. flow' \in FlowType /\ flow'.initial = flow.initial /\ flow'.threshold = flow.threshold
    BY IncreaseWindowType DEF CreditConnection, CoreTypeOK
  <1>2. credit' \in [DOMAIN ended \cup {0} -> Nat]
    BY DEF CreditConnection, CoreTypeOK, U31
  <1> QED
    BY <1>1, <1>2 DEF CreditConnection, CoreTypeOK

\* WINDOW_UPDATE of a stream keeps the types.
LEMMA CreditStreamType ==
    ASSUME CoreTypeOK, NEW i, NEW n \in U31, CreditStream(i, n)
    PROVE  CoreTypeOK'
  <1>1. IncreaseSendWindow(streams[i], n) \in StreamType
    BY StreamCreditType DEF CreditStream, CoreTypeOK
  <1>2. /\ DOMAIN streams' = DOMAIN streams
        /\ streams' \in [DOMAIN streams -> StreamType]
    BY <1>1 DEF CreditStream, CoreTypeOK
  <1>3. credit' \in [DOMAIN ended \cup {0} -> Nat]
    BY DEF CreditStream, CoreTypeOK, U31
  <1> QED
    BY <1>2, <1>3 DEF CreditStream, CoreTypeOK

\* A rejected WINDOW_UPDATE only adds an event.
LEMMA RejectCreditType ==
    ASSUME CoreTypeOK, NEW i \in U31, NEW n, RejectCredit(i, n)
    PROVE  CoreTypeOK'
  <1>1. events' \in Seq(EventType)
    BY PushType DEF RejectCredit
  <1> QED
    BY <1>1 DEF RejectCredit, CoreTypeOK, history

\* A rejected frame only adds an event.
LEMMA HandleErrorType ==
    ASSUME CoreTypeOK, NEW i \in U31, HandleError(i)
    PROVE  CoreTypeOK'
  <1>1. events' \in Seq(EventType)
    BY PushType DEF HandleError
  <1> QED
    BY <1>1 DEF HandleError, CoreTypeOK, history

\* A refused frame adds an event, and to the history the end it carried.
LEMMA HandleRefusedType ==
    ASSUME CoreTypeOK, NEW i \in U31, NEW end \in BOOLEAN, NEW named \in U31,
           HandleRefused(i, end, named)
    PROVE  CoreTypeOK' /\ DOMAIN ended' = DOMAIN ended
  <1>1. events' \in Seq(EventType)
    BY PushType DEF HandleRefused
  <1>2. DOMAIN ended' = DOMAIN ended /\ ended' \in [DOMAIN ended -> SUBSET Ends]
    BY MarkType, EndMarkType DEF HandleRefused, Ends
  <1> QED
    BY <1>1, <1>2 DEF HandleRefused, CoreTypeOK

\* handle_rst_stream keeps the types.
LEMMA HandleRstStreamType ==
    ASSUME CoreTypeOK, NEW i \in U31, HandleRstStream(i)
    PROVE  CoreTypeOK'
  <1>1. events' \in Seq(EventType)
    BY PushType DEF HandleRstStream
  <1>2. DOMAIN ended' = DOMAIN ended /\ ended' \in [DOMAIN ended -> SUBSET Ends]
    BY MarkType DEF HandleRstStream, Ends
  <1>3. \A j \in DOMAIN streams : ResetStream(streams[j]) \in StreamType
    BY EndStreamType DEF CoreTypeOK
  <1>4. /\ DOMAIN streams' = DOMAIN streams
        /\ streams' \in [DOMAIN streams -> StreamType]
    BY <1>3 DEF HandleRstStream, CoreTypeOK
  <1> QED
    BY <1>1, <1>2, <1>4 DEF HandleRstStream, CoreTypeOK

\* handle_data keeps the types, with or without a WINDOW_UPDATE.
LEMMA HandleDataType ==
    ASSUME CoreTypeOK, NEW i \in U31, NEW len \in U31, NEW end \in BOOLEAN,
           NEW deliver \in BOOLEAN, HandleData(i, len, end, deliver)
    PROVE  CoreTypeOK'
  <1>1. AfterData(len) \in FlowType /\ AfterData(len).initial = flow.initial
        /\ AfterData(len).threshold = flow.threshold
    BY ConsumeType DEF AfterData, CoreTypeOK
  <1>2. flow' \in FlowType /\ flow'.initial = flow.initial /\ flow'.threshold = flow.threshold
    BY <1>1, ResetPendingType DEF HandleData
  <1>3. \A j \in DOMAIN streams : /\ RecvBytes(streams[j], len) \in StreamType
                                  /\ RecvEndStream(RecvBytes(streams[j], len)) \in StreamType
    BY RecvBytesType, EndStreamType DEF CoreTypeOK
  <1>4. /\ DOMAIN streams' = DOMAIN streams
        /\ streams' \in [DOMAIN streams -> StreamType]
    BY <1>3 DEF HandleData, CoreTypeOK
  <1>5. events' \in Seq(EventType)
    BY PushType DEF HandleData, CoreTypeOK
  <1>6. DOMAIN ended' = DOMAIN ended /\ ended' \in [DOMAIN ended -> SUBSET Ends]
    BY MarkType, EndMarkType DEF HandleData, Ends
  <1>7. Increment(len) \in Nat
    BY <1>1, ConstantFacts DEF Increment, FlowType, U32, U32Max
  <1>8. rcvd' \in Nat /\ granted' \in Nat /\ delivered' \in Nat
    BY <1>7 DEF HandleData, CoreTypeOK, U31
  <1> QED
    BY <1>2, <1>4, <1>5, <1>6, <1>8 DEF HandleData, CoreTypeOK

\* Opening (or replacing) a stream keeps the types and leaves the history of the
\* connection, at 0, alone.
LEMMA OpenStreamType ==
    ASSUME CoreTypeOK, NEW i \in U31 \ {0}, NEW stream \in StreamType,
           NEW ends \in SUBSET Ends, OpenStream(i, stream, ends)
    PROVE  /\ DOMAIN ended' = DOMAIN ended \cup {i}
           /\ DOMAIN streams' = DOMAIN streams \cup {i}
           /\ streams' \in [DOMAIN streams' -> StreamType]
           /\ sent' \in [DOMAIN ended' \cup {0} -> Nat]
           /\ credit' \in [DOMAIN ended' \cup {0} -> Nat]
           /\ DOMAIN streams' \subseteq DOMAIN ended'
           /\ DOMAIN ended' \subseteq U31 \ {0}
           /\ ended' \in [DOMAIN ended' -> SUBSET Ends]
           /\ credit'[0] = credit[0] /\ sent'[0] = sent[0]
  <1>1. /\ DOMAIN ended' = DOMAIN ended \cup {i}
        /\ ended' \in [DOMAIN ended' -> SUBSET Ends]
        /\ DOMAIN ended' \subseteq U31 \ {0}
    BY DEF OpenStream, Insert, CoreTypeOK
  <1>2. /\ DOMAIN streams' = DOMAIN streams \cup {i}
        /\ streams' \in [DOMAIN streams' -> StreamType]
    BY DEF OpenStream, Insert, CoreTypeOK
  <1>3. /\ sent' \in [DOMAIN ended' \cup {0} -> Nat] /\ sent'[0] = sent[0]
        /\ credit' \in [DOMAIN ended' \cup {0} -> Nat] /\ credit'[0] = credit[0]
    BY <1>1 DEF OpenStream, Insert, CoreTypeOK
  <1> QED
    BY <1>1, <1>2, <1>3 DEF CoreTypeOK

\* send_data keeps the types.
LEMMA SendOnType ==
    ASSUME CoreTypeOK, NEW i \in DOMAIN streams, NEW n \in U31, NEW isEnd \in BOOLEAN,
           SendOn(i, n, isEnd)
    PROVE  CoreTypeOK'
  <1>1. flow' \in FlowType /\ flow'.initial = flow.initial /\ flow'.threshold = flow.threshold
    BY ConsumeType DEF SendOn, CoreTypeOK
  <1>2. /\ SendBytes(streams[i], n) \in StreamType
        /\ SendEndStream(SendBytes(streams[i], n)) \in StreamType
    BY SendBytesType, EndStreamType DEF CoreTypeOK
  <1>3. /\ DOMAIN streams' = DOMAIN streams
        /\ streams' \in [DOMAIN streams -> StreamType]
    BY <1>2 DEF SendOn, CoreTypeOK
  <1>4. DOMAIN ended' = DOMAIN ended /\ ended' \in [DOMAIN ended -> SUBSET Ends]
    BY MarkType, EndMarkType DEF SendOn, Ends
  <1>5. sent' \in [DOMAIN ended \cup {0} -> Nat]
    BY DEF SendOn, CoreTypeOK, U31
  <1> QED
    BY <1>1, <1>3, <1>4, <1>5 DEF SendOn, CoreTypeOK

\* poll_events keeps the types.
LEMMA TakeEventsType ==
    ASSUME CoreTypeOK, TakeEvents
    PROVE  CoreTypeOK'
  BY DEF TakeEvents, CoreTypeOK, history

\* What send_data takes is a number of bytes, and no more than it was given.
LEMMA AvailableFacts ==
    ASSUME CoreTypeOK, NEW i \in DOMAIN streams
    PROVE  /\ Available(i) \in Nat
           /\ flow.window >= 0 => Available(i) <= flow.window
  <1>1. streams[i].sendWindow \in I32 /\ flow.window \in I32
    BY DEF CoreTypeOK, StreamType, FlowType
  <1> QED
    BY <1>1, ConstantFacts DEF Available, Lesser, AsUSize, I32, I32Min

(***************************************************************************)
(* The connection ledger.  None of ConnLedger, ConnWindowNonNegative and   *)
(* PeerNotStarved is inductive without the others: a send keeps the window *)
(* non-negative because it is at most the window; a receive does because   *)
(* the ledger turns a counter below the threshold into a window above half *)
(* of what was granted, and a refill into all of it; and no sum wraps      *)
(* because the ledger bounds the counter.                                  *)
(***************************************************************************)

Ledger == ConnLedger /\ ConnWindowNonNegative /\ PeerNotStarved

\* Nothing is sent, received or granted at first.
LEMMA InitLedger == EndpointInit => Ledger
  <1> SUFFICES ASSUME EndpointInit PROVE Ledger
    OBVIOUS
  <1>1. credit[0] = 0 /\ sent[0] = 0 /\ rcvd = 0 /\ granted = 0
    BY DEF EndpointInit
  <1>2. flow.window = DefaultWindow /\ flow.consumed = 0
    BY AsI32Exact, ConstantFacts DEF EndpointInit, NewFlow, U31
  <1> QED
    BY <1>1, <1>2, ConstantFacts, ThresholdFacts
       DEF Ledger, ConnLedger, ConnWindowNonNegative, PeerNotStarved

\* Steps that move no byte and no credit of the connection.
LEMMA LedgerFrame ==
    ASSUME Ledger,
           flow' = flow, sent'[0] = sent[0], credit'[0] = credit[0],
           rcvd' = rcvd, granted' = granted
    PROVE  Ledger'
  BY DEF Ledger, ConnLedger, ConnWindowNonNegative, PeerNotStarved

\* Credit of the connection enters the window and the ledger alike.
LEMMA CreditConnectionLedger ==
    ASSUME CoreTypeOK, Ledger, NEW n \in U31, CreditConnection(n)
    PROVE  Ledger'
  <1> SUFFICES ASSUME DefaultWindow + credit'[0] <= I32Max
               PROVE  Ledger'
    BY DEF Ledger, ConnLedger, ConnWindowNonNegative, PeerNotStarved
  <1>1. flow'.window = flow.window + n /\ flow'.consumed = flow.consumed
    BY DEF CreditConnection, IncreaseWindow, CoreTypeOK, FlowType
  <1>2. credit'[0] = credit[0] + n /\ sent' = sent /\ rcvd' = rcvd /\ granted' = granted
    BY DEF CreditConnection, CoreTypeOK
  <1>3. /\ flow.window \in Int /\ flow.consumed \in Nat /\ credit[0] \in Nat
        /\ sent[0] \in Nat /\ n \in Nat /\ rcvd \in Nat /\ granted \in Nat
    BY ConstantFacts DEF CoreTypeOK, FlowType, I32, U32, U31
  <1>4. /\ flow.consumed = sent[0] + rcvd - granted
        /\ flow.window = DefaultWindow + credit[0] - flow.consumed
        /\ flow.window >= 0
        /\ rcvd - granted < DefaultWindow \div 2
    BY <1>2, <1>3, ConstantFacts DEF Ledger, ConnLedger, ConnWindowNonNegative, PeerNotStarved
  <1> QED
    BY <1>1, <1>2, <1>3, <1>4, ConstantFacts, ThresholdFacts
       DEF Ledger, ConnLedger, ConnWindowNonNegative, PeerNotStarved

\* Bytes that fit the window leave it non-negative and are counted once.
LEMMA SendOnLedger ==
    ASSUME CoreTypeOK, Ledger, NEW i \in DOMAIN streams, NEW n \in U31, NEW isEnd \in BOOLEAN,
           n <= Available(i), SendOn(i, n, isEnd)
    PROVE  Ledger'
  <1> SUFFICES ASSUME DefaultWindow + credit'[0] <= I32Max
               PROVE  Ledger'
    BY DEF Ledger, ConnLedger, ConnWindowNonNegative, PeerNotStarved
  <1>1. credit' = credit /\ rcvd' = rcvd /\ granted' = granted
    BY DEF SendOn
  <1>2. sent'[0] = sent[0] + n
    BY DEF SendOn, CoreTypeOK, U31
  <1>3. /\ flow.window \in Int /\ flow.consumed \in Nat /\ credit[0] \in Nat
        /\ sent[0] \in Nat /\ n \in Nat /\ rcvd \in Nat /\ granted \in Nat /\ n <= I32Max
    BY ConstantFacts DEF CoreTypeOK, FlowType, I32, U32, U31
  <1>4. /\ flow.consumed = sent[0] + rcvd - granted
        /\ flow.window = DefaultWindow + credit[0] - flow.consumed
        /\ flow.window >= 0
        /\ rcvd - granted < DefaultWindow \div 2
    BY <1>1 DEF Ledger, ConnLedger, ConnWindowNonNegative, PeerNotStarved
  <1>5. n <= flow.window
    BY <1>3, <1>4, AvailableFacts
  <1>6. flow'.window = WrapI32(flow.window - n) /\ flow'.consumed = WrapU32(flow.consumed + n)
    BY AsI32Exact DEF SendOn, Consume, CoreTypeOK, FlowType
  <1>7. flow'.window = flow.window - n
    BY <1>1, <1>3, <1>4, <1>5, <1>6, ConstantFacts DEF WrapI32, I32Min
  <1>8. flow'.consumed = flow.consumed + n
    BY <1>1, <1>3, <1>4, <1>5, <1>6, ConstantFacts DEF WrapU32, U32Max
  <1> QED
    BY <1>1, <1>2, <1>3, <1>4, <1>5, <1>7, <1>8, ThresholdFacts, ConstantFacts
       DEF Ledger, ConnLedger, ConnWindowNonNegative, PeerNotStarved

\* Received bytes are counted once; at the threshold all of the counter goes
\* back to the window and to the peer.
LEMMA HandleDataLedger ==
    ASSUME CoreTypeOK, Ledger, NEW i, NEW len \in U31, NEW end, NEW deliver,
           HandleData(i, len, end, deliver)
    PROVE  Ledger'
  <1> SUFFICES ASSUME DefaultWindow + credit'[0] <= I32Max
               PROVE  Ledger'
    BY DEF Ledger, ConnLedger, ConnWindowNonNegative, PeerNotStarved
  <1>1. credit' = credit /\ sent' = sent /\ rcvd' = rcvd + len
    BY DEF HandleData
  <1>2. /\ flow.window \in Int /\ flow.consumed \in Nat /\ credit[0] \in Nat
        /\ sent[0] \in Nat /\ len \in Nat /\ rcvd \in Nat /\ granted \in Nat /\ len <= I32Max
    BY ConstantFacts DEF CoreTypeOK, FlowType, I32, U32, U31
  <1>3. /\ flow.consumed = sent[0] + rcvd - granted
        /\ flow.window = DefaultWindow + credit[0] - flow.consumed
        /\ flow.window >= 0
        /\ rcvd - granted < DefaultWindow \div 2
    BY <1>1 DEF Ledger, ConnLedger, ConnWindowNonNegative, PeerNotStarved
  <1> DEFINE f == AfterData(len)
  <1>4. /\ f.window = WrapI32(flow.window - len)
        /\ f.consumed = WrapU32(flow.consumed + len)
        /\ f.threshold = DefaultWindow \div 2
        /\ f \in FlowType
    BY AsI32Exact, ConsumeType DEF AfterData, Consume, CoreTypeOK, FlowType
  <1>5. f.window = flow.window - len
    BY <1>1, <1>2, <1>3, <1>4, ConstantFacts DEF WrapI32, I32Min
  <1>6. f.consumed = flow.consumed + len
    BY <1>1, <1>2, <1>3, <1>4, ConstantFacts DEF WrapU32, U32Max
  <1> HIDE DEF f
  <1>7. CASE ~UpdateDue(len)
    <2>1. flow' = f /\ granted' = granted
      BY <1>7 DEF HandleData, f
    <2>2. f.consumed < DefaultWindow \div 2
      BY <1>2, <1>4, <1>6, <1>7, ThresholdFacts DEF UpdateDue, ShouldUpdate, f
    <2> QED
      BY <1>1, <1>2, <1>3, <1>5, <1>6, <2>1, <2>2, ThresholdFacts, ConstantFacts
         DEF Ledger, ConnLedger, ConnWindowNonNegative, PeerNotStarved
  <1>8. CASE UpdateDue(len)
    <2>1. flow' = ResetPending(f) /\ granted' = granted + f.consumed
      BY <1>8 DEF HandleData, Increment, f
    <2>2. flow'.window = WrapI32(f.window + AsI32(f.consumed)) /\ flow'.consumed = 0
      BY <1>4, <2>1 DEF ResetPending, FlowType
    <2>3. f.window + f.consumed = DefaultWindow + credit[0]
      BY <1>2, <1>3, <1>5, <1>6, ConstantFacts
    <2>4. flow'.window = DefaultWindow + credit[0]
      BY <1>1, <1>2, <1>3, <1>5, <1>6, <2>2, <2>3, ConstantFacts
         DEF WrapI32, AsI32, I32Min, U32Mod, U32Max
    <2> QED
      BY <1>1, <1>2, <1>3, <1>6, <2>1, <2>2, <2>4, ThresholdFacts, ConstantFacts
         DEF Ledger, ConnLedger, ConnWindowNonNegative, PeerNotStarved
  <1> QED
    BY <1>7, <1>8
-------------------------------------------------------------------------------
(***************************************************************************)
(* What any step of a connection may do to its streams, and what follows   *)
(* from that for the state and the send window of each.                    *)
(*                                                                         *)
(* The steps are summarised first: whatever the handler, a stream that is  *)
(* kept makes one of a few moves, together with what the history records   *)
(* of it.  The invariants are then derived from the moves alone, once for  *)
(* the two connections; that every action of theirs is made of these moves *)
(* is proved beside their other theorems.                                  *)
(***************************************************************************)
(***************************************************************************)
(* The moves                                                               *)
(***************************************************************************)

\* The state of a stream changes with an end that crosses the wire, and so does
\* what is recorded of its ends; or the end is lost and only recorded; or neither
\* changes.
StateMove(i) ==
    \/ /\ streams'[i].state = streams[i].state
       /\ ended'[i] = ended[i]
    \/ /\ streams'[i].state = SendEndStream(streams[i]).state
       /\ ended'[i] = ended[i] \cup {"local"}
    \/ /\ streams'[i].state = RecvEndStream(streams[i]).state
       /\ ended'[i] = ended[i] \cup {"remote"}
    \/ /\ streams'[i].state = streams[i].state
       /\ ended'[i] = ended[i] \cup {"lost"}
    \/ /\ streams'[i].state = "Closed"
       /\ ended'[i] = ended[i] \cup {"reset"}

\* What the peer allowed for a stream less what was sent on it.
Allowance(i) == remote.initialWindow + credit[i] - sent[i]

\* The send window follows the allowance, but for wrapping.
WindowMove(i) ==
    LET exact == streams[i].sendWindow + (Allowance(i)' - Allowance(i))
    IN streams'[i].sendWindow \in {exact, exact - U32Mod, exact + U32Mod}

\* A new stream has all of its window.
WholeWindow(i) == streams'[i].sendWindow = Allowance(i)'

\* Every stream there is after the step was there before and makes a move.
Moves == \A i \in DOMAIN streams' : i \in DOMAIN streams /\ StateMove(i) /\ WindowMove(i)

\* A stream of start_request: open, whether or not its HEADERS ended it.
Started(i) ==
    /\ streams'[i].state = "Open"
    /\ ended'[i] \in {{}, {"local"}}
    /\ WholeWindow(i)

\* A stream of a request: ended by the peer if its HEADERS said so.
Requested(i) ==
    /\ \/ streams'[i].state = "Open" /\ ended'[i] = {}
       \/ streams'[i].state = "HalfClosedRemote" /\ ended'[i] = {"remote"}
    /\ WholeWindow(i)

\* The steps of the client: a stream id that wraps may replace a stream.
ClientMoves ==
    \A i \in DOMAIN streams' :
        \/ i \in DOMAIN streams /\ StateMove(i) /\ WindowMove(i)
        \/ Started(i)

\* The steps of the server: a request never replaces a stream.
ServerMoves ==
    \A i \in DOMAIN streams' :
        \/ i \in DOMAIN streams /\ StateMove(i) /\ WindowMove(i)
        \/ i \notin DOMAIN streams /\ Requested(i)

(***************************************************************************)
(* The handlers make these moves                                           *)
(***************************************************************************)

\* One conditional correction moves a sum by one modulus or not at all.
LEMMA WrapI32Near ==
    ASSUME NEW x
    PROVE  WrapI32(x) \in {x, x - U32Mod, x + U32Mod}
  BY DEF WrapI32

\* The numbers that the window of a stream is made of.
LEMMA StreamNumbers ==
    ASSUME CoreTypeOK, NEW i \in DOMAIN streams
    PROVE  /\ i # 0 /\ i \in DOMAIN ended
           /\ streams[i] \in StreamType
           /\ streams[i].sendWindow \in Int
           /\ remote.initialWindow \in Int
           /\ credit[i] \in Int /\ sent[i] \in Int
           /\ U32Mod \in Int
  <1>1. i # 0 /\ i \in DOMAIN ended
    BY DEF CoreTypeOK
  <1>2. streams[i] \in StreamType
    BY DEF CoreTypeOK
  <1>3. streams[i].sendWindow \in Int /\ U32Mod \in Int
    BY <1>2, ConstantFacts DEF StreamType, I32, I32Min, U32Mod, U32Max
  <1>4. remote.initialWindow \in Int
    BY ConstantFacts DEF CoreTypeOK, RemoteType, U31
  <1>5. credit[i] \in Int /\ sent[i] \in Int
    BY <1>1 DEF CoreTypeOK
  <1> QED
    BY <1>1, <1>2, <1>3, <1>4, <1>5

\* A stream whose window and allowance stay makes a move of the window.
LEMMA WindowStays ==
    ASSUME CoreTypeOK, NEW i \in DOMAIN streams,
           streams'[i].sendWindow = streams[i].sendWindow,
           remote'.initialWindow = remote.initialWindow,
           credit'[i] = credit[i], sent'[i] = sent[i]
    PROVE  WindowMove(i)
  BY StreamNumbers DEF WindowMove, Allowance

\* Steps that leave the streams and their history alone; WINDOW_UPDATE of the
\* connection is among them.
LEMMA MovesFrame ==
    ASSUME CoreTypeOK,
           streams' = streams, ended' = ended, remote'.initialWindow = remote.initialWindow,
           \A i \in DOMAIN streams : credit'[i] = credit[i] /\ sent'[i] = sent[i]
    PROVE  Moves
  BY WindowStays DEF Moves, StateMove

\* Steps that only the states and the ends tell apart.
LEMMA StateMovesOnly ==
    ASSUME CoreTypeOK, DOMAIN streams' \subseteq DOMAIN streams,
           UNCHANGED <<remote, sent, credit>>,
           \A i \in DOMAIN streams' : /\ streams'[i].sendWindow = streams[i].sendWindow
                                      /\ StateMove(i)
    PROVE  Moves
  BY WindowStays DEF Moves

\* The stream operations touch the state or the window, never both.
LEMMA EndStreamFields ==
    ASSUME NEW s \in StreamType
    PROVE  /\ SendEndStream(s).sendWindow = s.sendWindow
           /\ RecvEndStream(s).sendWindow = s.sendWindow
           /\ ResetStream(s).sendWindow = s.sendWindow
           /\ ResetStream(s).state = "Closed"
  BY DEF SendEndStream, RecvEndStream, ResetStream, StreamType

\* handle_settings moves every send window by the change of the initial window.
LEMMA HandleSettingsMoves ==
    ASSUME CoreTypeOK, NEW s \in PeerSettings, HandleSettings(s)
    PROVE  Moves
  <1> DEFINE delta == Setting(s, "initialWindow") - remote.initialWindow
  <1>1. /\ remote'.initialWindow = Setting(s, "initialWindow")
        /\ DOMAIN streams' = DOMAIN streams
        /\ \A i \in DOMAIN streams : streams'[i] = AdjustSendWindow(streams[i], delta)
        /\ UNCHANGED <<sent, credit, ended>>
    BY DEF HandleSettings, ApplySettings, history
  <1>2. Setting(s, "initialWindow") \in Int
    BY SettingsPayload, ConstantFacts DEF RemoteType, U31
  <1>3. ASSUME NEW i \in DOMAIN streams PROVE StateMove(i) /\ WindowMove(i)
    <2>1. /\ streams'[i].state = streams[i].state
          /\ streams'[i].sendWindow = WrapI32(streams[i].sendWindow + delta)
      BY <1>1, StreamNumbers DEF AdjustSendWindow, StreamType
    <2>2. Allowance(i)' - Allowance(i) = delta
      BY <1>1, <1>2, StreamNumbers DEF Allowance
    <2>3. WindowMove(i)
      BY <2>1, <2>2, WrapI32Near DEF WindowMove
    <2> QED
      BY <1>1, <2>1, <2>3 DEF StateMove
  <1> QED
    BY <1>1, <1>3 DEF Moves

\* WINDOW_UPDATE of a stream moves its window by the increment.
LEMMA CreditStreamMoves ==
    ASSUME CoreTypeOK, NEW i, NEW n \in U31, CreditStream(i, n)
    PROVE  Moves
  <1>1. /\ i \in DOMAIN streams /\ DOMAIN streams' = DOMAIN streams
        /\ streams'[i] = IncreaseSendWindow(streams[i], n)
        /\ \A j \in DOMAIN streams \ {i} : streams'[j] = streams[j]
        /\ \A j \in DOMAIN streams \ {i} : credit'[j] = credit[j]
        /\ UNCHANGED <<remote, sent, ended>>
    BY DEF CreditStream, CoreTypeOK
  <1>2. credit'[i] = credit[i] + n /\ n \in Int
    BY ConstantFacts DEF CreditStream, CoreTypeOK, U31
  <1>3. StateMove(i) /\ WindowMove(i)
    <2>1. /\ streams'[i].state = streams[i].state
          /\ streams'[i].sendWindow = streams[i].sendWindow + n
      BY <1>1, StreamNumbers DEF IncreaseSendWindow, StreamType
    <2>2. Allowance(i)' - Allowance(i) = n
      BY <1>1, <1>2, StreamNumbers DEF Allowance
    <2> QED
      BY <1>1, <2>1, <2>2 DEF StateMove, WindowMove
  <1>4. \A j \in DOMAIN streams \ {i} : StateMove(j) /\ WindowMove(j)
    BY <1>1, WindowStays DEF StateMove
  <1> QED
    BY <1>1, <1>3, <1>4 DEF Moves

\* handle_data ends the stream or not; its send window stays.
LEMMA HandleDataMoves ==
    ASSUME CoreTypeOK, NEW i \in U31, NEW len \in U31, NEW end \in BOOLEAN,
           NEW deliver \in BOOLEAN, HandleData(i, len, end, deliver)
    PROVE  Moves
  <1>1. /\ DOMAIN streams' = DOMAIN streams
        /\ \A j \in DOMAIN streams \ {i} : streams'[j] = streams[j]
        /\ UNCHANGED <<remote, sent, credit>>
    BY DEF HandleData
  <1>2. \A j \in DOMAIN ended \ {i} : ended'[j] = ended[j]
    BY DEF HandleData, Mark
  <1>3. ASSUME i \in DOMAIN streams
        PROVE  streams'[i].sendWindow = streams[i].sendWindow /\ StateMove(i)
    <2> DEFINE got == RecvBytes(streams[i], len)
    <2>1. /\ got \in StreamType /\ got.sendWindow = streams[i].sendWindow
          /\ got.state = streams[i].state
          /\ RecvEndStream(got).state = RecvEndStream(streams[i]).state
      <3>1. got \in StreamType
        BY <1>3, StreamNumbers, RecvBytesType
      <3> QED
        BY <1>3, <3>1, StreamNumbers DEF RecvBytes, StreamType, RecvEndStream
    <2>2. streams'[i] = IF end THEN RecvEndStream(got) ELSE got
      BY <1>3 DEF HandleData
    <2>3. ended'[i] = IF end THEN ended[i] \cup {"remote"} ELSE ended[i]
      BY <1>3, StreamNumbers DEF HandleData, Mark, EndMark, CoreTypeOK
    <2> HIDE DEF got
    <2> QED
      BY <2>1, <2>2, <2>3, EndStreamFields DEF StateMove
  <1>4. \A j \in DOMAIN streams \ {i} : StateMove(j)
    BY <1>1, <1>2, StreamNumbers DEF StateMove
  <1> QED
    BY <1>1, <1>3, <1>4, StateMovesOnly

\* What HEADERS, of either direction, and RST_STREAM have in common: at most one
\* stream changes its state, and its end is recorded.
LEMMA OneStateMove ==
    ASSUME CoreTypeOK, NEW i, NEW stream, NEW ends,
           streams' = IF i \in DOMAIN streams
                      THEN [streams EXCEPT ![i] = stream] ELSE streams,
           Mark(i, ends), UNCHANGED <<remote, sent, credit>>,
           i \in DOMAIN streams =>
               /\ stream.sendWindow = streams[i].sendWindow
               /\ \/ stream.state = streams[i].state /\ ends = {}
                  \/ stream.state = SendEndStream(streams[i]).state /\ ends = {"local"}
                  \/ stream.state = RecvEndStream(streams[i]).state /\ ends = {"remote"}
                  \/ stream.state = streams[i].state /\ ends = {"lost"}
                  \/ stream.state = "Closed" /\ ends = {"reset"}
    PROVE  Moves
  <1>1. /\ DOMAIN streams' = DOMAIN streams
        /\ \A j \in DOMAIN streams \ {i} : streams'[j] = streams[j]
        /\ i \in DOMAIN streams => streams'[i] = stream
    OBVIOUS
  <1>2. /\ \A j \in DOMAIN ended \ {i} : ended'[j] = ended[j]
        /\ i \in DOMAIN ended => ended'[i] = ended[i] \cup ends
    BY DEF Mark, CoreTypeOK
  <1>3. \A j \in DOMAIN streams \ {i} : StateMove(j)
    BY <1>1, <1>2, StreamNumbers DEF StateMove
  <1>4. i \in DOMAIN streams => StateMove(i)
    BY <1>1, <1>2, StreamNumbers DEF StateMove
  <1> QED
    BY <1>1, <1>3, <1>4, StateMovesOnly

\* A refused frame leaves the stream alone, whatever end it carried.
LEMMA HandleRefusedMoves ==
    ASSUME CoreTypeOK, NEW i, NEW end \in BOOLEAN, NEW named, HandleRefused(i, end, named)
    PROVE  Moves
  <1> DEFINE ends == EndMark(end, "lost")
  <1>1. ends \in {{}, {"lost"}}
    BY DEF EndMark
  <1>2. streams \in [DOMAIN streams -> StreamType]
    BY DEF CoreTypeOK
  <1>3. streams' = IF i \in DOMAIN streams
                   THEN [streams EXCEPT ![i] = streams[i]] ELSE streams
    BY <1>2 DEF HandleRefused
  <1>4. Mark(i, ends) /\ UNCHANGED <<remote, sent, credit>>
    BY DEF HandleRefused
  <1> HIDE DEF ends
  <1> QED
    BY <1>1, <1>3, <1>4, OneStateMove

\* handle_rst_stream closes the stream.
LEMMA HandleRstStreamMoves ==
    ASSUME CoreTypeOK, NEW i, HandleRstStream(i)
    PROVE  Moves
  <1>1. i \in DOMAIN streams => streams[i] \in StreamType
    BY StreamNumbers
  <1> QED
    BY <1>1, OneStateMove, EndStreamFields DEF HandleRstStream

\* send_data moves the window of its stream by what it sent.
LEMMA SendOnMoves ==
    ASSUME CoreTypeOK, NEW i \in DOMAIN streams, NEW n \in U31, NEW isEnd \in BOOLEAN,
           SendOn(i, n, isEnd)
    PROVE  Moves
  <1> DEFINE charged == SendBytes(streams[i], n)
  <1>1. /\ DOMAIN streams' = DOMAIN streams
        /\ streams'[i] = IF isEnd THEN SendEndStream(charged) ELSE charged
        /\ \A j \in DOMAIN streams \ {i} : streams'[j] = streams[j]
        /\ UNCHANGED <<remote, credit>>
    BY DEF SendOn, CoreTypeOK
  <1>2. /\ sent'[i] = sent[i] + n /\ n \in Int
        /\ \A j \in DOMAIN streams \ {i} : sent'[j] = sent[j]
    BY StreamNumbers, ConstantFacts DEF SendOn, CoreTypeOK, U31
  <1>3. /\ ended'[i] = IF isEnd THEN ended[i] \cup {"local"} ELSE ended[i]
        /\ \A j \in DOMAIN streams \ {i} : ended'[j] = ended[j]
    BY StreamNumbers DEF SendOn, Mark, EndMark, CoreTypeOK
  <1>4. /\ charged \in StreamType /\ charged.state = streams[i].state
        /\ charged.sendWindow = WrapI32(streams[i].sendWindow - n)
        /\ SendEndStream(charged).state = SendEndStream(streams[i]).state
    <2>1. charged \in StreamType
      BY StreamNumbers, SendBytesType
    <2> QED
      BY <2>1, StreamNumbers, AsI32Exact DEF SendBytes, StreamType, SendEndStream
  <1> HIDE DEF charged
  <1>5. StateMove(i)
    BY <1>1, <1>3, <1>4 DEF StateMove
  <1>6. WindowMove(i)
    <2>1. streams'[i].sendWindow = WrapI32(streams[i].sendWindow - n)
      BY <1>1, <1>4, EndStreamFields
    <2>2. streams[i].sendWindow + (Allowance(i)' - Allowance(i)) = streams[i].sendWindow - n
      BY <1>1, <1>2, StreamNumbers DEF Allowance
    <2> QED
      BY <2>1, <2>2, WrapI32Near DEF WindowMove
  <1>7. \A j \in DOMAIN streams \ {i} : StateMove(j) /\ WindowMove(j)
    BY <1>1, <1>2, <1>3, WindowStays DEF StateMove
  <1> QED
    BY <1>1, <1>5, <1>6, <1>7 DEF Moves

\* A stream opened leaves the other streams alone.
LEMMA OpenStreamMoves ==
    ASSUME CoreTypeOK, NEW i \in U31 \ {0}, NEW stream, NEW ends,
           OpenStream(i, stream, ends), UNCHANGED remote
    PROVE  /\ DOMAIN streams' = DOMAIN streams \cup {i}
           /\ \A j \in DOMAIN streams \ {i} : StateMove(j) /\ WindowMove(j)
           /\ streams'[i] = stream /\ ended'[i] = ends
           /\ Allowance(i)' = remote.initialWindow
  <1>1. /\ DOMAIN streams' = DOMAIN streams \cup {i}
        /\ streams'[i] = stream /\ ended'[i] = ends
        /\ \A j \in DOMAIN streams \ {i} :
              streams'[j] = streams[j] /\ ended'[j] = ended[j]
    BY StreamNumbers DEF OpenStream, Insert
  <1>2. /\ sent'[i] = 0 /\ credit'[i] = 0
        /\ \A j \in DOMAIN streams \ {i} : sent'[j] = sent[j] /\ credit'[j] = credit[j]
    BY DEF OpenStream, Insert, CoreTypeOK
  <1>3. \A j \in DOMAIN streams \ {i} : StateMove(j) /\ WindowMove(j)
    BY <1>1, <1>2, WindowStays DEF StateMove
  <1>4. Allowance(i)' = remote.initialWindow
    BY <1>2, ConstantFacts DEF Allowance, CoreTypeOK, RemoteType, U31
  <1> QED
    BY <1>1, <1>3, <1>4

\* A stream is opened with the window the peer announced.
LEMMA NewStreamWindow ==
    ASSUME CoreTypeOK
    PROVE  /\ NewStream(remote.initialWindow).sendWindow = remote.initialWindow
           /\ NewStream(remote.initialWindow).state = "Open"
           /\ NewStream(remote.initialWindow) \in StreamType
  BY AsI32Exact, NewStreamType DEF NewStream, CoreTypeOK, RemoteType
-------------------------------------------------------------------------------
(***************************************************************************)
(* What the moves keep true                                                *)
(***************************************************************************)

\* A step of either end.
AnyMoves ==
    \A i \in DOMAIN streams' :
        \/ i \in DOMAIN streams /\ StateMove(i) /\ WindowMove(i)
        \/ Started(i)
        \/ Requested(i)

\* The steps of the client and of the server are such steps.
LEMMA AnyEnd ==
    /\ Moves => ClientMoves /\ ServerMoves
    /\ ClientMoves \/ ServerMoves => AnyMoves
  BY DEF Moves, ClientMoves, ServerMoves, AnyMoves

\* The states that END_STREAM, of either side, leads to.
LEMMA EndStreamStates ==
    ASSUME NEW s \in StreamType
    PROVE  /\ s.state \in StreamStates
           /\ SendEndStream(s).state = CASE s.state = "Open"             -> "HalfClosedLocal"
                                         [] s.state = "HalfClosedRemote" -> "Closed"
                                         [] OTHER                        -> s.state
           /\ RecvEndStream(s).state = CASE s.state = "Open"            -> "HalfClosedRemote"
                                         [] s.state = "HalfClosedLocal" -> "Closed"
                                         [] OTHER                       -> s.state
  BY DEF SendEndStream, RecvEndStream, StreamType

\* No move claims an end that did not cross the wire or reopens a reset stream.
LEMMA MovesJustified ==
    ASSUME CoreTypeOK, StreamStateJustified, AnyMoves
    PROVE  StreamStateJustified'
  <1> DEFINE Justified(st, ends) ==
        /\ st = "HalfClosedLocal"  => "local" \in ends
        /\ st = "HalfClosedRemote" => "remote" \in ends
        /\ st = "Closed" => "reset" \in ends \/ {"local", "remote"} \subseteq ends
        /\ "reset" \in ends => st = "Closed"
  <1>1. \A i \in DOMAIN streams : Justified(streams[i].state, ended[i])
    BY DEF StreamStateJustified
  <1>2. ASSUME NEW i \in DOMAIN streams' PROVE Justified(streams'[i].state, ended'[i])
    <2>1. CASE i \in DOMAIN streams /\ StateMove(i)
      <3>1. streams[i] \in StreamType /\ Justified(streams[i].state, ended[i])
        BY <1>1, <2>1, StreamNumbers
      <3> QED
        BY <2>1, <3>1, EndStreamStates DEF StateMove, StreamStates
    <2>2. CASE Started(i) \/ Requested(i)
      BY <2>2 DEF Started, Requested
    <2> QED
      BY <2>1, <2>2 DEF AnyMoves
  <1> QED
    BY <1>2 DEF StreamStateJustified

\* END_STREAM of the peer, if its frame is not refused, closes its side for good.
LEMMA MovesPeerEnd ==
    ASSUME CoreTypeOK, AcceptedEndRecorded, AnyMoves
    PROVE  AcceptedEndRecorded'
  <1>1. ASSUME NEW i \in DOMAIN streams', "remote" \in ended'[i]
        PROVE  streams'[i].state \notin {"Open", "HalfClosedLocal"}
    <2>1. CASE i \in DOMAIN streams /\ StateMove(i)
      <3>1. /\ streams[i] \in StreamType
            /\ "remote" \in ended[i] => streams[i].state \notin {"Open", "HalfClosedLocal"}
        BY <2>1, StreamNumbers DEF AcceptedEndRecorded, CanRecv
      <3> QED
        BY <1>1, <2>1, <3>1, EndStreamStates DEF StateMove, StreamStates
    <2>2. CASE Started(i) \/ Requested(i)
      BY <1>1, <2>2 DEF Started, Requested
    <2> QED
      BY <2>1, <2>2 DEF AnyMoves
  <1> QED
    BY <1>1 DEF AcceptedEndRecorded, CanRecv

\* END_STREAM of the server closes its side for good.
LEMMA MovesOwnEnd ==
    ASSUME CoreTypeOK, EndStreamRecorded, ServerMoves
    PROVE  EndStreamRecorded'
  <1>1. ASSUME NEW i \in DOMAIN streams', "local" \in ended'[i]
        PROVE  streams'[i].state \notin {"Open", "HalfClosedRemote"}
    <2>1. CASE i \in DOMAIN streams /\ StateMove(i)
      <3>1. /\ streams[i] \in StreamType
            /\ "local" \in ended[i] => streams[i].state \notin {"Open", "HalfClosedRemote"}
        BY <2>1, StreamNumbers DEF EndStreamRecorded, CanSend
      <3> QED
        BY <1>1, <2>1, <3>1, EndStreamStates DEF StateMove, StreamStates
    <2>2. CASE Requested(i)
      BY <1>1, <2>2 DEF Requested
    <2> QED
      BY <2>1, <2>2 DEF ServerMoves
  <1> QED
    BY <1>1 DEF EndStreamRecorded, CanSend

\* A move of the state is a move towards Closed.
LEMMA MovesForward ==
    ASSUME CoreTypeOK, NEW i \in DOMAIN streams, StateMove(i),
           streams'[i].state # streams[i].state
    PROVE  Rank(streams'[i].state) > Rank(streams[i].state)
  <1>1. streams[i] \in StreamType
    BY StreamNumbers
  <1> QED
    BY <1>1, EndStreamStates DEF StateMove, StreamStates, Rank

\* A multiple of the modulus stays one when a modulus is added or taken away.
LEMMA MultipleKept ==
    ASSUME NEW m \in Nat \ {0}, NEW x \in Int, x % m = 0
    PROVE  (x + m) % m = 0 /\ (x - m) % m = 0
  <1>1. PICK q \in Int : x = m * q
    BY SMTT(30)
  <1>2. x + m = m * (q + 1) /\ x - m = m * (q - 1)
    BY <1>1
  <1>3. (m * (q + 1)) % m = 0
    BY SMTT(30)
  <1>4. (m * (q - 1)) % m = 0
    BY SMTT(30)
  <1> QED
    BY <1>2, <1>3, <1>4

\* The send window stays congruent to the allowance.
LEMMA MovesLedger ==
    ASSUME CoreTypeOK, CoreTypeOK', StreamLedger, AnyMoves
    PROVE  StreamLedger'
  <1>1. U32Mod \in Nat \ {0}
    BY ConstantFacts DEF U32Mod, U32Max
  <1>2. ASSUME NEW i \in DOMAIN streams'
        PROVE  (streams'[i].sendWindow - Allowance(i)') % U32Mod = 0
    <2>0. streams'[i].sendWindow \in Int /\ Allowance(i)' \in Int
      <3>1. streams'[i] \in StreamType /\ i \in DOMAIN ended'
        BY DEF CoreTypeOK
      <3>2. streams'[i].sendWindow \in Int
        BY <3>1, ConstantFacts DEF StreamType, I32, I32Min
      <3>3. remote'.initialWindow \in Int
        BY ConstantFacts DEF CoreTypeOK, RemoteType, U31
      <3>4. credit'[i] \in Int /\ sent'[i] \in Int
        BY <3>1 DEF CoreTypeOK
      <3> QED
        BY <3>2, <3>3, <3>4 DEF Allowance
    <2>1. CASE i \in DOMAIN streams /\ WindowMove(i)
      <3>1. /\ streams[i].sendWindow \in Int /\ Allowance(i) \in Int
            /\ (streams[i].sendWindow - Allowance(i)) % U32Mod = 0
        BY <2>1, StreamNumbers DEF StreamLedger, Allowance
      <3> DEFINE gap == streams[i].sendWindow - Allowance(i)
      <3>2. streams'[i].sendWindow - Allowance(i)' \in {gap, gap + U32Mod, gap - U32Mod}
        BY <1>1, <2>0, <2>1, <3>1 DEF WindowMove
      <3>3. gap \in Int /\ gap % U32Mod = 0
        BY <3>1
      <3> HIDE DEF gap
      <3> QED
        BY <1>1, <3>2, <3>3, MultipleKept
    <2>2. CASE Started(i) \/ Requested(i)
      <3>1. streams'[i].sendWindow - Allowance(i)' = 0
        BY <2>0, <2>2 DEF Started, Requested, WholeWindow
      <3> QED
        BY <1>1, <3>1, SMT
    <2> QED
      BY <2>1, <2>2 DEF AnyMoves
  <1> QED
    BY <1>2 DEF StreamLedger, Allowance
-------------------------------------------------------------------------------
(***************************************************************************)
(* What a handler does to the counters of the connection and to the        *)
(* windows of the streams, exactly, while no sum wraps.                    *)
(***************************************************************************)

\* The counters of the connection stay as they are.
CountersStay ==
    /\ flow' = flow /\ rcvd' = rcvd /\ granted' = granted
    /\ sent'[0] = sent[0] /\ credit'[0] = credit[0]

\* So do the streams, but for their states.
WindowsStay ==
    /\ DOMAIN streams' = DOMAIN streams
    /\ \A j \in DOMAIN streams : /\ streams'[j].sendWindow = streams[j].sendWindow
                                 /\ streams'[j].recvWindow = streams[j].recvWindow

\* What is said of the state of at most one stream leaves the windows alone.
LEMMA OneStateWindows ==
    ASSUME CoreTypeOK, NEW i, NEW stream,
           streams' = IF i \in DOMAIN streams
                      THEN [streams EXCEPT ![i] = stream] ELSE streams,
           i \in DOMAIN streams => /\ stream.sendWindow = streams[i].sendWindow
                                   /\ stream.recvWindow = streams[i].recvWindow
    PROVE  WindowsStay
  BY DEF WindowsStay

\* The operations on the state of a stream are of that kind.
LEMMA StateOnly ==
    ASSUME NEW s \in StreamType
    PROVE  /\ SendEndStream(s).sendWindow = s.sendWindow
           /\ SendEndStream(s).recvWindow = s.recvWindow
           /\ RecvEndStream(s).sendWindow = s.sendWindow
           /\ RecvEndStream(s).recvWindow = s.recvWindow
           /\ ResetStream(s).sendWindow = s.sendWindow
           /\ ResetStream(s).recvWindow = s.recvWindow
  BY DEF SendEndStream, RecvEndStream, ResetStream, StreamType

\* RST_STREAM moves no window and no counter.
LEMMA RstStreamEffect ==
    ASSUME CoreTypeOK, NEW i, HandleRstStream(i)
    PROVE  CountersStay /\ WindowsStay
  <1>1. i \in DOMAIN streams => streams[i] \in StreamType
    BY DEF CoreTypeOK
  <1>2. WindowsStay
    BY <1>1, OneStateWindows, StateOnly DEF HandleRstStream
  <1> QED
    BY <1>2 DEF HandleRstStream, CountersStay

\* SETTINGS that repeat what they said move no window.
LEMMA SettingsEffect ==
    ASSUME CoreTypeOK, NEW s, HandleSettings(s),
           DOMAIN s = SettingNames, s["initialWindow"] = remote.initialWindow
    PROVE  /\ CountersStay /\ WindowsStay
           /\ remote' = [initialWindow |-> s["initialWindow"], maxFrame |-> s["maxFrame"],
                         maxConcurrent |-> s["maxConcurrent"]]
  <1>1. /\ Setting(s, "initialWindow") = s["initialWindow"]
        /\ Setting(s, "maxFrame") = s["maxFrame"]
        /\ Setting(s, "maxConcurrent") = s["maxConcurrent"]
    BY DEF Setting, SettingNames
  <1>2. remote.initialWindow \in Int
    BY ConstantFacts DEF CoreTypeOK, RemoteType, U31
  <1>3. streams' = [j \in DOMAIN streams |-> AdjustSendWindow(streams[j], 0)]
    BY <1>1, <1>2 DEF HandleSettings, ApplySettings
  <1>4. ASSUME NEW j \in DOMAIN streams
        PROVE  /\ streams'[j].sendWindow = streams[j].sendWindow
               /\ streams'[j].recvWindow = streams[j].recvWindow
    <2>1. streams[j] \in StreamType
      BY DEF CoreTypeOK
    <2>2. streams[j].sendWindow \in I32 /\ streams[j].sendWindow + 0 = streams[j].sendWindow
      BY <2>1, ConstantFacts DEF StreamType, I32, I32Min
    <2>3. WrapI32(streams[j].sendWindow + 0) = streams[j].sendWindow
      BY <2>2, WrapI32Exact
    <2> QED
      BY <1>3, <2>1, <2>3 DEF AdjustSendWindow, StreamType
  <1>5. WindowsStay
    BY <1>3, <1>4 DEF WindowsStay
  <1> QED
    BY <1>1, <1>5 DEF HandleSettings, ApplySettings, CountersStay, history

\* Received DATA is charged to the connection and to its stream, and what has
\* gathered is given back as soon as it reaches the threshold.
LEMMA DataEffect ==
    ASSUME CoreTypeOK, Ledger, DefaultWindow + credit[0] <= I32Max,
           NEW i \in U31, NEW len \in U31, NEW end \in BOOLEAN, NEW deliver \in BOOLEAN,
           HandleData(i, len, end, deliver), sent[0] + rcvd + len <= I32Max
    PROVE  /\ sent' = sent /\ credit' = credit /\ rcvd' = rcvd + len
           /\ flow'.consumed < DefaultWindow \div 2
           /\ \/ ~UpdateDue(len) /\ granted' = granted
              \/ /\ UpdateDue(len) /\ Increment(len) \in U31 \ {0}
                 /\ granted' = granted + Increment(len)
                 /\ granted' = sent[0] + rcvd'
           /\ DOMAIN streams' = DOMAIN streams
           /\ \A j \in DOMAIN streams : streams'[j].sendWindow = streams[j].sendWindow
           /\ \A j \in DOMAIN streams \ {i} : streams'[j].recvWindow = streams[j].recvWindow
           /\ i \in DOMAIN streams /\ streams[i].recvWindow >= 0 =>
                 streams'[i].recvWindow = streams[i].recvWindow - len
  <1>1. /\ flow.window \in Int /\ flow.consumed \in Nat /\ credit[0] \in Nat
        /\ sent[0] \in Nat /\ len \in Nat /\ rcvd \in Nat /\ granted \in Nat /\ len <= I32Max
    BY ConstantFacts DEF CoreTypeOK, FlowType, I32, U32, U31
  <1>2. flow.consumed = sent[0] + rcvd - granted
    BY DEF Ledger, ConnLedger
  <1>3. AfterData(len).consumed = flow.consumed + len /\ AfterData(len).threshold = DefaultWindow \div 2
        /\ AfterData(len) \in FlowType
    <2>1. AfterData(len).consumed = WrapU32(flow.consumed + len)
          /\ AfterData(len).threshold = DefaultWindow \div 2 /\ AfterData(len) \in FlowType
      BY ConsumeType DEF AfterData, Consume, CoreTypeOK, FlowType
    <2> QED
      BY <1>1, <1>2, <2>1, ConstantFacts DEF WrapU32, U32Max
  <1>4. UpdateDue(len) <=> flow.consumed + len >= DefaultWindow \div 2
    BY <1>3 DEF UpdateDue, ShouldUpdate
  <1>5. flow'.consumed = IF UpdateDue(len) THEN 0 ELSE flow.consumed + len
    BY <1>3 DEF HandleData, ResetPending, FlowType
  <1>6. flow'.consumed < DefaultWindow \div 2
    BY <1>1, <1>4, <1>5, ThresholdFacts
  <1>7. \/ ~UpdateDue(len) /\ granted' = granted
        \/ /\ UpdateDue(len) /\ Increment(len) \in U31 \ {0}
           /\ granted' = granted + Increment(len) /\ granted' = sent[0] + (rcvd + len)
    BY <1>1, <1>2, <1>3, <1>4, ThresholdFacts, ConstantFacts DEF HandleData, Increment, U31
  <1>8. /\ DOMAIN streams' = DOMAIN streams
        /\ \A j \in DOMAIN streams \ {i} : streams'[j] = streams[j]
    BY DEF HandleData
  <1>9. ASSUME i \in DOMAIN streams
        PROVE  /\ streams'[i].sendWindow = streams[i].sendWindow
               /\ streams[i].recvWindow >= 0 =>
                     streams'[i].recvWindow = streams[i].recvWindow - len
    <2> DEFINE got == RecvBytes(streams[i], len)
    <2>1. streams[i] \in StreamType /\ got \in StreamType
      BY <1>9, RecvBytesType DEF CoreTypeOK
    <2>2. got.sendWindow = streams[i].sendWindow
          /\ got.recvWindow = WrapI32(streams[i].recvWindow - len)
      BY <2>1, AsI32Exact DEF RecvBytes, StreamType
    <2>3. streams[i].recvWindow >= 0 =>
             WrapI32(streams[i].recvWindow - len) = streams[i].recvWindow - len
      <3>1. streams[i].recvWindow \in I32
        BY <2>1 DEF StreamType
      <3> QED
        BY <1>1, <3>1, ConstantFacts DEF WrapI32, I32, I32Min
    <2>4. streams'[i] = IF end THEN RecvEndStream(got) ELSE got
      BY <1>9 DEF HandleData
    <2> HIDE DEF got
    <2> QED
      BY <2>1, <2>2, <2>3, <2>4, StateOnly
  <1> QED
    BY <1>6, <1>7, <1>8, <1>9 DEF HandleData

\* Sent DATA is charged to both windows, which it fits.
LEMMA SendEffect ==
    ASSUME CoreTypeOK, Ledger, DefaultWindow + credit[0] <= I32Max,
           NEW i \in DOMAIN streams, NEW n \in U31, NEW isEnd \in BOOLEAN,
           n <= Available(i), streams[i].sendWindow >= 0, SendOn(i, n, isEnd)
    PROVE  /\ sent'[0] = sent[0] + n /\ credit' = credit /\ rcvd' = rcvd /\ granted' = granted
           /\ flow'.consumed = flow.consumed + n
           /\ DOMAIN streams' = DOMAIN streams
           /\ \A j \in DOMAIN streams : streams'[j].recvWindow = streams[j].recvWindow
           /\ \A j \in DOMAIN streams \ {i} : streams'[j].sendWindow = streams[j].sendWindow
           /\ n <= streams[i].sendWindow
           /\ streams'[i].sendWindow = streams[i].sendWindow - n
  <1>1. /\ flow.window \in Int /\ flow.consumed \in Nat /\ credit[0] \in Nat
        /\ sent[0] \in Nat /\ n \in Nat /\ rcvd \in Nat /\ granted \in Nat /\ n <= I32Max
    BY ConstantFacts DEF CoreTypeOK, FlowType, I32, U32, U31
  <1>2. /\ flow.consumed = sent[0] + rcvd - granted
        /\ flow.window = DefaultWindow + credit[0] - flow.consumed
        /\ flow.window >= 0
    BY DEF Ledger, ConnLedger, ConnWindowNonNegative
  <1>3. streams[i] \in StreamType /\ streams[i].sendWindow \in I32
    BY DEF CoreTypeOK, StreamType
  <1>4. n <= flow.window /\ n <= streams[i].sendWindow
    BY <1>1, <1>2, <1>3, ConstantFacts DEF Available, Lesser, AsUSize, I32, I32Min
  <1>5. flow'.consumed = WrapU32(flow.consumed + n)
    BY DEF SendOn, Consume, CoreTypeOK, FlowType
  <1>6. flow'.consumed = flow.consumed + n
    BY <1>1, <1>2, <1>4, <1>5, ConstantFacts DEF WrapU32, U32Max
  <1>7. sent'[0] = sent[0] + n
    BY <1>1 DEF SendOn, CoreTypeOK
  <1> DEFINE charged == SendBytes(streams[i], n)
  <1>8. /\ DOMAIN streams' = DOMAIN streams
        /\ streams'[i] = IF isEnd THEN SendEndStream(charged) ELSE charged
        /\ \A j \in DOMAIN streams \ {i} : streams'[j] = streams[j]
    BY DEF SendOn, CoreTypeOK
  <1>9. /\ charged \in StreamType /\ charged.recvWindow = streams[i].recvWindow
        /\ charged.sendWindow = streams[i].sendWindow - n
    <2>1. WrapI32(streams[i].sendWindow - n) = streams[i].sendWindow - n
      BY <1>1, <1>3, <1>4, ConstantFacts DEF WrapI32, I32, I32Min
    <2>2. charged \in StreamType
      BY <1>3, SendBytesType
    <2> QED
      BY <1>3, <2>1, <2>2, AsI32Exact DEF SendBytes, StreamType
  <1> HIDE DEF charged
  <1>10. /\ streams'[i].sendWindow = streams[i].sendWindow - n
         /\ streams'[i].recvWindow = streams[i].recvWindow
    BY <1>8, <1>9, StateOnly
  <1> QED
    BY <1>4, <1>6, <1>7, <1>8, <1>10 DEF SendOn

\* Credit of the connection moves its window alone.
LEMMA CreditEffect ==
    ASSUME CoreTypeOK, NEW n \in U31, CreditConnection(n)
    PROVE  /\ credit'[0] = credit[0] + n /\ flow'.consumed = flow.consumed
           /\ sent' = sent /\ rcvd' = rcvd /\ granted' = granted /\ streams' = streams
  BY DEF CreditConnection, IncreaseWindow, CoreTypeOK, FlowType

\* A stream opened has two whole windows, and the other streams stay.
LEMMA OpenEffect ==
    ASSUME CoreTypeOK, NEW i \in U31 \ {0}, NEW stream, NEW ends,
           OpenStream(i, stream, ends)
    PROVE  /\ DOMAIN streams' = DOMAIN streams \cup {i}
           /\ streams'[i] = stream
           /\ \A j \in DOMAIN streams \ {i} : streams'[j] = streams[j]
           /\ sent'[0] = sent[0] /\ credit'[0] = credit[0]
  BY DEF OpenStream, Insert, CoreTypeOK

\* What start_request and a request open.
LEMMA WholeWindows ==
    ASSUME CoreTypeOK, NEW end \in BOOLEAN,
           NEW stream, stream \in {NewStream(remote.initialWindow),
                                   RecvEndStream(NewStream(remote.initialWindow))}
    PROVE  stream.sendWindow = remote.initialWindow /\ stream.recvWindow = remote.initialWindow
  <1> DEFINE new == NewStream(remote.initialWindow)
  <1>1. new \in StreamType
    BY NewStreamWindow
  <1>2. new.sendWindow = remote.initialWindow /\ new.recvWindow = remote.initialWindow
    BY AsI32Exact DEF NewStream, CoreTypeOK, RemoteType
  <1> HIDE DEF new
  <1> QED
    BY <1>1, <1>2, StateOnly DEF new
===============================================================================
