--------------------------- MODULE Connection_proofs --------------------------
(***************************************************************************)
(* Proofs about the client connection: type correctness, and the           *)
(* connection-level flow control ledger with what follows from it.         *)
(***************************************************************************)
EXTENDS Connection, Endpoint_proofs, SequenceTheorems

\* The number of requests is bounded by the width of the id.
LEMMA ClientConstants == MaxRequests \in Nat /\ MaxRequests <= I32Max
  BY ConnectionAssumption

\* Two frames are a sequence of frames.
LEMMA PairInSeq ==
    ASSUME NEW S, NEW a \in S, NEW b \in S
    PROVE  <<a, b>> \in Seq(S)
  OBVIOUS

\* However much of buf the transport takes, both halves are frames.
LEMMA FlushType ==
    ASSUME sock \in Seq(FrameType), NEW buf \in Seq(FrameType), Flush(buf)
    PROVE  writeBuf' \in Seq(FrameType) /\ sock' \in Seq(FrameType)
  <1>1. CASE transport = "Ready"
    <2>1. Len(buf) \in Nat
      OBVIOUS
    <2>2. PICK n \in Accepted(buf) : /\ sock' = sock \o SubSeq(buf, 1, n)
                                     /\ writeBuf' = SubSeq(buf, n + 1, Len(buf))
      BY <1>1 DEF Flush
    <2>3. n \in 0 .. Len(buf)
      <3>1. Accepted(buf) = 0 .. Len(buf) - 1 \/ Accepted(buf) = {Len(buf)}
        BY DEF Accepted
      <3> QED
        BY <2>1, <2>2, <3>1
    <2>4. SubSeq(buf, 1, n) \in Seq(FrameType) /\ SubSeq(buf, n + 1, Len(buf)) \in Seq(FrameType)
      BY <2>1, <2>3, SubSeqProperties
    <2> QED
      BY <2>2, <2>4
  <1>2. CASE transport # "Ready"
    BY <1>2 DEF Flush
  <1> QED
    BY <1>1, <1>2

\* Encoding one frame and flushing keeps the buffers sequences of frames.
LEMMA EmitType ==
    ASSUME sock \in Seq(FrameType), writeBuf \in Seq(FrameType),
           NEW frame \in FrameType, Emit(frame)
    PROVE  writeBuf' \in Seq(FrameType) /\ sock' \in Seq(FrameType)
  <1>1. Append(writeBuf, frame) \in Seq(FrameType)
    OBVIOUS
  <1> QED
    BY <1>1, FlushType DEF Emit

\* next_stream_id is odd and 2^31 even, so an id is never 0, wrapped or not.
LEMMA NewStreamIdType ==
    ASSUME nextStreamId \in {2 * k + 1 : k \in 0 .. MaxRequests}, nextStreamId < 2 * MaxRequests
    PROVE  /\ NewStreamId \in U31 \ {0}
           /\ nextStreamId + 2 \in {2 * k + 1 : k \in 0 .. MaxRequests}
  <1>1. PICK k \in 0 .. MaxRequests : nextStreamId = 2 * k + 1
    OBVIOUS
  <1>2. PICK h \in 0 .. I32Max : I32Max = 2 * h + 1
    BY MachineIntAssumption
  <1>3. k \in Nat /\ h \in Nat /\ k + 1 <= MaxRequests
    BY <1>1, <1>2, ClientConstants
  <1>4. nextStreamId + 2 = 2 * (k + 1) + 1 /\ k + 1 \in 0 .. MaxRequests
    BY <1>1, <1>3, ClientConstants
  <1>5. CASE nextStreamId > I32Max
    <2>1. NewStreamId = 2 * (k - h) - 1
      BY <1>1, <1>2, <1>3, <1>5 DEF NewStreamId
    <2> QED
      BY <1>1, <1>2, <1>3, <1>4, <1>5, <2>1, ClientConstants DEF U31
  <1>6. CASE nextStreamId <= I32Max
    BY <1>1, <1>2, <1>3, <1>4, <1>6, ClientConstants DEF U31, NewStreamId
  <1> QED
    BY <1>1, <1>2, <1>3, <1>5, <1>6, ClientConstants

\* What the client takes of a call is a 31-bit number that both windows allow.
LEMMA ClientAvailable ==
    ASSUME CoreTypeOK, NEW i \in DOMAIN streams, NEW len \in U31
    PROVE  /\ ToSend(i, len) \in U31
           /\ ToSend(i, len) <= Available(i)
  <1>1. remote.maxFrame \in 1 .. I32Max
    BY DEF CoreTypeOK, RemoteType
  <1> QED
    BY <1>1, AvailableFacts, ConstantFacts DEF ToSend, Lesser, U31

-------------------------------------------------------------------------------
(***************************************************************************)
(* Type correctness, one step per action.                                  *)
(***************************************************************************)

\* What the peer and the application may give.
LEMMA InputFacts ==
    /\ PeerIds \subseteq U31 \ {0} /\ PeerIncrements \subseteq U31
    /\ PeerLens \subseteq U31 /\ AppLens \subseteq U31
    /\ PeerEnds \subseteq BOOLEAN /\ AppEnds \subseteq BOOLEAN
  BY EndpointAssumption, ConstantFacts DEF U31

\* Connection::new builds a well typed state.
LEMMA InitTypeOK == Init => TypeOK
  <1> SUFFICES ASSUME Init PROVE TypeOK
    OBVIOUS
  <1>1. EndpointTypeOK
    BY InitType DEF Init
  <1>2. nextStreamId \in {2 * k + 1 : k \in 0 .. MaxRequests}
    <2>1. 0 \in 0 .. MaxRequests /\ nextStreamId = 2 * 0 + 1
      BY ClientConstants DEF Init
    <2> QED
      BY <2>1
  <1>3. sock \in Seq(FrameType)
    BY DEF Init
  <1>4. transport \in {"Handshaking", "Ready", "Error", "Closed"}
    BY ConnectionAssumption DEF Init
  <1> QED
    BY <1>1, <1>2, <1>3, <1>4 DEF TypeOK

\* Every step of the client keeps the types: one case per action.
LEMMA NextTypeOK == TypeOK /\ [Next]_vars => TypeOK'
  <1> SUFFICES ASSUME TypeOK, [Next]_vars PROVE TypeOK'
    OBVIOUS
  <1> USE InputFacts
  <1>0. /\ CoreTypeOK /\ writeBuf \in Seq(FrameType) /\ sock \in Seq(FrameType)
        /\ 0 \in U31 /\ 0 \in Nat
    BY ZeroInU31 DEF TypeOK, EndpointTypeOK
  <1>1. ASSUME NEW s \in PeerSettings, RecvSettings(s) PROVE TypeOK'
    <2>1. CoreTypeOK'
      BY <1>0, <1>1, HandleSettingsType DEF RecvSettings
    <2>2. writeBuf' \in Seq(FrameType) /\ sock' \in Seq(FrameType)
      BY <1>0, <1>1, EmitType, FrameTyped DEF RecvSettings
    <2> QED
      BY <1>1, <2>1, <2>2 DEF RecvSettings, CanReceive, TypeOK, EndpointTypeOK
  <1>2. ASSUME RecvPing PROVE TypeOK'
    <2>1. CoreTypeOK'
      BY <1>0, <1>2 DEF RecvPing, core, history, CoreTypeOK
    <2>2. writeBuf' \in Seq(FrameType) /\ sock' \in Seq(FrameType)
      BY <1>0, <1>2, EmitType, FrameTyped DEF RecvPing
    <2> QED
      BY <1>2, <2>1, <2>2 DEF RecvPing, CanReceive, TypeOK, EndpointTypeOK
  <1>3. ASSUME RecvGoAway PROVE TypeOK'
    <2>1. CoreTypeOK'
      BY <1>0, <1>3, HandleGoAwayType DEF RecvGoAway
    <2> QED
      BY <1>3, <2>1 DEF RecvGoAway, CanReceive, output, TypeOK, EndpointTypeOK
  <1>4. ASSUME NEW i \in PeerIds \cup {0}, NEW n \in PeerIncrements, RecvWindowUpdate(i, n)
        PROVE  TypeOK'
    <2>1. i \in U31 /\ n \in U31
      BY <1>0
    <2>2. CoreTypeOK'
      BY <1>0, <1>4, <2>1, CreditConnectionType, CreditStreamType, RejectCreditType
         DEF RecvWindowUpdate
    <2> QED
      BY <1>4, <2>2 DEF RecvWindowUpdate, CanReceive, output, TypeOK, EndpointTypeOK
  <1>5. ASSUME NEW i \in PeerIds, NEW len \in PeerLens, NEW end \in PeerEnds,
               RecvData(i, len, end)
        PROVE  TypeOK'
    <2>1. /\ CoreTypeOK'
          /\ Increment(len) \in Nat
      <3>1. CoreTypeOK'
        BY <1>0, <1>5, HandleDataType DEF RecvData
      <3>2. Increment(len) \in Nat
        BY <1>0, ConsumeType, ConstantFacts
           DEF Increment, AfterData, CoreTypeOK, FlowType, U32, U32Max
      <3> QED
        BY <3>1, <3>2
    <2>2. writeBuf' \in Seq(FrameType) /\ sock' \in Seq(FrameType)
      BY <1>0, <1>5, <2>1, EmitType, FrameTyped DEF RecvData, output
    <2> QED
      BY <1>5, <2>1, <2>2 DEF RecvData, CanReceive, TypeOK, EndpointTypeOK
  <1>6. ASSUME NEW i \in PeerIds, NEW end \in PeerEnds, RecvHeaders(i, end) PROVE TypeOK'
    <2>1. events' \in Seq(EventType)
      BY <1>0, <1>6, PushType DEF RecvHeaders
    <2>2. DOMAIN ended' = DOMAIN ended /\ ended' \in [DOMAIN ended -> SUBSET Ends]
      BY <1>0, <1>6, MarkType, EndMarkType DEF RecvHeaders, Ends
    <2>3. \A j \in DOMAIN streams : RecvEndStream(streams[j]) \in StreamType
      BY <1>0, EndStreamType DEF CoreTypeOK
    <2>4. DOMAIN streams' = DOMAIN streams /\ streams' \in [DOMAIN streams -> StreamType]
      BY <1>0, <1>6, <2>3 DEF RecvHeaders, CoreTypeOK
    <2>5. CoreTypeOK'
      BY <1>0, <1>6, <2>1, <2>2, <2>4 DEF RecvHeaders, CoreTypeOK
    <2> QED
      BY <1>6, <2>5 DEF RecvHeaders, CanReceive, output, TypeOK, EndpointTypeOK
  <1>7. ASSUME NEW i \in PeerIds, RecvRstStream(i) PROVE TypeOK'
    <2>1. CoreTypeOK'
      BY <1>0, <1>7, HandleRstStreamType DEF RecvRstStream
    <2> QED
      BY <1>7, <2>1 DEF RecvRstStream, CanReceive, output, TypeOK, EndpointTypeOK
  <1>8. ASSUME NEW i \in PeerIds, NEW end \in PeerEnds, RecvBadFrame(i, end) PROVE TypeOK'
    <2>1. CoreTypeOK'
      BY <1>0, <1>8, ZeroInU31, HandleRefusedType DEF RecvBadFrame
    <2> QED
      BY <1>8, <2>1 DEF RecvBadFrame, CanReceive, output, TypeOK, EndpointTypeOK
  <1>9. ASSUME NEW i \in PeerIds, NEW end \in PeerEnds, RecvBadHeaders(i, end) PROVE TypeOK'
    <2>1. CoreTypeOK'
      BY <1>0, <1>9, HandleRefusedType DEF RecvBadHeaders
    <2> QED
      BY <1>9, <2>1 DEF RecvBadHeaders, CanReceive, output, TypeOK, EndpointTypeOK
  <1>10. ASSUME OnTransportReady PROVE TypeOK'
    <2>1. CoreTypeOK'
      BY <1>0, <1>10 DEF OnTransportReady, CoreTypeOK, history, States
    <2> DEFINE hello == <<Frame("PREFACE", 0, 0, FALSE), Frame("SETTINGS", 0, 0, FALSE)>>
    <2>2. writeBuf \o hello \in Seq(FrameType)
      <3>1. Frame("PREFACE", 0, 0, FALSE) \in FrameType /\ Frame("SETTINGS", 0, 0, FALSE) \in FrameType
        BY <1>0, FrameTyped
      <3>2. hello \in Seq(FrameType)
        BY <3>1, PairInSeq
      <3> QED
        BY <1>0, <3>2, ConcatProperties
    <2>3. writeBuf' \in Seq(FrameType) /\ sock' \in Seq(FrameType)
      BY <1>0, <1>10, <2>2, FlushType DEF OnTransportReady
    <2> QED
      BY <1>10, <2>1, <2>3 DEF OnTransportReady, TypeOK, EndpointTypeOK
  <1>11. ASSUME NEW end \in AppEnds, StartRequest(end) PROVE TypeOK'
    <2>1. /\ NewStreamId \in U31 \ {0}
          /\ nextStreamId' \in {2 * k + 1 : k \in 0 .. MaxRequests}
      BY <1>11, NewStreamIdType DEF StartRequest, TypeOK
    <2>2. NewStream(remote.initialWindow) \in StreamType
      BY <1>0, NewStreamType DEF CoreTypeOK, RemoteType
    <2>3. EndMark(end, "local") \in SUBSET Ends
      BY EndMarkType DEF Ends
    <2>4. CoreTypeOK'
      BY <1>0, <1>11, <2>1, <2>2, <2>3, OpenStreamType DEF StartRequest, CoreTypeOK
    <2>5. writeBuf' \in Seq(FrameType) /\ sock' \in Seq(FrameType)
      BY <1>0, <1>11, <2>1, EmitType, FrameTyped DEF StartRequest
    <2> QED
      BY <1>11, <2>1, <2>4, <2>5 DEF StartRequest, TypeOK, EndpointTypeOK
  <1>12. ASSUME NEW i \in DOMAIN streams, NEW len \in AppLens, NEW end \in AppEnds,
                SendData(i, len, end)
         PROVE  TypeOK'
    <2>1. ToSend(i, len) \in U31 /\ ToSend(i, len) \in Nat /\ i \in U31
      <3>1. len \in U31 /\ i \in U31
        BY <1>0 DEF CoreTypeOK
      <3>2. ToSend(i, len) \in U31
        BY <1>0, <3>1, ClientAvailable
      <3> QED
        BY <3>1, <3>2, ConstantFacts DEF U31
    <2>2. CoreTypeOK'
      BY <1>0, <1>12, <2>1, SendOnType DEF SendData
    <2>3. writeBuf' \in Seq(FrameType) /\ sock' \in Seq(FrameType)
      BY <1>0, <1>12, <2>1, EmitType, FrameTyped DEF SendData
    <2> QED
      BY <1>12, <2>2, <2>3 DEF SendData, TypeOK, EndpointTypeOK
  <1>13. ASSUME PollEvents PROVE TypeOK'
    <2>1. CoreTypeOK'
      BY <1>0, <1>13, TakeEventsType DEF PollEvents
    <2> QED
      BY <1>13, <2>1 DEF PollEvents, output, TypeOK, EndpointTypeOK
  <1>14. ASSUME AdvanceSend PROVE TypeOK'
    <2>1. sock' \in Seq(FrameType)
      BY <1>0, <1>14 DEF AdvanceSend
    <2> QED
      BY <1>14, <2>1 DEF AdvanceSend, core, history, TypeOK, EndpointTypeOK, CoreTypeOK
  <1>15. ASSUME HandshakeDone PROVE TypeOK'
    BY <1>15 DEF HandshakeDone, core, history, output, TypeOK, EndpointTypeOK, CoreTypeOK
  <1>16. ASSUME NEW to \in Failures, TransportDown(to) PROVE TypeOK'
    BY <1>16, ConnectionAssumption
       DEF TransportDown, core, history, output, TypeOK, EndpointTypeOK, CoreTypeOK
  <1>17. ASSUME UNCHANGED vars PROVE TypeOK'
    BY <1>17 DEF vars, core, history, TypeOK, EndpointTypeOK, CoreTypeOK
  <1> QED
    BY <1>1, <1>2, <1>3, <1>4, <1>5, <1>6, <1>7, <1>8, <1>9, <1>10, <1>11, <1>12, <1>13,
       <1>14, <1>15, <1>16, <1>17 DEF Next, Recv, Call, Transport

\* Type correctness: every variable of the client keeps its type, the windows
\* and counters their width, and every stream id is a non-zero 31-bit number.
THEOREM TypeCorrect == Spec => []TypeOK
  BY InitTypeOK, NextTypeOK, PTL DEF Spec

-------------------------------------------------------------------------------
(***************************************************************************)
(* The flow control ledger.  Ledger is inductive together with the types;  *)
(* only three kinds of step touch what it reads, the rest is LedgerFrame.  *)
(***************************************************************************)

\* Every step of the client keeps the ledger.
LEMMA NextLedger == TypeOK /\ Ledger /\ [Next]_vars => Ledger'
  <1> SUFFICES ASSUME TypeOK, Ledger, [Next]_vars PROVE Ledger'
    OBVIOUS
  <1> USE InputFacts
  <1>0. CoreTypeOK
    BY DEF TypeOK, EndpointTypeOK
  <1>1. ASSUME NEW s \in PeerSettings, RecvSettings(s) PROVE Ledger'
    BY <1>1, LedgerFrame DEF RecvSettings, HandleSettings, history
  <1>2. ASSUME RecvPing PROVE Ledger'
    BY <1>2, LedgerFrame DEF RecvPing, core, history
  <1>3. ASSUME RecvGoAway PROVE Ledger'
    BY <1>3, LedgerFrame DEF RecvGoAway, HandleGoAway, history
  <1>4. ASSUME NEW i \in PeerIds \cup {0}, NEW n \in PeerIncrements, RecvWindowUpdate(i, n)
        PROVE  Ledger'
    <2>1. CASE CreditConnection(n)
      BY <1>0, <2>1, CreditConnectionLedger
    <2>2. CASE i \in DOMAIN streams /\ CreditStream(i, n)
      <3>1. i # 0 /\ credit'[0] = credit[0]
        BY <1>0, <2>2 DEF CreditStream, CoreTypeOK
      <3> QED
        BY <2>2, <3>1, LedgerFrame DEF CreditStream
    <2>3. CASE RejectCredit(i, n)
      BY <2>3, LedgerFrame DEF RejectCredit, history
    <2> QED
      BY <1>4, <2>1, <2>2, <2>3 DEF RecvWindowUpdate
  <1>5. ASSUME NEW i \in PeerIds, NEW len \in PeerLens, NEW end \in PeerEnds,
               RecvData(i, len, end)
        PROVE  Ledger'
    BY <1>0, <1>5, HandleDataLedger DEF RecvData
  <1>6. ASSUME NEW i \in PeerIds, NEW end \in PeerEnds, RecvHeaders(i, end) PROVE Ledger'
    BY <1>6, LedgerFrame DEF RecvHeaders
  <1>7. ASSUME NEW i \in PeerIds, RecvRstStream(i) PROVE Ledger'
    BY <1>7, LedgerFrame DEF RecvRstStream, HandleRstStream
  <1>8. ASSUME NEW i \in PeerIds, NEW end \in PeerEnds, RecvBadFrame(i, end) PROVE Ledger'
    BY <1>8, LedgerFrame DEF RecvBadFrame, HandleRefused
  <1>9. ASSUME NEW i \in PeerIds, NEW end \in PeerEnds, RecvBadHeaders(i, end) PROVE Ledger'
    BY <1>9, LedgerFrame DEF RecvBadHeaders, HandleRefused
  <1>10. ASSUME OnTransportReady PROVE Ledger'
    BY <1>10, LedgerFrame DEF OnTransportReady, history
  <1>11. ASSUME NEW end \in AppEnds, StartRequest(end) PROVE Ledger'
    <2>1. NewStreamId \in U31 \ {0} /\ NewStream(remote.initialWindow) \in StreamType
      BY <1>0, <1>11, NewStreamIdType, NewStreamType DEF StartRequest, TypeOK, CoreTypeOK, RemoteType
    <2>2. EndMark(end, "local") \in SUBSET Ends
      BY EndMarkType DEF Ends
    <2>3. credit'[0] = credit[0] /\ sent'[0] = sent[0]
      BY <1>0, <1>11, <2>1, <2>2, OpenStreamType DEF StartRequest
    <2> QED
      BY <1>11, <2>3, LedgerFrame DEF StartRequest
  <1>12. ASSUME NEW i \in DOMAIN streams, NEW len \in AppLens, NEW end \in AppEnds,
                SendData(i, len, end)
         PROVE  Ledger'
    <2>1. len \in U31
      OBVIOUS
    <2>2. ToSend(i, len) \in U31 /\ ToSend(i, len) <= Available(i)
      BY <1>0, <2>1, ClientAvailable
    <2> QED
      BY <1>0, <1>12, <2>2, SendOnLedger DEF SendData
  <1>13. ASSUME PollEvents PROVE Ledger'
    BY <1>13, LedgerFrame DEF PollEvents, TakeEvents, history
  <1>14. ASSUME AdvanceSend PROVE Ledger'
    BY <1>14, LedgerFrame DEF AdvanceSend, core, history
  <1>15. ASSUME HandshakeDone PROVE Ledger'
    BY <1>15, LedgerFrame DEF HandshakeDone, core, history
  <1>16. ASSUME NEW to \in Failures, TransportDown(to) PROVE Ledger'
    BY <1>16, LedgerFrame DEF TransportDown, core, history
  <1>17. ASSUME UNCHANGED vars PROVE Ledger'
    BY <1>17, LedgerFrame DEF vars, core, history
  <1> QED
    BY <1>1, <1>2, <1>3, <1>4, <1>5, <1>6, <1>7, <1>8, <1>9, <1>10, <1>11, <1>12, <1>13,
       <1>14, <1>15, <1>16, <1>17 DEF Next, Recv, Call, Transport

\* The inductive invariant behind the three properties that follow.
THEOREM LedgerInvariant == Spec => []Ledger
  <1>1. Init => Ledger
    BY InitLedger DEF Init
  <1>2. TypeOK /\ Ledger /\ [Next]_vars => Ledger'
    BY NextLedger
  <1> QED
    BY <1>1, <1>2, TypeCorrect, PTL DEF Spec

\* The shared window and counter stay in step with the traffic of both
\* directions, for every interleaving of send_data, handle_data and
\* handle_window_update.
THEOREM ConnLedgerHolds == Spec => []ConnLedger
  <1>1. Ledger => ConnLedger
    BY DEF Ledger
  <1> QED
    BY <1>1, LedgerInvariant, PTL

\* send_data never reads a negative connection window as usize.
THEOREM ConnWindowHolds == Spec => []ConnWindowNonNegative
  <1>1. Ledger => ConnWindowNonNegative
    BY DEF Ledger
  <1> QED
    BY <1>1, LedgerInvariant, PTL

\* handle_data returns credit before the peer has used half of its window.
THEOREM PeerNotStarvedHolds == Spec => []PeerNotStarved
  <1>1. Ledger => PeerNotStarved
    BY DEF Ledger
  <1> QED
    BY <1>1, LedgerInvariant, PTL
-------------------------------------------------------------------------------
(***************************************************************************)
(* The streams of the client: every action is one of the moves.            *)
(***************************************************************************)

\* start_request opens a stream with what it sent recorded.
LEMMA StartRequestMoves ==
    ASSUME TypeOK, NEW end \in BOOLEAN, StartRequest(end)
    PROVE  /\ ClientMoves
           /\ DOMAIN streams' = DOMAIN streams \cup {NewStreamId}
           /\ DOMAIN ended' = DOMAIN ended \cup {NewStreamId}
           /\ \A i \in DOMAIN streams \ {NewStreamId} : StateMove(i)
  <1> DEFINE stream == NewStream(remote.initialWindow)
             ends == EndMark(end, "local")
  <1>0. CoreTypeOK
    BY DEF TypeOK, EndpointTypeOK
  <1>1. PICK i \in U31 \ {0} : i = NewStreamId
    BY NewStreamIdType DEF StartRequest, TypeOK
  <1>2. OpenStream(i, stream, ends) /\ UNCHANGED remote
    BY <1>1 DEF StartRequest
  <1>3. /\ stream.state = "Open" /\ stream.sendWindow = remote.initialWindow
        /\ ends \in {{}, {"local"}}
    BY <1>0, NewStreamWindow DEF EndMark
  <1>4. DOMAIN ended' = DOMAIN ended \cup {i}
    BY <1>2 DEF OpenStream, Insert
  <1> HIDE DEF stream, ends
  <1>5. /\ DOMAIN streams' = DOMAIN streams \cup {i}
        /\ \A j \in DOMAIN streams \ {i} : StateMove(j) /\ WindowMove(j)
        /\ streams'[i] = stream /\ ended'[i] = ends
        /\ Allowance(i)' = remote.initialWindow
    BY <1>0, <1>1, <1>2, OpenStreamMoves
  <1>6. Started(i)
    BY <1>3, <1>5 DEF Started, WholeWindow
  <1> QED
    BY <1>1, <1>4, <1>5, <1>6 DEF ClientMoves

\* Every other action makes the moves of its handler and opens nothing.
LEMMA NextMoves ==
    ASSUME TypeOK, [Next]_vars
    PROVE  \/ \E end \in AppEnds : StartRequest(end)
           \/ Moves /\ DOMAIN ended' = DOMAIN ended /\ nextStreamId' = nextStreamId
  <1> USE InputFacts
  <1> DEFINE Kept == Moves /\ DOMAIN ended' = DOMAIN ended /\ nextStreamId' = nextStreamId
  <1>0. CoreTypeOK /\ DOMAIN streams \subseteq DOMAIN ended /\ 0 \notin DOMAIN ended
    BY DEF TypeOK, EndpointTypeOK, CoreTypeOK
  <1>m. \A i, ends : Mark(i, ends) => DOMAIN ended' = DOMAIN ended
    BY DEF Mark
  <1>1. ASSUME NEW s \in PeerSettings, RecvSettings(s) PROVE Kept
    BY <1>0, <1>1, HandleSettingsMoves DEF RecvSettings, CanReceive, HandleSettings, history
  <1>2. ASSUME RecvPing \/ RecvGoAway PROVE Kept
    <2>1. UNCHANGED <<streams, ended, remote, credit, sent, nextStreamId>>
      BY <1>2 DEF RecvPing, RecvGoAway, HandleGoAway, CanReceive, core, history
    <2> QED
      BY <1>0, <2>1, MovesFrame
  <1>3. ASSUME NEW i \in PeerIds \cup {0}, NEW n \in PeerIncrements, RecvWindowUpdate(i, n)
        PROVE  Kept
    <2>1. CASE CreditConnection(n)
      <3>1. /\ UNCHANGED <<streams, ended, remote, sent>>
            /\ \A j \in DOMAIN streams : credit'[j] = credit[j]
        BY <1>0, <2>1 DEF CreditConnection, CoreTypeOK
      <3> QED
        BY <1>0, <1>3, <3>1, MovesFrame DEF RecvWindowUpdate, CanReceive
    <2>2. CASE CreditStream(i, n)
      BY <1>0, <1>3, <2>2, CreditStreamMoves DEF RecvWindowUpdate, CanReceive, CreditStream
    <2>3. CASE RejectCredit(i, n)
      BY <1>0, <1>3, <2>3, MovesFrame DEF RecvWindowUpdate, CanReceive, RejectCredit, history
    <2> QED
      BY <1>3, <2>1, <2>2, <2>3 DEF RecvWindowUpdate
  <1>4. ASSUME NEW i \in PeerIds, NEW len \in PeerLens, NEW end \in PeerEnds,
               RecvData(i, len, end)
        PROVE  Kept
    BY <1>0, <1>m, <1>4, HandleDataMoves DEF RecvData, HandleData, CanReceive
  <1>5. ASSUME NEW i \in PeerIds, NEW end \in PeerEnds, RecvHeaders(i, end) PROVE Kept
    <2> DEFINE stream == IF end THEN RecvEndStream(streams[i]) ELSE streams[i]
               ends   == EndMark(end, "remote")
    <2>1. /\ i \in DOMAIN streams => streams[i] \in StreamType
          /\ streams \in [DOMAIN streams -> StreamType]
      BY <1>0, StreamNumbers DEF CoreTypeOK
    <2>2. streams' = IF i \in DOMAIN streams THEN [streams EXCEPT ![i] = stream] ELSE streams
      BY <1>5, <2>1 DEF RecvHeaders
    <2>3. Mark(i, ends) /\ UNCHANGED <<remote, sent, credit, nextStreamId>>
      BY <1>5 DEF RecvHeaders, CanReceive
    <2>4. i \in DOMAIN streams =>
             /\ stream.sendWindow = streams[i].sendWindow
             /\ \/ stream.state = streams[i].state /\ ends = {}
                \/ stream.state = RecvEndStream(streams[i]).state /\ ends = {"remote"}
      BY <2>1, EndStreamFields DEF EndMark
    <2> HIDE DEF stream, ends
    <2>5. Moves
      BY <1>0, <2>2, <2>3, <2>4, OneStateMove
    <2> QED
      BY <1>m, <2>3, <2>5
  <1>6. ASSUME NEW i \in PeerIds, RecvRstStream(i) PROVE Kept
    BY <1>0, <1>m, <1>6, HandleRstStreamMoves DEF RecvRstStream, HandleRstStream, CanReceive
  <1>7. ASSUME NEW i \in DOMAIN streams, NEW len \in AppLens, NEW end \in AppEnds,
               SendData(i, len, end)
        PROVE  Kept
    <2> DEFINE n == ToSend(i, len)
               isEnd == end /\ n = len
    <2>1. n \in U31 /\ isEnd \in BOOLEAN
      BY <1>0, ClientAvailable
    <2>2. SendOn(i, n, isEnd) /\ UNCHANGED nextStreamId
      BY <1>7 DEF SendData
    <2> HIDE DEF n, isEnd
    <2>3. DOMAIN ended' = DOMAIN ended
      BY <1>m, <2>2 DEF SendOn
    <2> QED
      BY <1>0, <2>1, <2>2, <2>3, SendOnMoves
  <1>8. ASSUME \/ OnTransportReady \/ PollEvents \/ AdvanceSend \/ HandshakeDone
               \/ \E to \in Failures : TransportDown(to)
               \/ UNCHANGED vars
        PROVE  Kept
    <2>1. UNCHANGED <<streams, ended, remote, credit, sent, nextStreamId>>
      BY <1>8 DEF OnTransportReady, PollEvents, TakeEvents, AdvanceSend, HandshakeDone,
                  TransportDown, vars, core, history
    <2> QED
      BY <1>0, <2>1, MovesFrame
  <1>9. ASSUME NEW i \in PeerIds, NEW end \in PeerEnds,
               RecvBadFrame(i, end) \/ RecvBadHeaders(i, end)
        PROVE  Kept
    <2>1. /\ HandleRefused(i, end, 0) \/ HandleRefused(i, end, i)
          /\ UNCHANGED nextStreamId
      BY <1>9 DEF RecvBadFrame, RecvBadHeaders, CanReceive
    <2> QED
      BY <1>0, <1>m, <2>1, HandleRefusedMoves DEF HandleRefused
  <1> HIDE DEF Kept
  <1>10. Kept \/ \E end \in AppEnds : StartRequest(end)
    BY <1>1, <1>2, <1>3, <1>4, <1>5, <1>6, <1>7, <1>8, <1>9 DEF Next, Recv, Call, Transport
  <1> QED
    BY <1>10 DEF Kept

\* Every step of the client is made of its moves.
LEMMA NextClientMoves == TypeOK /\ [Next]_vars => ClientMoves
  <1> SUFFICES ASSUME TypeOK, [Next]_vars PROVE ClientMoves
    OBVIOUS
  <1>1. CASE \E end \in AppEnds : StartRequest(end)
    BY <1>1, StartRequestMoves, InputFacts
  <1>2. CASE Moves
    BY <1>2, AnyEnd
  <1> QED
    BY <1>1, <1>2, NextMoves

\* A stream's state claims no end that did not cross the wire, and a reset is
\* final, in every interleaving of frames and calls of the client.
THEOREM StreamStateJustifiedHolds == Spec => []StreamStateJustified
  <1>1. Init => StreamStateJustified
    BY DEF Init, EndpointInit, StreamStateJustified
  <1>2. TypeOK /\ StreamStateJustified /\ [Next]_vars => StreamStateJustified'
    BY NextClientMoves, AnyEnd, MovesJustified DEF TypeOK, EndpointTypeOK
  <1> QED
    BY <1>1, <1>2, TypeCorrect, PTL DEF Spec

\* A stream the server has ended, with DATA or HEADERS that the client does not
\* refuse, never counts as receiving at the client again.
THEOREM AcceptedEndRecordedHolds == Spec => []AcceptedEndRecorded
  <1>1. Init => AcceptedEndRecorded
    BY DEF Init, EndpointInit, AcceptedEndRecorded
  <1>2. TypeOK /\ AcceptedEndRecorded /\ [Next]_vars => AcceptedEndRecorded'
    BY NextClientMoves, AnyEnd, MovesPeerEnd DEF TypeOK, EndpointTypeOK
  <1> QED
    BY <1>1, <1>2, TypeCorrect, PTL DEF Spec

\* The send window of every stream of the client stays congruent, modulo 2^32,
\* to what the peer allowed less what was sent, whatever SETTINGS, WINDOW_UPDATE
\* and send_data do in whatever order.
THEOREM StreamLedgerHolds == Spec => []StreamLedger
  <1>1. Init => StreamLedger
    BY DEF Init, EndpointInit, StreamLedger
  <1>2. TypeOK /\ TypeOK' /\ StreamLedger /\ [Next]_vars => StreamLedger'
    BY NextClientMoves, AnyEnd, MovesLedger DEF TypeOK, EndpointTypeOK
  <1> QED
    BY <1>1, <1>2, TypeCorrect, PTL DEF Spec
-------------------------------------------------------------------------------
(***************************************************************************)
(* Stream ids.  next_stream_id is a u32 of which StreamId::new keeps 31    *)
(* bits: the 2^30 odd ids last for 2^30 requests, then an id comes again   *)
(* and replaces its stream.  Until then every id ever used is below        *)
(* next_stream_id, which is what the next theorems rest on.                *)
(***************************************************************************)
IdsLast == 2 * MaxRequests <= I32Max + 1

IdsBelowNext == \A i \in DOMAIN ended : i < nextStreamId

\* While the ids last, a request takes next_stream_id itself, an unused number.
LEMMA NewIdUnused ==
    ASSUME IdsLast, TypeOK, IdsBelowNext, NEW end, StartRequest(end)
    PROVE  /\ NewStreamId = nextStreamId /\ nextStreamId' = nextStreamId + 2
           /\ nextStreamId \in Nat
           /\ NewStreamId \notin DOMAIN ended
           /\ NewStreamId \notin DOMAIN streams
  <1>1. nextStreamId \in Nat
    BY ClientConstants DEF TypeOK
  <1>2. nextStreamId < 2 * MaxRequests /\ nextStreamId' = nextStreamId + 2
    BY DEF StartRequest
  <1>3. NewStreamId = nextStreamId
    BY <1>1, <1>2, ClientConstants, ConstantFacts DEF IdsLast, NewStreamId
  <1>4. NewStreamId \notin DOMAIN ended
    BY <1>1, <1>3 DEF IdsBelowNext
  <1> QED
    BY <1>1, <1>2, <1>3, <1>4 DEF TypeOK, EndpointTypeOK, CoreTypeOK

\* Every step keeps the ids used below the next one.
LEMMA NextIdsBelow ==
    ASSUME IdsLast
    PROVE  TypeOK /\ IdsBelowNext /\ [Next]_vars => IdsBelowNext'
  <1> SUFFICES ASSUME TypeOK, IdsBelowNext, [Next]_vars PROVE IdsBelowNext'
    OBVIOUS
  <1>0. DOMAIN ended \subseteq Int
    BY ConstantFacts DEF TypeOK, EndpointTypeOK, CoreTypeOK, U31
  <1>1. CASE \E end \in AppEnds : StartRequest(end)
    <2>1. PICK end \in AppEnds : StartRequest(end)
      BY <1>1
    <2>2. DOMAIN ended' = DOMAIN ended \cup {NewStreamId}
      BY <2>1, StartRequestMoves, InputFacts
    <2> QED
      BY <1>0, <2>1, <2>2, NewIdUnused DEF IdsBelowNext
  <1>2. CASE DOMAIN ended' = DOMAIN ended /\ nextStreamId' = nextStreamId
    BY <1>2 DEF IdsBelowNext
  <1> QED
    BY <1>1, <1>2, NextMoves

\* While the ids last, no request gets an id that was used before.
THEOREM IdsBelowNextHolds ==
    ASSUME IdsLast
    PROVE  Spec => []IdsBelowNext
  <1>1. Init => IdsBelowNext
    BY DEF Init, EndpointInit, IdsBelowNext
  <1> QED
    BY <1>1, NextIdsBelow, TypeCorrect, PTL DEF Spec

\* No frame and no call of the client reopens a stream or swaps its half-closed
\* states, while the ids last: start_request, once they come again, does replace
\* a stream.
THEOREM StreamForwardOnlyHolds ==
    ASSUME IdsLast
    PROVE  Spec => StreamForwardOnly
  <1> DEFINE Forward == \A i \in DOMAIN streams \cap DOMAIN streams' :
                           LET old == streams[i].state
                               new == streams'[i].state
                           IN new # old => Rank(new) > Rank(old)
  <1>1. TypeOK /\ IdsBelowNext /\ [Next]_vars => [Forward]_streams
    <2> SUFFICES ASSUME TypeOK, IdsBelowNext, [Next]_vars PROVE Forward
      OBVIOUS
    <2>0. CoreTypeOK
      BY DEF TypeOK, EndpointTypeOK
    <2>1. \A i \in DOMAIN streams \cap DOMAIN streams' : StateMove(i)
      <3>1. CASE \E end \in AppEnds : StartRequest(end)
        BY <3>1, StartRequestMoves, NewIdUnused, InputFacts
      <3>2. CASE Moves
        BY <3>2 DEF Moves
      <3> QED
        BY <3>1, <3>2, NextMoves
    <2> QED
      BY <2>0, <2>1, MovesForward
  <1> QED
    BY <1>1, TypeCorrect, IdsBelowNextHolds, PTL DEF Spec, StreamForwardOnly

-------------------------------------------------------------------------------
(***************************************************************************)
(* The state of the connection, and what the application and the socket    *)
(* get.                                                                    *)
(***************************************************************************)

\* Only a first SETTINGS, a GOAWAY and on_transport_ready change the state of the
\* client, and once SETTINGS were handled only GOAWAY can while it drains.
THEOREM DrainingIsFinalHolds == Spec => DrainingIsFinal
  <1> DEFINE Stays == state = "Draining" /\ gotSettings => state' = "Draining"
  <1>1. [Next]_vars => [Stays]_<<state, gotSettings>>
    <2> SUFFICES ASSUME [Next]_vars PROVE Stays
      OBVIOUS
    <2>1. CASE RecvGoAway \/ OnTransportReady \/ \E s \in PeerSettings : RecvSettings(s)
      BY <2>1 DEF RecvGoAway, HandleGoAway, OnTransportReady, RecvSettings, HandleSettings
    <2>2. CASE UNCHANGED vars
      BY <2>2 DEF vars, core
    <2>3. CASE UNCHANGED state
      BY <2>3
    <2>4. Next => \/ RecvGoAway \/ OnTransportReady \/ \E s \in PeerSettings : RecvSettings(s)
                  \/ UNCHANGED state
      <3>1. Recv => \/ RecvGoAway \/ \E s \in PeerSettings : RecvSettings(s)
                    \/ UNCHANGED state
        BY DEF Recv, RecvPing, RecvWindowUpdate, CreditConnection, CreditStream,
               RejectCredit, RecvData, HandleData, RecvHeaders, RecvRstStream, HandleRstStream,
               RecvBadFrame, RecvBadHeaders, HandleRefused, core
      <3>2. Call => OnTransportReady \/ UNCHANGED state
        BY DEF Call, StartRequest, SendData, SendOn, PollEvents, TakeEvents, AdvanceSend, core
      <3>3. Transport => UNCHANGED state
        BY DEF Transport, HandshakeDone, TransportDown, core
      <3> QED
        BY <3>1, <3>2, <3>3 DEF Next
    <2> QED
      BY <2>1, <2>2, <2>3, <2>4
  <1> QED
    BY <1>1, PTL DEF Spec, DrainingIsFinal

\* What is delivered is what was received until the transport goes down, before
\* its handshake is over too.
Delivering == transport \in {"Handshaking", "Ready"} => delivered = rcvd

\* Every byte of DATA the peer was charged for is in an event, up to the moment
\* the transport goes down: only then can the WINDOW_UPDATE before the event fail.
THEOREM DataDeliveredHolds == Spec => []DataDelivered
  <1>1. Init => Delivering
    BY DEF Init, EndpointInit, Delivering
  <1>2. TypeOK /\ Delivering /\ [Next]_vars => Delivering'
    <2> SUFFICES ASSUME TypeOK, Delivering, [Next]_vars PROVE Delivering'
      OBVIOUS
    <2>1. CASE \E i \in PeerIds, len \in PeerLens, end \in PeerEnds : RecvData(i, len, end)
      BY <2>1 DEF RecvData, HandleData, CanReceive, Delivering, TypeOK
    <2>2. CASE HandshakeDone \/ \E to \in Failures : TransportDown(to)
      BY <2>2, ConnectionAssumption DEF HandshakeDone, TransportDown, Delivering, history
    <2>3. CASE UNCHANGED <<transport, delivered, rcvd>>
      BY <2>3 DEF Delivering
    <2>4. CASE Recv
      <3>1. \/ \E i \in PeerIds, len \in PeerLens, end \in PeerEnds : RecvData(i, len, end)
            \/ UNCHANGED <<transport, delivered, rcvd>>
        BY <2>4 DEF Recv, CanReceive, RecvSettings, HandleSettings, RecvPing, RecvGoAway,
               HandleGoAway, RecvWindowUpdate, CreditConnection, CreditStream, RejectCredit,
               RecvHeaders, RecvRstStream, HandleRstStream, RecvBadFrame, RecvBadHeaders,
               HandleRefused, history
      <3> QED
        BY <2>1, <2>3, <3>1
    <2>5. CASE Call \/ UNCHANGED vars
      <3>1. UNCHANGED <<transport, delivered, rcvd>>
        BY <2>5 DEF Call, OnTransportReady, StartRequest, SendData, SendOn, PollEvents,
               TakeEvents, AdvanceSend, vars, history
      <3> QED
        BY <2>3, <3>1
    <2> QED
      BY <2>2, <2>4, <2>5 DEF Next, Transport
  <1>3. Delivering => DataDelivered
    BY DEF Delivering, DataDelivered
  <1> QED
    BY <1>1, <1>2, <1>3, TypeCorrect, PTL DEF Spec
-------------------------------------------------------------------------------
(***************************************************************************)
(* What leaves: the frames the transport took and write_buf behind them.   *)
(***************************************************************************)
Out == sock \o writeBuf

\* The two parts of a split write make up the whole.
LEMMA SplitWhole ==
    ASSUME NEW S, NEW seq \in Seq(S), NEW n \in 0 .. Len(seq)
    PROVE  SubSeq(seq, 1, n) \o SubSeq(seq, n + 1, Len(seq)) = seq
  <1>1. Len(seq) \in Nat /\ n \in Nat /\ n <= Len(seq)
    BY LenProperties
  <1> DEFINE first == SubSeq(seq, 1, n)
             rest == SubSeq(seq, n + 1, Len(seq))
  <1>2. first \in Seq(S) /\ Len(first) = n /\ \A k \in 1 .. n : first[k] = seq[k]
    BY <1>1, SubSeqProperties
  <1>3. /\ rest \in Seq(S) /\ Len(rest) = Len(seq) - n
        /\ \A k \in 1 .. Len(seq) - n : rest[k] = seq[n + k]
    BY <1>1, SubSeqProperties
  <1> HIDE DEF first, rest
  <1>4. /\ first \o rest \in Seq(S) /\ Len(first \o rest) = Len(seq)
        /\ \A k \in 1 .. Len(seq) : (first \o rest)[k] = seq[k]
    <2>1. /\ first \o rest \in Seq(S)
          /\ Len(first \o rest) = Len(first) + Len(rest)
          /\ \A k \in 1 .. Len(first) + Len(rest) :
                (first \o rest)[k] = IF k <= Len(first) THEN first[k] ELSE rest[k - Len(first)]
      BY <1>2, <1>3, ConcatProperties
    <2>2. ASSUME NEW k \in 1 .. Len(seq) PROVE (first \o rest)[k] = seq[k]
      <3>1. CASE k <= n
        BY <1>1, <1>2, <1>3, <2>1, <3>1
      <3>2. CASE k > n
        <4>1. k - n \in 1 .. Len(seq) - n /\ n + (k - n) = k
          BY <1>1, <3>2
        <4>2. rest[k - n] = seq[k]
          BY <1>3, <4>1
        <4> QED
          BY <1>1, <1>2, <1>3, <2>1, <3>2, <4>2
      <3>3. k <= n \/ k > n
        BY <1>1
      <3> QED
        BY <3>1, <3>2, <3>3, Zenon
    <2>3. Len(first) + Len(rest) = Len(seq)
      BY <1>1, <1>2, <1>3
    <2> QED
      BY <2>1, <2>2, <2>3
  <1> HIDE DEF first, rest
  <1>5. first \o rest = seq
    BY <1>4, SeqEqual
  <1> QED
    BY <1>5 DEF first, rest

\* However the transport splits a write, nothing is lost, repeated or reordered.
LEMMA FlushOut ==
    ASSUME sock \in Seq(FrameType), NEW buf \in Seq(FrameType), Flush(buf)
    PROVE  Out' = sock \o buf
  <1>1. CASE transport = "Ready"
    <2>1. PICK n \in Accepted(buf) : /\ sock' = sock \o SubSeq(buf, 1, n)
                                     /\ writeBuf' = SubSeq(buf, n + 1, Len(buf))
      BY <1>1 DEF Flush
    <2>2. n \in 0 .. Len(buf) /\ Len(buf) \in Nat
      <3>1. Accepted(buf) = 0 .. Len(buf) - 1 \/ Accepted(buf) = {Len(buf)}
        BY DEF Accepted
      <3> QED
        BY <2>1, <3>1
    <2>3. /\ SubSeq(buf, 1, n) \in Seq(FrameType)
          /\ SubSeq(buf, n + 1, Len(buf)) \in Seq(FrameType)
      BY <2>2, SubSeqProperties
    <2>4. SubSeq(buf, 1, n) \o SubSeq(buf, n + 1, Len(buf)) = buf
      BY <2>2, SplitWhole
    <2>5. (sock \o SubSeq(buf, 1, n)) \o SubSeq(buf, n + 1, Len(buf))
             = sock \o (SubSeq(buf, 1, n) \o SubSeq(buf, n + 1, Len(buf)))
      <3> DEFINE first == SubSeq(buf, 1, n)
                 rest == SubSeq(buf, n + 1, Len(buf))
      <3>1. first \in Seq(FrameType) /\ rest \in Seq(FrameType)
        BY <2>3
      <3> HIDE DEF first, rest
      <3>2. (sock \o first) \o rest = sock \o (first \o rest)
        BY <3>1, ConcatAssociative
      <3> QED
        BY <3>2 DEF first, rest
    <2> QED
      BY <2>1, <2>4, <2>5 DEF Out
  <1>2. CASE transport # "Ready"
    BY <1>2 DEF Flush, Out
  <1> QED
    BY <1>1, <1>2

\* A frame encoded is the last to leave.
LEMMA EmitOut ==
    ASSUME sock \in Seq(FrameType), writeBuf \in Seq(FrameType),
           NEW frame \in FrameType, Emit(frame)
    PROVE  Out' = Append(Out, frame)
  <1>1. Append(writeBuf, frame) \in Seq(FrameType) /\ Append(writeBuf, frame) = writeBuf \o <<frame>>
        /\ <<frame>> \in Seq(FrameType) /\ Out \in Seq(FrameType)
    BY AppendProperties, AppendIsConcat DEF Out
  <1>2. Out' = sock \o (writeBuf \o <<frame>>)
    BY <1>1, FlushOut DEF Emit
  <1>3. Out' = Out \o <<frame>>
    BY <1>1, <1>2, ConcatAssociative DEF Out
  <1> QED
    BY <1>1, <1>3, AppendIsConcat

\* What is on its way belongs to the connection or to a stream opened before.
OutBelowNext == \A k \in 1 .. Len(Out) : Out[k].id < nextStreamId

\* What a frame that is no stream's first must be.
Ordinary(frame) == frame \in FrameType /\ frame.type # "HEADERS" /\ frame.id < nextStreamId

\* How what leaves may change in a step.
OutMoves ==
    \/ Out' = Out
    \/ Out # <<>> /\ Out' = Tail(Out)
    \/ \E frame : Ordinary(frame) /\ Out' = Append(Out, frame)
    \/ \E one, two : Ordinary(one) /\ Ordinary(two) /\ Out' = Append(Append(Out, one), two)

\* Every action but start_request adds ordinary frames, if any, behind the others.
LEMMA NextOut ==
    ASSUME TypeOK, IdsBelowNext, [Next]_vars
    PROVE  OutMoves \/ \E end \in AppEnds : StartRequest(end)
  <1> USE InputFacts
  <1>0. /\ CoreTypeOK /\ writeBuf \in Seq(FrameType) /\ sock \in Seq(FrameType)
        /\ 0 \in U31 /\ 0 \in Nat /\ nextStreamId \in Nat /\ 0 < nextStreamId
    BY ClientConstants, ZeroInU31 DEF TypeOK, EndpointTypeOK
  <1>e. ASSUME NEW type \in {"PREFACE", "SETTINGS", "SETTINGS_ACK", "PING_ACK", "WINDOW_UPDATE",
                             "DATA"},
               NEW i \in U31, i < nextStreamId, NEW n \in Nat, NEW end \in BOOLEAN
        PROVE  Ordinary(Frame(type, i, n, end))
    <2>1. Frame(type, i, n, end) \in FrameType
      BY FrameTyped
    <2>2. Frame(type, i, n, end).type = type /\ Frame(type, i, n, end).id = i
      BY DEF Frame
    <2> QED
      BY <1>e, <2>1, <2>2 DEF Ordinary
  <1>1. ASSUME NEW frame, Ordinary(frame), Emit(frame) PROVE OutMoves
    BY <1>0, <1>1, EmitOut DEF OutMoves, Ordinary
  <1>2. ASSUME UNCHANGED output PROVE OutMoves
    BY <1>2 DEF output, OutMoves, Out
  <1>3. ASSUME NEW s \in PeerSettings, RecvSettings(s) PROVE OutMoves
    BY <1>0, <1>e, <1>1, <1>3 DEF RecvSettings
  <1>4. ASSUME RecvPing PROVE OutMoves
    BY <1>0, <1>e, <1>1, <1>4 DEF RecvPing
  <1>5. ASSUME NEW i \in PeerIds, NEW len \in PeerLens, NEW end \in PeerEnds,
               RecvData(i, len, end)
        PROVE  OutMoves
    <2>1. Increment(len) \in Nat
      BY <1>0, ConsumeType, ConstantFacts
         DEF Increment, AfterData, CoreTypeOK, FlowType, U32, U32Max
    <2> QED
      BY <1>0, <1>e, <1>1, <1>2, <1>5, <2>1 DEF RecvData
  <1>6. ASSUME NEW i \in DOMAIN streams, NEW len \in AppLens, NEW end \in AppEnds,
               SendData(i, len, end)
        PROVE  OutMoves
    <2> DEFINE n == ToSend(i, len)
               isEnd == end /\ n = len
    <2>1. n \in Nat /\ i \in U31 /\ isEnd \in BOOLEAN
      <3>1. n \in U31 /\ i \in U31
        BY <1>0, ClientAvailable DEF CoreTypeOK
      <3> QED
        BY <3>1, ConstantFacts DEF U31
    <2>2. Emit(Frame("DATA", i, n, isEnd))
      BY <1>6 DEF SendData
    <2>3. i < nextStreamId
      BY <1>0 DEF IdsBelowNext, CoreTypeOK
    <2> HIDE DEF n, isEnd
    <2> QED
      BY <1>0, <1>e, <1>1, <2>1, <2>2, <2>3
  <1>7. ASSUME OnTransportReady PROVE OutMoves
    <2> DEFINE one == Frame("PREFACE", 0, 0, FALSE)
               two == Frame("SETTINGS", 0, 0, FALSE)
    <2>1. Ordinary(one) /\ Ordinary(two) /\ one \in FrameType /\ two \in FrameType
      BY <1>0, <1>e DEF Ordinary
    <2>2. Flush(writeBuf \o <<one, two>>)
      BY <1>7 DEF OnTransportReady
    <2> HIDE DEF one, two
    <2>3. <<one, two>> \in Seq(FrameType) /\ writeBuf \o <<one, two>> \in Seq(FrameType)
      BY <1>0, <2>1, PairInSeq, ConcatProperties
    <2>4. Out' = Out \o <<one, two>> /\ Out \in Seq(FrameType)
      <3>1. Out' = sock \o (writeBuf \o <<one, two>>)
        BY <1>0, <2>2, <2>3, FlushOut
      <3>2. sock \o (writeBuf \o <<one, two>>) = (sock \o writeBuf) \o <<one, two>>
        BY <1>0, <2>3, ConcatAssociative
      <3> QED
        BY <1>0, <3>1, <3>2, ConcatProperties DEF Out
    <2>5. Out \o <<one, two>> = Append(Append(Out, one), two)
      BY <2>1, <2>4
    <2> QED
      BY <2>1, <2>4, <2>5 DEF OutMoves
  <1>8. ASSUME AdvanceSend PROVE OutMoves
    <2>1. sock # <<>> /\ sock' = Tail(sock) /\ writeBuf' = writeBuf
      BY <1>8 DEF AdvanceSend
    <2>2. Tail(sock \o writeBuf) = Tail(sock) \o writeBuf /\ Out # <<>>
      BY <1>0, <2>1 DEF Out
    <2> QED
      BY <2>1, <2>2 DEF OutMoves, Out
  <1>9. ASSUME \/ RecvGoAway \/ PollEvents \/ HandshakeDone \/ UNCHANGED vars
               \/ \E to \in Failures : TransportDown(to)
               \/ \E i \in PeerIds : RecvRstStream(i)
               \/ \E i \in PeerIds, end \in PeerEnds :
                     RecvHeaders(i, end) \/ RecvBadFrame(i, end) \/ RecvBadHeaders(i, end)
               \/ \E i \in PeerIds \cup {0}, n \in PeerIncrements : RecvWindowUpdate(i, n)
        PROVE  OutMoves
    <2>1. UNCHANGED output
      BY <1>9 DEF RecvGoAway, RecvBadFrame, PollEvents, HandshakeDone, TransportDown,
                  RecvBadHeaders, RecvRstStream, RecvHeaders, RecvWindowUpdate, vars, output
    <2> QED
      BY <1>2, <2>1
  <1> QED
    BY <1>3, <1>4, <1>5, <1>6, <1>7, <1>8, <1>9 DEF Next, Recv, Call, Transport

\* HEADERS of an unused id, or a frame that is no HEADERS, keep the order.
LEMMA AppendOrdered ==
    ASSUME NEW S, NEW out \in Seq(S), NEW frame \in S,
           \A a, b \in 1 .. Len(out) : out[b].type = "HEADERS" /\ a < b => out[a].id # out[b].id,
           frame.type = "HEADERS" => \A a \in 1 .. Len(out) : out[a].id # frame.id,
           NEW all, all = Append(out, frame)
    PROVE  \A a, b \in 1 .. Len(all) : all[b].type = "HEADERS" /\ a < b => all[a].id # all[b].id
  <1>1. /\ Len(all) = Len(out) + 1 /\ Len(out) \in Nat
        /\ \A k \in 1 .. Len(out) : all[k] = out[k]
        /\ all[Len(out) + 1] = frame
    BY AppendProperties
  <1> QED
    BY <1>1

\* Every step keeps the frames of a stream behind its HEADERS.
LEMMA NextHeadersFirst ==
    ASSUME IdsLast
    PROVE  TypeOK /\ IdsBelowNext /\ OutBelowNext /\ HeadersFirst /\ [Next]_vars
              => OutBelowNext' /\ HeadersFirst'
  <1> SUFFICES ASSUME TypeOK, IdsBelowNext, OutBelowNext, HeadersFirst, [Next]_vars
               PROVE  OutBelowNext' /\ HeadersFirst'
    OBVIOUS
  <1> USE InputFacts
  <1>0. /\ Out \in Seq(FrameType) /\ nextStreamId \in Nat /\ Len(Out) \in Nat
        /\ writeBuf \in Seq(FrameType) /\ sock \in Seq(FrameType)
        /\ \A k \in 1 .. Len(Out) : Out[k].id \in Int /\ Out[k] \in FrameType
    <2>1. writeBuf \in Seq(FrameType) /\ sock \in Seq(FrameType) /\ nextStreamId \in Nat
      BY ClientConstants DEF TypeOK, EndpointTypeOK
    <2>2. Out \in Seq(FrameType)
      BY <2>1, ConcatProperties DEF Out
    <2>3. \A frame \in FrameType : frame.id \in Int
      BY ConstantFacts DEF FrameType, U31
    <2>4. \A k \in 1 .. Len(Out) : Out[k] \in FrameType
      BY <2>2, ElementOfSeq
    <2> QED
      BY <2>1, <2>2, <2>3, <2>4
  <1> DEFINE Ordered(out) == \A a, b \in 1 .. Len(out) :
                                out[b].type = "HEADERS" /\ a < b => out[a].id # out[b].id
             Below(out, n) == \A k \in 1 .. Len(out) : out[k].id < n
  <1>1. Ordered(Out) /\ Below(Out, nextStreamId)
    BY DEF HeadersFirst, OutBelowNext, Out
  <1>2. CASE \E end \in AppEnds : StartRequest(end)
    <2>1. PICK end \in AppEnds : StartRequest(end)
      BY <1>2
    <2>2. NewStreamId = nextStreamId /\ nextStreamId' = nextStreamId + 2
      BY <2>1, NewIdUnused
    <2>3. NewStreamId \in U31 /\ 0 \in Nat
      BY <2>1, NewStreamIdType DEF StartRequest, TypeOK
    <2> DEFINE frame == Frame("HEADERS", NewStreamId, 0, end)
    <2>4. frame \in FrameType /\ frame.id = nextStreamId
      BY <2>2, <2>3, FrameTyped DEF Frame
    <2>5. Emit(frame)
      BY <2>1 DEF StartRequest
    <2> HIDE DEF frame
    <2>6. Out' = Append(Out, frame)
      BY <1>0, <2>4, <2>5, EmitOut
    <2>7. \A a \in 1 .. Len(Out) : Out[a].id # frame.id
      BY <1>0, <1>1, <2>4
    <2>8. Ordered(Out')
      <3>1. /\ Len(Out') = Len(Out) + 1 /\ Out'[Len(Out) + 1] = frame
            /\ \A k \in 1 .. Len(Out) : Out'[k] = Out[k]
        BY <1>0, <2>4, <2>6, AppendProperties
      <3> QED
        BY <1>0, <1>1, <2>7, <3>1
    <2>9. Below(Out', nextStreamId')
      BY <1>0, <1>1, <2>2, <2>4, <2>6, AppendProperties
    <2> QED
      BY <2>8, <2>9 DEF HeadersFirst, OutBelowNext, Out
  <1>3. CASE OutMoves /\ nextStreamId' = nextStreamId
    <2>a. ASSUME NEW out \in Seq(FrameType), NEW frame, Ordinary(frame), Ordered(out),
                 Below(out, nextStreamId), NEW all, all = Append(out, frame)
          PROVE  Ordered(all) /\ Below(all, nextStreamId) /\ all \in Seq(FrameType)
      <3>1. frame \in FrameType /\ frame.type # "HEADERS" /\ frame.id < nextStreamId
        BY <2>a DEF Ordinary
      <3>2. Ordered(all)
        BY <2>a, <3>1, AppendOrdered
      <3>3. Below(all, nextStreamId)
        BY <1>0, <2>a, <3>1, AppendProperties, LenProperties
      <3> QED
        BY <2>a, <3>1, <3>2, <3>3, AppendProperties
    <2>1. CASE Out' = Out
      BY <1>1, <1>3, <2>1 DEF HeadersFirst, OutBelowNext, Out
    <2>2. CASE Out # <<>> /\ Out' = Tail(Out)
      <3>1. /\ Len(Out') = Len(Out) - 1
            /\ \A k \in 1 .. Len(Out') : Out'[k] = Out[k + 1]
        BY <1>0, <2>2, HeadTailProperties
      <3>2. Below(Out', nextStreamId')
        <4>1. ASSUME NEW k \in 1 .. Len(Out') PROVE Out'[k].id < nextStreamId
          <5>1. k + 1 \in 1 .. Len(Out)
            BY <1>0, <3>1
          <5>2. Out[k + 1].id < nextStreamId
            BY <1>1, <5>1
          <5> QED
            BY <3>1, <5>2
        <4> QED
          BY <1>3, <4>1
      <3>3. Ordered(Out')
        <4> SUFFICES ASSUME NEW a \in 1 .. Len(Out'), NEW b \in 1 .. Len(Out'),
                            Out'[b].type = "HEADERS", a < b
                     PROVE  Out'[a].id # Out'[b].id
          OBVIOUS
        <4>1. a + 1 \in 1 .. Len(Out) /\ b + 1 \in 1 .. Len(Out) /\ a + 1 < b + 1
          BY <1>0, <3>1
        <4>2. Out[b + 1].type = "HEADERS" => Out[a + 1].id # Out[b + 1].id
          BY <1>1, <4>1
        <4> QED
          BY <3>1, <4>2
      <3> QED
        BY <3>2, <3>3 DEF HeadersFirst, OutBelowNext, Out
    <2>3. CASE \E frame : Ordinary(frame) /\ Out' = Append(Out, frame)
      <3>1. Ordered(Out') /\ Below(Out', nextStreamId)
        BY <1>0, <1>1, <2>a, <2>3
      <3> QED
        BY <1>3, <3>1 DEF HeadersFirst, OutBelowNext, Out
    <2>4. CASE \E one, two : /\ Ordinary(one) /\ Ordinary(two)
                             /\ Out' = Append(Append(Out, one), two)
      <3>1. PICK one, two : /\ Ordinary(one) /\ Ordinary(two)
                            /\ Out' = Append(Append(Out, one), two)
        BY <2>4
      <3> DEFINE half == Append(Out, one)
      <3>2. Ordered(half) /\ Below(half, nextStreamId) /\ half \in Seq(FrameType)
        BY <1>0, <1>1, <2>a, <3>1
      <3>3. Out' = Append(half, two)
        BY <3>1
      <3> HIDE DEF half
      <3>4. Ordered(Out') /\ Below(Out', nextStreamId)
        BY <2>a, <3>1, <3>2, <3>3
      <3> QED
        BY <1>3, <3>4 DEF HeadersFirst, OutBelowNext, Out
    <2> QED
      BY <1>3, <2>1, <2>2, <2>3, <2>4 DEF OutMoves
  <1> QED
    BY <1>2, <1>3, NextOut, NextMoves

\* No frame of a stream leaves before its HEADERS, however the transport splits
\* the writes and whenever it goes down, while the ids last.
THEOREM HeadersFirstHolds ==
    ASSUME IdsLast
    PROVE  Spec => []HeadersFirst
  <1>1. Init => OutBelowNext /\ HeadersFirst
    <2> SUFFICES ASSUME Init PROVE OutBelowNext /\ HeadersFirst
      OBVIOUS
    <2>1. sock \o writeBuf = <<>> /\ Len(<<>>) = 0
      BY DEF Init, EndpointInit
    <2> QED
      BY <2>1 DEF OutBelowNext, HeadersFirst, Out
  <1> QED
    BY <1>1, NextHeadersFirst, IdsBelowNextHolds, TypeCorrect, PTL DEF Spec
===============================================================================
