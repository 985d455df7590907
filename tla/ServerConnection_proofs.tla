------------------------ MODULE ServerConnection_proofs -----------------------
(***************************************************************************)
(* Proofs about the server connection: type correctness, the flow control  *)
(* ledger it shares with the client, what its request ids promise, and the *)
(* states of its streams.                                                  *)
(***************************************************************************)
EXTENDS ServerConnection, Endpoint_proofs

\* What the client and the application may give.
LEMMA InputFacts ==
    /\ PeerIds \subseteq U31 \ {0} /\ PeerIncrements \subseteq U31
    /\ PeerLens \subseteq U31 /\ AppLens \subseteq U31
    /\ PeerEnds \subseteq BOOLEAN /\ AppEnds \subseteq BOOLEAN
  BY EndpointAssumption, ConstantFacts DEF U31

\* Encoding one frame keeps write_buf a sequence of frames.
LEMMA EmitType ==
    ASSUME writeBuf \in Seq(FrameType), NEW frame \in FrameType, Emit(frame)
    PROVE  writeBuf' \in Seq(FrameType)
  BY DEF Emit

\* What the server takes of a call is a 31-bit number that both windows allow.
LEMMA ServerAvailable ==
    ASSUME CoreTypeOK, NEW i \in DOMAIN streams, NEW len \in U31
    PROVE  /\ ToSend(i, len) \in U31
           /\ ToSend(i, len) <= Available(i)
  BY AvailableFacts, ConstantFacts DEF ToSend, Lesser, U31

\* A request's stream, as the headers leave it.
LEMMA RequestStreamType ==
    ASSUME CoreTypeOK
    PROVE  /\ NewStream(remote.initialWindow) \in StreamType
           /\ RecvEndStream(NewStream(remote.initialWindow)) \in StreamType
  BY NewStreamType, EndStreamType DEF CoreTypeOK, RemoteType

-------------------------------------------------------------------------------
(***************************************************************************)
(* Type correctness, one step per action.                                  *)
(***************************************************************************)

\* ServerConnection::new builds a well typed state.
LEMMA InitTypeOK == Init => TypeOK
  BY InitType, ZeroInU31 DEF Init, TypeOK

\* Every step of the server keeps the types: one case per action.
LEMMA NextTypeOK == TypeOK /\ [Next]_vars => TypeOK'
  <1> SUFFICES ASSUME TypeOK, [Next]_vars PROVE TypeOK'
    OBVIOUS
  <1> USE InputFacts
  <1>0. /\ CoreTypeOK /\ writeBuf \in Seq(FrameType) /\ lastClientStreamId \in U31
        /\ 0 \in U31 /\ 0 \in Nat
    BY ZeroInU31 DEF TypeOK, EndpointTypeOK
  <1>1. ASSUME RecvPreface PROVE TypeOK'
    <2>1. CoreTypeOK'
      BY <1>0, <1>1 DEF RecvPreface, CoreTypeOK, history, States
    <2>2. writeBuf' \in Seq(FrameType)
      BY <1>0, <1>1, EmitType, FrameTyped DEF RecvPreface
    <2> QED
      BY <1>1, <2>1, <2>2 DEF RecvPreface, TypeOK, EndpointTypeOK
  <1>2. ASSUME RecvBadPreface PROVE TypeOK'
    <2>1. CoreTypeOK'
      BY <1>0, <1>2, HandleErrorType DEF RecvBadPreface
    <2> QED
      BY <1>2, <2>1 DEF RecvBadPreface, TypeOK, EndpointTypeOK
  <1>3. ASSUME NEW s \in PeerSettings, RecvSettings(s) PROVE TypeOK'
    <2>1. CoreTypeOK'
      BY <1>0, <1>3, HandleSettingsType DEF RecvSettings
    <2>2. writeBuf' \in Seq(FrameType)
      BY <1>0, <1>3, EmitType, FrameTyped DEF RecvSettings
    <2> QED
      BY <1>3, <2>1, <2>2 DEF RecvSettings, CanReceive, TypeOK, EndpointTypeOK
  <1>4. ASSUME RecvPing PROVE TypeOK'
    <2>1. CoreTypeOK'
      BY <1>0, <1>4 DEF RecvPing, core, history, CoreTypeOK
    <2>2. writeBuf' \in Seq(FrameType)
      BY <1>0, <1>4, EmitType, FrameTyped DEF RecvPing
    <2> QED
      BY <1>4, <2>1, <2>2 DEF RecvPing, CanReceive, TypeOK, EndpointTypeOK
  <1>5. ASSUME RecvGoAway PROVE TypeOK'
    <2>1. CoreTypeOK'
      BY <1>0, <1>5, HandleGoAwayType DEF RecvGoAway
    <2> QED
      BY <1>5, <2>1 DEF RecvGoAway, CanReceive, TypeOK, EndpointTypeOK
  <1>6. ASSUME NEW i \in PeerIds \cup {0}, NEW n \in PeerIncrements, RecvWindowUpdate(i, n)
        PROVE  TypeOK'
    <2>1. i \in U31 /\ n \in U31
      BY <1>0
    <2>2. CoreTypeOK'
      BY <1>0, <1>6, <2>1, CreditConnectionType, CreditStreamType, RejectCreditType
         DEF RecvWindowUpdate
    <2> QED
      BY <1>6, <2>2 DEF RecvWindowUpdate, CanReceive, TypeOK, EndpointTypeOK
  <1>7. ASSUME NEW i \in PeerIds, NEW end \in PeerEnds, RecvRequest(i, end) PROVE TypeOK'
    <2>1. events' \in Seq(EventType)
      BY <1>0, <1>7, PushType DEF RecvRequest
    <2> DEFINE opened == NewStream(remote.initialWindow)
               stream == IF end THEN RecvEndStream(opened) ELSE opened
    <2>2. stream \in StreamType
      BY <1>0, RequestStreamType
    <2>3. OpenStream(i, stream, EndMark(end, "remote")) /\ EndMark(end, "remote") \in SUBSET Ends
      BY <1>7, EndMarkType DEF RecvRequest, Ends
    <2>4. CoreTypeOK'
      <3> HIDE DEF stream
      <3> QED
        BY <1>0, <1>7, <2>1, <2>2, <2>3, OpenStreamType DEF RecvRequest, CoreTypeOK
    <2> QED
      BY <1>7, <2>4 DEF RecvRequest, CanReceive, TypeOK, EndpointTypeOK
  <1>8. ASSUME NEW i \in PeerIds, RecvBadRequest(i) PROVE TypeOK'
    <2>1. CoreTypeOK'
      BY <1>0, <1>8, HandleErrorType DEF RecvBadRequest
    <2> QED
      BY <1>8, <2>1 DEF RecvBadRequest, CanReceive, TypeOK, EndpointTypeOK
  <1>9. ASSUME NEW i \in PeerIds, NEW end \in PeerEnds, RecvOldHeaders(i, end) PROVE TypeOK'
    <2>1. CoreTypeOK'
      BY <1>0, <1>9, HandleRefusedType DEF RecvOldHeaders
    <2> QED
      BY <1>9, <2>1 DEF RecvOldHeaders, CanReceive, TypeOK, EndpointTypeOK
  <1>10. ASSUME NEW i \in PeerIds, NEW len \in PeerLens, NEW end \in PeerEnds,
                RecvData(i, len, end)
         PROVE  TypeOK'
    <2>1. CoreTypeOK'
      BY <1>0, <1>10, HandleDataType DEF RecvData
    <2>2. Increment(len) \in Nat
      BY <1>0, ConsumeType, ConstantFacts
         DEF Increment, AfterData, CoreTypeOK, FlowType, U32, U32Max
    <2>3. writeBuf' \in Seq(FrameType)
      BY <1>0, <1>10, <2>2, EmitType, FrameTyped DEF RecvData
    <2> QED
      BY <1>10, <2>1, <2>3 DEF RecvData, CanReceive, TypeOK, EndpointTypeOK
  <1>11. ASSUME NEW i \in PeerIds, RecvRstStream(i) PROVE TypeOK'
    <2>1. CoreTypeOK'
      BY <1>0, <1>11, HandleRstStreamType DEF RecvRstStream
    <2> QED
      BY <1>11, <2>1 DEF RecvRstStream, CanReceive, TypeOK, EndpointTypeOK
  <1>12. ASSUME NEW i \in PeerIds, NEW end \in PeerEnds, RecvBadFrame(i, end) PROVE TypeOK'
    <2>1. CoreTypeOK'
      BY <1>0, <1>12, ZeroInU31, HandleRefusedType DEF RecvBadFrame
    <2> QED
      BY <1>12, <2>1 DEF RecvBadFrame, CanReceive, TypeOK, EndpointTypeOK
  <1>13. ASSUME NEW i \in DOMAIN streams, NEW end \in AppEnds, SendHeaders(i, end)
         PROVE  TypeOK'
    <2>1. i \in U31 /\ SendEndStream(streams[i]) \in StreamType
      BY <1>0, EndStreamType DEF CoreTypeOK
    <2>2. DOMAIN ended' = DOMAIN ended /\ ended' \in [DOMAIN ended -> SUBSET Ends]
      BY <1>0, <1>13, MarkType, EndMarkType DEF SendHeaders, Ends
    <2>3. DOMAIN streams' = DOMAIN streams /\ streams' \in [DOMAIN streams -> StreamType]
      BY <1>0, <1>13, <2>1 DEF SendHeaders, CoreTypeOK
    <2>4. CoreTypeOK'
      BY <1>0, <1>13, <2>2, <2>3 DEF SendHeaders, CoreTypeOK
    <2>5. writeBuf' \in Seq(FrameType)
      BY <1>0, <1>13, <2>1, EmitType, FrameTyped DEF SendHeaders
    <2> QED
      BY <1>13, <2>4, <2>5 DEF SendHeaders, own, TypeOK, EndpointTypeOK
  <1>14. ASSUME NEW i \in DOMAIN streams, NEW len \in AppLens, NEW end \in AppEnds,
                SendData(i, len, end)
         PROVE  TypeOK'
    <2> DEFINE n == ToSend(i, len)
               isEnd == end /\ n = len
    <2>1. n \in U31 /\ n \in Nat /\ i \in U31 /\ isEnd \in BOOLEAN
      <3>1. len \in U31 /\ i \in U31
        BY <1>0 DEF CoreTypeOK
      <3>2. n \in U31
        BY <1>0, <3>1, ServerAvailable
      <3> QED
        BY <3>1, <3>2, ConstantFacts DEF U31
    <2>2. SendOn(i, n, isEnd) /\ Emit(Frame("DATA", i, n, isEnd)) /\ UNCHANGED own
      BY <1>14 DEF SendData
    <2> HIDE DEF n, isEnd
    <2>3. CoreTypeOK'
      BY <1>0, <2>1, <2>2, SendOnType
    <2>4. writeBuf' \in Seq(FrameType)
      BY <1>0, <2>1, <2>2, EmitType, FrameTyped
    <2> QED
      BY <2>2, <2>3, <2>4 DEF own, TypeOK, EndpointTypeOK
  <1>15. ASSUME SendGoAway PROVE TypeOK'
    <2>1. CoreTypeOK'
      BY <1>0, <1>15 DEF SendGoAway, CoreTypeOK, history, States
    <2>2. writeBuf' \in Seq(FrameType)
      BY <1>0, <1>15, EmitType, FrameTyped DEF SendGoAway
    <2> QED
      BY <1>15, <2>1, <2>2 DEF SendGoAway, TypeOK, EndpointTypeOK
  <1>16. ASSUME NEW i \in DOMAIN ended, SendReset(i) PROVE TypeOK'
    <2>1. i \in U31
      BY <1>0 DEF CoreTypeOK
    <2>2. \A j \in DOMAIN streams : ResetStream(streams[j]) \in StreamType
      BY <1>0, EndStreamType DEF CoreTypeOK
    <2>3. DOMAIN ended' = DOMAIN ended /\ ended' \in [DOMAIN ended -> SUBSET Ends]
      BY <1>0, <1>16, MarkType DEF SendReset, Ends
    <2>4. DOMAIN streams' = DOMAIN streams /\ streams' \in [DOMAIN streams -> StreamType]
      BY <1>0, <1>16, <2>2 DEF SendReset, CoreTypeOK
    <2>5. CoreTypeOK'
      BY <1>0, <1>16, <2>3, <2>4 DEF SendReset, CoreTypeOK
    <2>6. writeBuf' \in Seq(FrameType)
      BY <1>0, <1>16, <2>1, EmitType, FrameTyped DEF SendReset
    <2> QED
      BY <1>16, <2>5, <2>6 DEF SendReset, own, TypeOK, EndpointTypeOK
  <1>17. ASSUME NEW i \in DOMAIN streams, RemoveStream(i) PROVE TypeOK'
    <2>1. CoreTypeOK'
      BY <1>0, <1>17 DEF RemoveStream, CoreTypeOK, history
    <2> QED
      BY <1>17, <2>1 DEF RemoveStream, own, TypeOK, EndpointTypeOK
  <1>18. ASSUME PollEvents PROVE TypeOK'
    <2>1. CoreTypeOK'
      BY <1>0, <1>18, TakeEventsType DEF PollEvents
    <2> QED
      BY <1>18, <2>1 DEF PollEvents, own, TypeOK, EndpointTypeOK
  <1>19. ASSUME AdvanceSend PROVE TypeOK'
    <2>1. writeBuf' \in Seq(FrameType)
      BY <1>0, <1>19 DEF AdvanceSend
    <2> QED
      BY <1>19, <2>1 DEF AdvanceSend, core, history, own, TypeOK, EndpointTypeOK, CoreTypeOK
  <1>20. ASSUME UNCHANGED vars PROVE TypeOK'
    BY <1>20 DEF vars, core, history, TypeOK, EndpointTypeOK, CoreTypeOK
  <1> QED
    BY <1>1, <1>2, <1>3, <1>4, <1>5, <1>6, <1>7, <1>8, <1>9, <1>10, <1>11, <1>12, <1>13,
       <1>14, <1>15, <1>16, <1>17, <1>18, <1>19, <1>20 DEF Next, Recv, Call

\* Type correctness of the server: every variable keeps its type and the
\* windows and counters their width, whatever the client sends.
THEOREM TypeCorrect == Spec => []TypeOK
  BY InitTypeOK, NextTypeOK, PTL DEF Spec

-------------------------------------------------------------------------------
(***************************************************************************)
(* The flow control ledger: only WINDOW_UPDATE, DATA and send_data touch   *)
(* what it reads, the rest is LedgerFrame.                                 *)
(***************************************************************************)

\* Every step of the server keeps the ledger.
LEMMA NextLedger == TypeOK /\ Ledger /\ [Next]_vars => Ledger'
  <1> SUFFICES ASSUME TypeOK, Ledger, [Next]_vars PROVE Ledger'
    OBVIOUS
  <1> USE InputFacts
  <1>0. CoreTypeOK /\ lastClientStreamId \in U31
    BY DEF TypeOK, EndpointTypeOK
  <1>1. ASSUME RecvPreface PROVE Ledger'
    BY <1>1, LedgerFrame DEF RecvPreface, history
  <1>2. ASSUME RecvBadPreface \/ \E i \in PeerIds : RecvBadRequest(i)
        PROVE  Ledger'
    BY <1>2, LedgerFrame DEF RecvBadPreface, RecvBadRequest, HandleError, history
  <1>3. ASSUME NEW s \in PeerSettings, RecvSettings(s) PROVE Ledger'
    BY <1>3, LedgerFrame DEF RecvSettings, HandleSettings, history
  <1>4. ASSUME RecvPing PROVE Ledger'
    BY <1>4, LedgerFrame DEF RecvPing, core, history
  <1>5. ASSUME RecvGoAway PROVE Ledger'
    BY <1>5, LedgerFrame DEF RecvGoAway, HandleGoAway, history
  <1>6. ASSUME NEW i \in PeerIds \cup {0}, NEW n \in PeerIncrements, RecvWindowUpdate(i, n)
        PROVE  Ledger'
    <2>1. CASE CreditConnection(n)
      BY <1>0, <2>1, CreditConnectionLedger
    <2>2. CASE i \in DOMAIN streams /\ CreditStream(i, n)
      <3>1. i # 0 /\ credit'[0] = credit[0]
        BY <1>0, <2>2 DEF CreditStream, CoreTypeOK
      <3> QED
        BY <2>2, <3>1, LedgerFrame DEF CreditStream
    <2>3. CASE RejectCredit(i, n)
      BY <2>3, LedgerFrame DEF RejectCredit, history
    <2> QED
      BY <1>6, <2>1, <2>2, <2>3 DEF RecvWindowUpdate
  <1>7. ASSUME NEW i \in PeerIds, NEW end \in PeerEnds, RecvRequest(i, end) PROVE Ledger'
    <2> DEFINE opened == NewStream(remote.initialWindow)
               stream == IF end THEN RecvEndStream(opened) ELSE opened
    <2>1. stream \in StreamType
      BY <1>0, RequestStreamType
    <2>2. OpenStream(i, stream, EndMark(end, "remote")) /\ EndMark(end, "remote") \in SUBSET Ends
      BY <1>7, EndMarkType DEF RecvRequest, Ends
    <2> HIDE DEF stream
    <2>3. credit'[0] = credit[0] /\ sent'[0] = sent[0]
      BY <1>0, <2>1, <2>2, OpenStreamType
    <2> QED
      BY <1>7, <2>3, LedgerFrame DEF RecvRequest
  <1>8. ASSUME NEW i \in PeerIds, NEW end \in PeerEnds,
               RecvOldHeaders(i, end) \/ RecvBadFrame(i, end)
        PROVE  Ledger'
    BY <1>8, LedgerFrame DEF RecvOldHeaders, RecvBadFrame, HandleRefused
  <1>9. ASSUME NEW i \in PeerIds, NEW len \in PeerLens, NEW end \in PeerEnds,
               RecvData(i, len, end)
        PROVE  Ledger'
    BY <1>0, <1>9, HandleDataLedger DEF RecvData
  <1>10. ASSUME NEW i \in PeerIds, RecvRstStream(i) PROVE Ledger'
    BY <1>10, LedgerFrame DEF RecvRstStream, HandleRstStream
  <1>11. ASSUME NEW i \in DOMAIN streams, NEW end \in AppEnds, SendHeaders(i, end)
         PROVE  Ledger'
    BY <1>11, LedgerFrame DEF SendHeaders
  <1>12. ASSUME NEW i \in DOMAIN streams, NEW len \in AppLens, NEW end \in AppEnds,
                SendData(i, len, end)
         PROVE  Ledger'
    <2> DEFINE n == ToSend(i, len)
               isEnd == end /\ n = len
    <2>1. n \in U31 /\ n <= Available(i) /\ isEnd \in BOOLEAN
      <3>1. len \in U31
        OBVIOUS
      <3> QED
        BY <1>0, <3>1, ServerAvailable
    <2>2. SendOn(i, n, isEnd)
      BY <1>12 DEF SendData
    <2> HIDE DEF n, isEnd
    <2> QED
      BY <1>0, <2>1, <2>2, SendOnLedger
  <1>13. ASSUME SendGoAway PROVE Ledger'
    BY <1>13, LedgerFrame DEF SendGoAway, history
  <1>14. ASSUME NEW i \in DOMAIN ended, SendReset(i) PROVE Ledger'
    BY <1>14, LedgerFrame DEF SendReset
  <1>15. ASSUME NEW i \in DOMAIN streams, RemoveStream(i) PROVE Ledger'
    BY <1>15, LedgerFrame DEF RemoveStream, history
  <1>16. ASSUME PollEvents PROVE Ledger'
    BY <1>16, LedgerFrame DEF PollEvents, TakeEvents, history
  <1>17. ASSUME AdvanceSend \/ UNCHANGED vars PROVE Ledger'
    BY <1>17, LedgerFrame DEF AdvanceSend, vars, core, history
  <1> QED
    BY <1>1, <1>2, <1>3, <1>4, <1>5, <1>6, <1>7, <1>8, <1>9, <1>10, <1>11, <1>12, <1>13,
       <1>14, <1>15, <1>16, <1>17 DEF Next, Recv, Call

\* The inductive invariant behind the next two properties.
THEOREM LedgerInvariant == Spec => []Ledger
  <1>1. Init => Ledger
    BY InitLedger DEF Init
  <1>2. TypeOK /\ Ledger /\ [Next]_vars => Ledger'
    BY NextLedger
  <1> QED
    BY <1>1, <1>2, TypeCorrect, PTL DEF Spec

\* The server's shared window and counter stay in step with the traffic of
\* both directions, as the client's do.
THEOREM ConnLedgerHolds == Spec => []ConnLedger
  <1>1. Ledger => ConnLedger
    BY DEF Ledger
  <1> QED
    BY <1>1, LedgerInvariant, PTL

\* The server's send_data never reads a negative connection window as usize,
\* and its handle_data returns credit before half of the client's window is used.
THEOREM ServerWindowHolds == Spec => [](ConnWindowNonNegative /\ PeerNotStarved)
  <1>1. Ledger => ConnWindowNonNegative /\ PeerNotStarved
    BY DEF Ledger
  <1> QED
    BY <1>1, LedgerInvariant, PTL

-------------------------------------------------------------------------------
(***************************************************************************)
(* Request ids.  The invariant: last_client_stream_id is not below any id  *)
(* that ever named a stream, those removed since included.                 *)
(***************************************************************************)
IdsRemembered == \A i \in DOMAIN ended : i <= lastClientStreamId

\* Ids are numbers, so they can be compared.
LEMMA IdsAreNumbers ==
    /\ PeerIds \subseteq Int
    /\ TypeOK => lastClientStreamId \in Int /\ DOMAIN ended \subseteq Int
  <1>1. U31 \subseteq Int
    BY ConstantFacts DEF U31
  <1>2. PeerIds \subseteq Int
    BY <1>1, EndpointAssumption
  <1>3. TypeOK => lastClientStreamId \in U31 /\ DOMAIN ended \subseteq U31 \ {0}
    BY DEF TypeOK, EndpointTypeOK, CoreTypeOK
  <1> QED
    BY <1>1, <1>2, <1>3

\* Marking an end opens no stream.
LEMMA MarkDomain ==
    ASSUME NEW i, NEW ends, Mark(i, ends)
    PROVE  DOMAIN ended' = DOMAIN ended
  BY DEF Mark

\* Only a request opens a stream; every other step leaves the streams known
\* alone, and lets last_client_stream_id only grow.
LEMMA OnlyRequestsOpen ==
    ASSUME TypeOK, [Next]_vars
    PROVE  \/ \E i \in PeerIds, end \in PeerEnds : RecvRequest(i, end)
           \/ /\ DOMAIN ended' = DOMAIN ended
              /\ DOMAIN streams' \subseteq DOMAIN streams
              /\ lastClientStreamId' >= lastClientStreamId
  <1> DEFINE Kept == /\ DOMAIN ended' = DOMAIN ended
                     /\ DOMAIN streams' \subseteq DOMAIN streams
                     /\ lastClientStreamId' >= lastClientStreamId
  <1>0. lastClientStreamId \in Int /\ PeerIds \subseteq Int
    BY IdsAreNumbers
  <1>1. ASSUME RecvPreface \/ RecvPing \/ RecvGoAway \/ SendGoAway PROVE Kept
    <2>1. CASE RecvPreface
      BY <1>0, <2>1 DEF RecvPreface, history
    <2>2. CASE RecvPing
      BY <1>0, <2>2 DEF RecvPing, core, history
    <2>3. CASE RecvGoAway
      BY <1>0, <2>3 DEF RecvGoAway, HandleGoAway, history
    <2>4. CASE SendGoAway
      BY <1>0, <2>4 DEF SendGoAway, history
    <2> QED
      BY <1>1, <2>1, <2>2, <2>3, <2>4
  <1>2. ASSUME RecvBadPreface PROVE Kept
    BY <1>0, <1>2 DEF RecvBadPreface, HandleError, history
  <1>3. ASSUME NEW i \in PeerIds, RecvBadRequest(i) PROVE Kept
    BY <1>0, <1>3 DEF RecvBadRequest, ValidNewId, HandleError, history
  <1>4. ASSUME PollEvents \/ AdvanceSend \/ UNCHANGED vars PROVE Kept
    BY <1>0, <1>4 DEF PollEvents, TakeEvents, AdvanceSend, vars, core, history, own
  <1>5. ASSUME NEW s \in PeerSettings, RecvSettings(s) PROVE Kept
    BY <1>0, <1>5 DEF RecvSettings, HandleSettings, ApplySettings, history
  <1>6. ASSUME NEW i \in PeerIds \cup {0}, NEW n \in PeerIncrements, RecvWindowUpdate(i, n)
         PROVE  Kept
    BY <1>0, <1>6
       DEF RecvWindowUpdate, CreditConnection, CreditStream, RejectCredit, history
  <1>7. ASSUME NEW i \in DOMAIN streams, RemoveStream(i) PROVE Kept
    BY <1>0, <1>7 DEF RemoveStream, history, own
  <1>8. ASSUME NEW i \in PeerIds, NEW len \in PeerLens, NEW end \in PeerEnds,
               RecvData(i, len, end)
        PROVE  Kept
    BY <1>0, <1>8, MarkDomain DEF RecvData, HandleData
  <1>9. ASSUME NEW i \in PeerIds, RecvRstStream(i) PROVE Kept
    BY <1>0, <1>9, MarkDomain DEF RecvRstStream, HandleRstStream
  <1>10. ASSUME NEW i \in PeerIds, NEW end \in PeerEnds,
                RecvOldHeaders(i, end) \/ RecvBadFrame(i, end)
         PROVE  Kept
    BY <1>0, <1>10, MarkDomain DEF RecvOldHeaders, RecvBadFrame, HandleRefused
  <1>11. ASSUME NEW i \in DOMAIN streams, NEW end \in AppEnds, SendHeaders(i, end) PROVE Kept
    BY <1>0, <1>11, MarkDomain DEF SendHeaders, own
  <1>12. ASSUME NEW i \in DOMAIN streams, NEW len \in AppLens, NEW end \in AppEnds,
               SendData(i, len, end)
        PROVE  Kept
    BY <1>0, <1>12, MarkDomain DEF SendData, SendOn, own
  <1>13. ASSUME NEW i \in DOMAIN ended, SendReset(i) PROVE Kept
    BY <1>0, <1>13, MarkDomain DEF SendReset, own
  <1> HIDE DEF Kept
  <1>14. Kept \/ \E i \in PeerIds, end \in PeerEnds : RecvRequest(i, end)
    BY <1>1, <1>2, <1>3, <1>4, <1>5, <1>6, <1>7, <1>8, <1>9, <1>10, <1>11, <1>12, <1>13
       DEF Next, Recv, Call
  <1> QED
    BY <1>14 DEF Kept

\* A request opens the stream of its id and no other, and the id is remembered.
LEMMA RequestOpens ==
    ASSUME NEW i, NEW end, RecvRequest(i, end)
    PROVE  /\ ValidNewId(i)
           /\ lastClientStreamId' = i
           /\ DOMAIN ended' = DOMAIN ended \cup {i}
           /\ DOMAIN streams' = DOMAIN streams \cup {i}
  BY DEF RecvRequest, OpenStream, Insert

\* Every step keeps the ids remembered.
LEMMA NextIdsRemembered == TypeOK /\ IdsRemembered /\ [Next]_vars => IdsRemembered'
  <1> SUFFICES ASSUME TypeOK, IdsRemembered, [Next]_vars PROVE IdsRemembered'
    OBVIOUS
  <1>0. lastClientStreamId \in Int /\ DOMAIN ended \subseteq Int /\ PeerIds \subseteq Int
    BY IdsAreNumbers
  <1>3. lastClientStreamId' \in Int
    <2>1. TypeOK'
      BY NextTypeOK
    <2> QED
      BY <2>1, ConstantFacts DEF TypeOK, U31
  <1>1. CASE \E i \in PeerIds, end \in PeerEnds : RecvRequest(i, end)
    <2>1. PICK i \in PeerIds, end \in PeerEnds : RecvRequest(i, end)
      BY <1>1
    <2>2. /\ i > lastClientStreamId /\ lastClientStreamId' = i
          /\ DOMAIN ended' = DOMAIN ended \cup {i}
      BY <2>1, RequestOpens DEF ValidNewId
    <2> QED
      BY <1>0, <2>2 DEF IdsRemembered
  <1>2. CASE DOMAIN ended' = DOMAIN ended /\ lastClientStreamId' >= lastClientStreamId
    BY <1>0, <1>2, <1>3 DEF IdsRemembered
  <1> QED
    BY <1>1, <1>2, OnlyRequestsOpen

\* The ids of the streams opened so far stay within last_client_stream_id.
THEOREM IdsRememberedHolds == Spec => []IdsRemembered
  <1>1. Init => IdsRemembered
    BY DEF Init, EndpointInit, IdsRemembered
  <1> QED
    BY <1>1, NextIdsRemembered, TypeCorrect, PTL DEF Spec

\* A stream id names one request for the life of the connection: no frame, of
\* whatever order, opens a stream again, not even one that was removed.
THEOREM RequestIdsGrowHolds == Spec => RequestIdsGrow
  <1> DEFINE Grows == \A i \in DOMAIN streams' \ DOMAIN streams :
                         i % 2 = 1 /\ \A j \in DOMAIN ended : j < i
  <1>1. TypeOK /\ IdsRemembered /\ [Next]_vars => [Grows]_<<streams, ended>>
    <2> SUFFICES ASSUME TypeOK, IdsRemembered, [Next]_vars PROVE Grows
      OBVIOUS
    <2>0. lastClientStreamId \in Int /\ DOMAIN ended \subseteq Int /\ PeerIds \subseteq Int
      BY IdsAreNumbers
    <2>1. CASE \E i \in PeerIds, end \in PeerEnds : RecvRequest(i, end)
      <3>1. PICK i \in PeerIds, end \in PeerEnds : RecvRequest(i, end)
        BY <2>1
      <3>2. /\ i % 2 = 1 /\ i > lastClientStreamId
            /\ DOMAIN streams' = DOMAIN streams \cup {i}
        BY <3>1, RequestOpens DEF ValidNewId
      <3> QED
        BY <2>0, <3>2 DEF IdsRemembered
    <2>2. CASE DOMAIN streams' \subseteq DOMAIN streams
      BY <2>2
    <2> QED
      BY <2>1, <2>2, OnlyRequestsOpen
  <1> QED
    BY <1>1, TypeCorrect, IdsRememberedHolds, PTL DEF Spec, RequestIdsGrow

\* send_goaway names an id no request the application has heard of is beyond,
\* removed streams included: what the client retries was never looked at.
THEOREM GoAwayCoversRequestsHolds == Spec => GoAwayCoversRequests
  <1> DEFINE Covers == announced' # announced => \A i \in DOMAIN ended : i <= announced'
  <1>1. IdsRemembered /\ [Next]_vars => [Covers]_announced
    <2> SUFFICES ASSUME IdsRemembered, [Next]_vars, announced' # announced
                 PROVE  \A i \in DOMAIN ended : i <= announced'
      OBVIOUS
    <2>1. CASE SendGoAway
      BY <2>1 DEF SendGoAway, IdsRemembered
    <2>2. CASE Recv \/ (Call /\ ~SendGoAway) \/ UNCHANGED vars
      BY <2>2
         DEF Recv, Call, RecvPreface, RecvBadPreface, RecvSettings, RecvPing, RecvGoAway,
             RecvWindowUpdate, RecvRequest, RecvBadRequest, RecvOldHeaders, RecvData,
             RecvRstStream, RecvBadFrame, CanReceive, SendHeaders, SendData, SendReset,
             RemoveStream, PollEvents, AdvanceSend, own, vars
    <2> QED
      BY <2>1, <2>2 DEF Next
  <1> QED
    BY <1>1, IdsRememberedHolds, PTL DEF Spec, GoAwayCoversRequests
-------------------------------------------------------------------------------
(***************************************************************************)
(* The streams of the server: every action is one of the moves.            *)
(***************************************************************************)

\* A request opens a stream that was not there, as its HEADERS leave it.
LEMMA RecvRequestMoves ==
    ASSUME TypeOK, IdsRemembered, NEW i \in PeerIds, NEW end \in BOOLEAN, RecvRequest(i, end)
    PROVE  /\ ServerMoves
           /\ i \notin DOMAIN streams
           /\ DOMAIN streams' = DOMAIN streams \cup {i}
           /\ \A j \in DOMAIN streams : StateMove(j)
  <1> DEFINE fresh == NewStream(remote.initialWindow)
             stream == IF end THEN RecvEndStream(fresh) ELSE fresh
             ends == EndMark(end, "remote")
  <1>0. CoreTypeOK /\ i \in U31 \ {0} /\ i \in Int
    BY InputFacts, ConstantFacts DEF TypeOK, EndpointTypeOK, U31
  <1>1. i \notin DOMAIN streams
    <2>1. lastClientStreamId \in Int /\ DOMAIN ended \subseteq Int /\ i > lastClientStreamId
      BY IdsAreNumbers DEF RecvRequest, ValidNewId
    <2> QED
      BY <1>0, <2>1 DEF IdsRemembered, CoreTypeOK
  <1>2. OpenStream(i, stream, ends) /\ UNCHANGED remote
    BY DEF RecvRequest
  <1>3. /\ fresh.state = "Open" /\ fresh.sendWindow = remote.initialWindow
        /\ fresh \in StreamType
    BY <1>0, NewStreamWindow
  <1>4. /\ stream.sendWindow = remote.initialWindow
        /\ \/ stream.state = "Open" /\ ends = {}
           \/ stream.state = "HalfClosedRemote" /\ ends = {"remote"}
    <2> HIDE DEF fresh
    <2>1. /\ RecvEndStream(fresh).sendWindow = fresh.sendWindow
          /\ RecvEndStream(fresh).state = "HalfClosedRemote"
      BY <1>3, EndStreamFields, EndStreamStates
    <2> QED
      BY <1>3, <2>1 DEF EndMark
  <1> HIDE DEF fresh, stream, ends
  <1>5. /\ DOMAIN streams' = DOMAIN streams \cup {i}
        /\ \A j \in DOMAIN streams \ {i} : StateMove(j) /\ WindowMove(j)
        /\ streams'[i] = stream /\ ended'[i] = ends
        /\ Allowance(i)' = remote.initialWindow
    BY <1>0, <1>2, OpenStreamMoves
  <1>6. Requested(i)
    BY <1>4, <1>5 DEF Requested, WholeWindow
  <1> QED
    BY <1>1, <1>5, <1>6 DEF ServerMoves

\* Every other action makes the moves of its handler.
LEMMA NextMoves ==
    ASSUME TypeOK, [Next]_vars
    PROVE  \/ \E i \in PeerIds, end \in PeerEnds : RecvRequest(i, end)
           \/ Moves
  <1> USE InputFacts
  <1>0. /\ CoreTypeOK /\ DOMAIN streams \subseteq DOMAIN ended /\ 0 \notin DOMAIN ended
        /\ streams \in [DOMAIN streams -> StreamType]
    BY DEF TypeOK, EndpointTypeOK, CoreTypeOK
  <1>1. ASSUME NEW s \in PeerSettings, RecvSettings(s) PROVE Moves
    BY <1>0, <1>1, HandleSettingsMoves DEF RecvSettings
  <1>2. ASSUME \/ RecvPreface \/ RecvBadPreface \/ RecvPing \/ RecvGoAway
               \/ \E i \in PeerIds : RecvBadRequest(i)
               \/ SendGoAway \/ PollEvents \/ AdvanceSend \/ UNCHANGED vars
        PROVE  Moves
    <2>1. UNCHANGED <<streams, ended, remote, credit, sent>>
      BY <1>2 DEF RecvPreface, RecvBadPreface, RecvPing, RecvGoAway, RecvBadRequest,
                  SendGoAway, PollEvents, TakeEvents, AdvanceSend,
                  HandleGoAway, HandleError, core, history, vars
    <2> QED
      BY <1>0, <2>1, MovesFrame
  <1>3. ASSUME NEW i \in PeerIds \cup {0}, NEW n \in PeerIncrements, RecvWindowUpdate(i, n)
        PROVE  Moves
    <2>1. CASE CreditConnection(n)
      <3>1. /\ UNCHANGED <<streams, ended, remote, sent>>
            /\ \A j \in DOMAIN streams : credit'[j] = credit[j]
        BY <1>0, <2>1 DEF CreditConnection, CoreTypeOK
      <3> QED
        BY <1>0, <3>1, MovesFrame
    <2>2. CASE CreditStream(i, n)
      BY <1>0, <2>2, CreditStreamMoves
    <2>3. CASE RejectCredit(i, n)
      BY <1>0, <2>3, MovesFrame DEF RejectCredit, history
    <2> QED
      BY <1>3, <2>1, <2>2, <2>3 DEF RecvWindowUpdate
  <1>4. ASSUME NEW i \in PeerIds, NEW len \in PeerLens, NEW end \in PeerEnds,
               RecvData(i, len, end)
        PROVE  Moves
    BY <1>0, <1>4, HandleDataMoves DEF RecvData
  <1>5. ASSUME NEW i \in PeerIds, RecvRstStream(i) PROVE Moves
    BY <1>0, <1>5, HandleRstStreamMoves DEF RecvRstStream
  <1>6. ASSUME NEW i \in DOMAIN streams, NEW end \in AppEnds, SendHeaders(i, end) PROVE Moves
    <2> DEFINE stream == IF end THEN SendEndStream(streams[i]) ELSE streams[i]
               ends   == EndMark(end, "local")
    <2>1. /\ streams' = IF i \in DOMAIN streams
                        THEN [streams EXCEPT ![i] = stream] ELSE streams
          /\ Mark(i, ends) /\ UNCHANGED <<remote, sent, credit>>
      BY <1>0, <1>6 DEF SendHeaders
    <2>2. /\ stream.sendWindow = streams[i].sendWindow
          /\ \/ stream.state = streams[i].state /\ ends = {}
             \/ stream.state = SendEndStream(streams[i]).state /\ ends = {"local"}
      BY <1>0, EndStreamFields DEF EndMark
    <2> HIDE DEF stream, ends
    <2> QED
      BY <1>0, <2>1, <2>2, OneStateMove
  <1>7. ASSUME NEW i \in DOMAIN streams, NEW len \in AppLens, NEW end \in AppEnds,
               SendData(i, len, end)
        PROVE  Moves
    <2> DEFINE n == ToSend(i, len)
               isEnd == end /\ n = len
    <2>1. n \in U31 /\ isEnd \in BOOLEAN
      BY <1>0, ServerAvailable
    <2>2. SendOn(i, n, isEnd)
      BY <1>7 DEF SendData
    <2> HIDE DEF n, isEnd
    <2> QED
      BY <1>0, <2>1, <2>2, SendOnMoves
  <1>8. ASSUME NEW i \in DOMAIN ended, SendReset(i) PROVE Moves
    <2>1. /\ streams' = IF i \in DOMAIN streams
                        THEN [streams EXCEPT ![i] = ResetStream(streams[i])] ELSE streams
          /\ Mark(i, {"reset"}) /\ UNCHANGED <<remote, sent, credit>>
      BY <1>8 DEF SendReset
    <2>2. i \in DOMAIN streams => streams[i] \in StreamType
      BY <1>0
    <2> QED
      BY <1>0, <2>1, <2>2, EndStreamFields, OneStateMove
  <1>9. ASSUME NEW i \in DOMAIN streams, RemoveStream(i) PROVE Moves
    <2>1. /\ DOMAIN streams' = DOMAIN streams \ {i}
          /\ \A j \in DOMAIN streams' : streams'[j] = streams[j]
          /\ UNCHANGED <<remote, ended, sent, credit>>
      BY <1>9 DEF RemoveStream, history
    <2> QED
      BY <1>0, <2>1, StateMovesOnly DEF StateMove
  <1>10. ASSUME NEW i \in PeerIds, NEW end \in PeerEnds,
                RecvOldHeaders(i, end) \/ RecvBadFrame(i, end)
         PROVE  Moves
    BY <1>0, <1>10, HandleRefusedMoves DEF RecvOldHeaders, RecvBadFrame
  <1> QED
    BY <1>1, <1>2, <1>3, <1>4, <1>5, <1>6, <1>7, <1>8, <1>9, <1>10 DEF Next, Recv, Call

\* Every step of the server is made of its moves.
LEMMA NextServerMoves == TypeOK /\ IdsRemembered /\ [Next]_vars => ServerMoves
  <1> SUFFICES ASSUME TypeOK, IdsRemembered, [Next]_vars PROVE ServerMoves
    OBVIOUS
  <1>1. CASE \E i \in PeerIds, end \in PeerEnds : RecvRequest(i, end)
    BY <1>1, RecvRequestMoves, InputFacts
  <1>2. CASE Moves
    BY <1>2, AnyEnd
  <1> QED
    BY <1>1, <1>2, NextMoves

\* A stream's state claims no end that did not cross the wire, and a reset is
\* final, in every interleaving of frames and calls of the server.
THEOREM StreamStateJustifiedHolds == Spec => []StreamStateJustified
  <1>1. Init => StreamStateJustified
    BY DEF Init, EndpointInit, StreamStateJustified
  <1>2. TypeOK /\ IdsRemembered /\ StreamStateJustified /\ [Next]_vars => StreamStateJustified'
    BY NextServerMoves, AnyEnd, MovesJustified DEF TypeOK, EndpointTypeOK
  <1> QED
    BY <1>1, <1>2, TypeCorrect, IdsRememberedHolds, PTL DEF Spec

\* A stream the client has ended, with DATA or the HEADERS of its request, never
\* counts as receiving at the server again.
THEOREM AcceptedEndRecordedHolds == Spec => []AcceptedEndRecorded
  <1>1. Init => AcceptedEndRecorded
    BY DEF Init, EndpointInit, AcceptedEndRecorded
  <1>2. TypeOK /\ IdsRemembered /\ AcceptedEndRecorded /\ [Next]_vars => AcceptedEndRecorded'
    BY NextServerMoves, AnyEnd, MovesPeerEnd DEF TypeOK, EndpointTypeOK
  <1> QED
    BY <1>1, <1>2, TypeCorrect, IdsRememberedHolds, PTL DEF Spec

\* A stream on which the server sent END_STREAM, with HEADERS or DATA, never
\* counts as open for sending again.
THEOREM EndStreamRecordedHolds == Spec => []EndStreamRecorded
  <1>1. Init => EndStreamRecorded
    BY DEF Init, EndpointInit, EndStreamRecorded
  <1>2. TypeOK /\ IdsRemembered /\ EndStreamRecorded /\ [Next]_vars => EndStreamRecorded'
    BY NextServerMoves, MovesOwnEnd DEF TypeOK, EndpointTypeOK
  <1> QED
    BY <1>1, <1>2, TypeCorrect, IdsRememberedHolds, PTL DEF Spec

\* The send window of every stream of the server stays congruent, modulo 2^32,
\* to what the client allowed less what was sent.
THEOREM StreamLedgerHolds == Spec => []StreamLedger
  <1>1. Init => StreamLedger
    BY DEF Init, EndpointInit, StreamLedger
  <1>2. TypeOK /\ TypeOK' /\ IdsRemembered /\ StreamLedger /\ [Next]_vars => StreamLedger'
    BY NextServerMoves, AnyEnd, MovesLedger DEF TypeOK, EndpointTypeOK
  <1> QED
    BY <1>1, <1>2, TypeCorrect, IdsRememberedHolds, PTL DEF Spec

\* No frame and no call takes a stream back to an earlier state: a request never
\* replaces a stream, so no hypothesis on the ids is needed at the server.
THEOREM StreamForwardOnlyHolds == Spec => StreamForwardOnly
  <1> DEFINE Forward == \A i \in DOMAIN streams \cap DOMAIN streams' :
                           LET old == streams[i].state
                               new == streams'[i].state
                           IN new # old => Rank(new) > Rank(old)
  <1>1. TypeOK /\ IdsRemembered /\ [Next]_vars => [Forward]_streams
    <2> SUFFICES ASSUME TypeOK, IdsRemembered, [Next]_vars PROVE Forward
      OBVIOUS
    <2>0. CoreTypeOK
      BY DEF TypeOK, EndpointTypeOK
    <2>1. \A i \in DOMAIN streams \cap DOMAIN streams' : StateMove(i)
      BY NextServerMoves DEF ServerMoves
    <2> QED
      BY <2>0, <2>1, MovesForward
  <1> QED
    BY <1>1, TypeCorrect, IdsRememberedHolds, PTL DEF Spec, StreamForwardOnly
-------------------------------------------------------------------------------
(***************************************************************************)
(* The state of the connection.  The preface sets it too; it comes once,   *)
(* before any SETTINGS.                                                    *)
(***************************************************************************)
SettingsAfterPreface == gotSettings => preface = "Got"

\* SETTINGS are handled behind the preface, and the preface is not taken back.
THEOREM SettingsAfterPrefaceHolds == Spec => []SettingsAfterPreface
  <1>1. Init => SettingsAfterPreface
    BY DEF Init, EndpointInit, SettingsAfterPreface
  <1>2. SettingsAfterPreface /\ [Next]_vars => SettingsAfterPreface'
    <2> SUFFICES ASSUME SettingsAfterPreface, [Next]_vars PROVE SettingsAfterPreface'
      OBVIOUS
    <2>1. CASE \E s \in PeerSettings : RecvSettings(s)
      BY <2>1 DEF RecvSettings, CanReceive, SettingsAfterPreface
    <2>2. CASE RecvPreface
      BY <2>2 DEF RecvPreface, SettingsAfterPreface
    <2>3. CASE RecvBadPreface
      BY <2>3 DEF RecvBadPreface, HandleError, SettingsAfterPreface
    <2>4. CASE UNCHANGED <<gotSettings, preface>>
      BY <2>4 DEF SettingsAfterPreface
    <2>5. Recv => \/ RecvPreface \/ RecvBadPreface \/ \E s \in PeerSettings : RecvSettings(s)
                  \/ UNCHANGED <<gotSettings, preface>>
      BY DEF Recv, CanReceive, RecvPing, RecvGoAway, HandleGoAway, RecvWindowUpdate,
             CreditConnection, CreditStream, RejectCredit, RecvData, HandleData, RecvRequest,
             RecvBadRequest, RecvOldHeaders, RecvRstStream, HandleRstStream, RecvBadFrame,
             HandleError, HandleRefused, core
    <2>6. Call => UNCHANGED <<gotSettings, preface>>
      BY DEF Call, SendHeaders, SendData, SendOn, SendGoAway, SendReset, RemoveStream,
             PollEvents, TakeEvents, AdvanceSend, core, own
    <2> QED
      BY <2>1, <2>2, <2>3, <2>4, <2>5, <2>6 DEF Next, vars, core
  <1> QED
    BY <1>1, <1>2, PTL DEF Spec

\* Once the server handled SETTINGS, only GOAWAY, received or sent, changes the
\* state while it drains.
THEOREM DrainingIsFinalHolds == Spec => DrainingIsFinal
  <1> DEFINE Stays == state = "Draining" /\ gotSettings => state' = "Draining"
  <1>1. SettingsAfterPreface /\ [Next]_vars => [Stays]_<<state, gotSettings>>
    <2> SUFFICES ASSUME SettingsAfterPreface, [Next]_vars PROVE Stays
      OBVIOUS
    <2>1. CASE RecvGoAway \/ SendGoAway \/ \E s \in PeerSettings : RecvSettings(s)
      BY <2>1 DEF RecvGoAway, HandleGoAway, SendGoAway, RecvSettings, HandleSettings
    <2>2. CASE RecvPreface
      BY <2>2 DEF RecvPreface, SettingsAfterPreface
    <2>3. CASE UNCHANGED state
      BY <2>3
    <2>4. Recv => \/ RecvGoAway \/ RecvPreface \/ \E s \in PeerSettings : RecvSettings(s)
                  \/ UNCHANGED state
      BY DEF Recv, RecvBadPreface, RecvPing, RecvWindowUpdate, CreditConnection, CreditStream,
             RejectCredit, RecvData, HandleData, RecvRequest, RecvBadRequest, RecvOldHeaders,
             RecvRstStream, HandleRstStream, RecvBadFrame, HandleError, HandleRefused, core
    <2>5. Call => SendGoAway \/ UNCHANGED state
      BY DEF Call, SendHeaders, SendData, SendOn, SendReset, RemoveStream, PollEvents,
             TakeEvents, AdvanceSend, core
    <2> QED
      BY <2>1, <2>2, <2>3, <2>4, <2>5 DEF Next, vars, core
  <1> QED
    BY <1>1, SettingsAfterPrefaceHolds, PTL DEF Spec, DrainingIsFinal
===============================================================================
