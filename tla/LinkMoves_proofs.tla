--------------------------- MODULE LinkMoves_proofs ---------------------------
(***************************************************************************)
(* Proofs about a client and a server joined: the invariant, and what a    *)
(* step does to the two ends.                                              *)
(*                                                                         *)
(* Each end, seen alone, is a Connection or a ServerConnection whose peer  *)
(* sends what its decoder lets through, so that what is proved of them     *)
(* for every peer holds here as well.  What the other end adds is that     *)
(* the two accounts of the same bytes agree, which is the rest: every step *)
(* is one of twelve ways to move bytes and credit between the accounts,    *)
(* the windows and the two byte streams (NextMoves).                       *)
(***************************************************************************)
EXTENDS Link, Induction, SequenceTheorems

\* The numbers of 31 bits.
U31 == 0 .. I32Max

\* The peer of an end may send frames of any of these types.
AnyFrame == {"SETTINGS", "PING", "GOAWAY", "WINDOW_UPDATE", "DATA", "HEADERS", "RST_STREAM"}

\* The client, and below the server, with any peer.
C == INSTANCE Connection_proofs WITH
    state <- cState, gotSettings <- cGotSettings, streams <- cStreams, flow <- cFlow,
    remote <- cRemote, writeBuf <- cWriteBuf, events <- cEvents, sent <- cSent,
    credit <- cCredit, rcvd <- cRcvd, granted <- cGranted, delivered <- cDelivered,
    ended <- cEnded, transport <- cTransport, nextStreamId <- cNextStreamId, sock <- cSock,
    PeerFrames <- AnyFrame, PeerSettings <- {LocalSettings}, PeerLens <- 0 .. DefaultMaxFrame,
    PeerIncrements <- U31 \ {0}, PeerIds <- U31 \ {0}, PeerEnds <- BOOLEAN,
    AppLens <- U31, AppEnds <- BOOLEAN,
    InitTransport <- "Ready", WriteLimit <- MaxTraffic, Failures <- {},
    MaxRequests <- Len(Requests)

S == INSTANCE ServerConnection_proofs WITH
    state <- sState, gotSettings <- sGotSettings, streams <- sStreams, flow <- sFlow,
    remote <- sRemote, writeBuf <- sWriteBuf, events <- sEvents, sent <- sSent,
    credit <- sCredit, rcvd <- sRcvd, granted <- sGranted, delivered <- sDelivered,
    ended <- sEnded, preface <- sPreface, lastClientStreamId <- sLastClientStreamId,
    announced <- sAnnounced,
    PeerFrames <- AnyFrame, PeerSettings <- {LocalSettings}, PeerLens <- 0 .. DefaultMaxFrame,
    PeerIncrements <- U31 \ {0}, PeerIds <- U31 \ {0}, PeerEnds <- BOOLEAN,
    AppLens <- U31, AppEnds <- BOOLEAN, AppCalls <- {"HEADERS", "GOAWAY", "RESET"}

\* Both ends refill their windows with what they sent as well as with what they
\* received, so windows grow with the traffic.  While the traffic of the whole
\* connection stays below this bound they fit their type.
TrafficFits == DefaultWindow + MaxTraffic <= I32Max

-------------------------------------------------------------------------------
(***************************************************************************)
(* The invariant                                                           *)
(***************************************************************************)
FrameType == C!FrameType

\* The bytes of DATA under way in a byte stream, and the credit for the connection.
DataIn(frame)    == IF frame.type = "DATA" THEN frame.n ELSE 0
DataOn(frame, i) == IF frame.type = "DATA" /\ frame.id = i THEN frame.n ELSE 0
CreditIn(frame)  == IF frame.type = "WINDOW_UPDATE" THEN frame.n ELSE 0
Data(stream)     == Sum([k \in DOMAIN stream |-> DataIn(stream[k])])
Credits(stream)  == Sum([k \in DOMAIN stream |-> CreditIn(stream[k])])

\* What holds of each end whatever its peer does, and what it has sent and granted.
ClientAlone ==
    /\ C!TypeOK /\ C!Ledger /\ C!IdsBelowNext
    /\ cWriteBuf = <<>> /\ cTransport = "Ready"
    /\ cRemote = LocalSettings
    /\ cSent[0] + cRcvd <= MaxTraffic
    /\ cGranted <= cSent[0] + cRcvd

ServerAlone ==
    /\ S!TypeOK /\ S!Ledger /\ S!IdsRemembered
    /\ sRemote = LocalSettings
    /\ sSent[0] + sRcvd <= MaxTraffic
    /\ sGranted <= sSent[0] + sRcvd

\* Frames that the other end's decoder lets through.
Sound(frame) ==
    /\ frame.type = "DATA" => frame.n <= DefaultMaxFrame
    /\ frame.type = "WINDOW_UPDATE" => frame.id = 0 /\ frame.n \in U31 \ {0}
    /\ frame.type \in {"HEADERS", "DATA", "RST_STREAM"} => frame.id # 0
AllSound(buf) == \A k \in DOMAIN buf : Sound(buf[k])
FramesSound == AllSound(cSock) /\ AllSound(sWriteBuf)

\* What one end has sent the other has received, but for what is under way; the
\* same of what one has granted and the other been credited.
AccountsAgree ==
    /\ cSent[0] = sRcvd + Data(cSock) /\ sSent[0] = cRcvd + Data(sWriteBuf)
    /\ cGranted = sCredit[0] + Credits(cSock) /\ sGranted = cCredit[0] + Credits(sWriteBuf)

\* DATA brings the counter of the end it arrives at below the threshold: unless
\* some is under way, one of the ends withholds little.
OneWithholdsLittle ==
    \/ cFlow.consumed < DefaultWindow \div 2
    \/ sFlow.consumed < DefaultWindow \div 2
    \/ Data(cSock) > 0
    \/ Data(sWriteBuf) > 0

\* The client's streams are those of the server and those that HEADERS under way
\* are about to open there; DATA never overtakes them.
OpensStream(i, from) == from.type = "HEADERS" /\ from.id = i
Opening(buf, opened, known) ==
    /\ known \subseteq opened
    /\ \A i \in opened : i \in known \/ \E k \in DOMAIN buf : OpensStream(i, buf[k])
    /\ \A k \in DOMAIN buf : buf[k].type \in {"HEADERS", "DATA"} => buf[k].id \in opened
    /\ \A k \in DOMAIN buf :
          buf[k].type = "DATA" => \/ buf[k].id \in known
                                  \/ \E j \in 1 .. k - 1 : OpensStream(buf[k].id, buf[j])
Answering(buf, known) == \A k \in DOMAIN buf : buf[k].type = "DATA" => buf[k].id \in known
StreamsKnown ==
    /\ Opening(cSock, DOMAIN cStreams, DOMAIN sStreams)
    /\ Answering(sWriteBuf, DOMAIN sStreams)

\* The windows of a stream at its two ends, and of one the server has not seen.
StreamWindows ==
    \A i \in DOMAIN cStreams :
        /\ cStreams[i].sendWindow >= 0
        /\ i \in DOMAIN sStreams =>
              /\ cStreams[i].sendWindow = sStreams[i].recvWindow - InFlight(cSock, "DATA", i)
              /\ sStreams[i].sendWindow >= 0
              /\ sStreams[i].sendWindow = cStreams[i].recvWindow - InFlight(sWriteBuf, "DATA", i)
        /\ i \notin DOMAIN sStreams =>
              /\ cStreams[i].sendWindow = DefaultWindow - InFlight(cSock, "DATA", i)
              /\ cStreams[i].recvWindow = DefaultWindow

\* An application never has a negative number of bytes left to send.
BodiesKept ==
    /\ said \in [Up \cup Down -> Seq({"headers", "byte", "end", "reset"})]
    /\ \A d \in Up \cup Down : ~Finished(said[d]) => Len(said[d]) <= Body(d) + 1
    /\ \A i \in Ids : i >= cNextStreamId => said[<<"up", i>>] = <<>>

LinkInv ==
    /\ ClientAlone /\ ServerAlone /\ FramesSound /\ AccountsAgree /\ OneWithholdsLittle
    /\ StreamsKnown /\ StreamWindows /\ BodiesKept
-------------------------------------------------------------------------------
(***************************************************************************)
(* The ends are a Connection and a ServerConnection                        *)
(***************************************************************************)

\* The constants are numbers.
LEMMA LinkConstants ==
    /\ I32Max \in Nat /\ I32Max >= 1
    /\ DefaultWindow \in Nat /\ DefaultWindow >= 2 /\ DefaultWindow <= I32Max
    /\ DefaultMaxFrame \in Nat /\ DefaultMaxFrame >= 1 /\ DefaultMaxFrame <= I32Max
    /\ MaxTraffic \in Nat
    /\ Len(Requests) \in Nat /\ 2 * Len(Requests) <= I32Max
  <1>1. PICK h \in 0 .. I32Max : I32Max = 2 * h + 1
    BY LinkAssumption
  <1>2. h \in Int /\ 0 <= h
    OBVIOUS
  <1>3. I32Max \in Nat /\ I32Max >= 1
    BY <1>1, <1>2
  <1> QED
    BY <1>3, LinkAssumption

\* What the two ends announce is a payload of SETTINGS.
LEMMA LocalSettingsSound ==
    /\ C!IsSettings(LocalSettings) /\ S!IsSettings(LocalSettings)
    /\ DOMAIN LocalSettings = C!SettingNames /\ DOMAIN LocalSettings = S!SettingNames
    /\ LocalSettings["initialWindow"] = DefaultWindow
    /\ LocalSettings["maxFrame"] = DefaultMaxFrame
    /\ LocalSettings["maxConcurrent"] = DefaultMaxConcurrent
  BY LinkConstants, LinkAssumption
     DEF LocalSettings, C!IsSettings, S!IsSettings, C!SettingNames, S!SettingNames, C!U31, S!U31

\* What those modules assume of their constants.
ClientAssumptions ==
    /\ C!MachineIntAssumption /\ C!FlowControlAssumption
    /\ C!EndpointAssumption /\ C!ConnectionAssumption
ServerAssumptions ==
    /\ S!MachineIntAssumption /\ S!FlowControlAssumption
    /\ S!EndpointAssumption /\ S!ServerConnectionAssumption

\* The joined ends meet what the modules of the ends assume.
LEMMA Assumptions == ClientAssumptions /\ ServerAssumptions /\ C!IdsLast
  <1>1. C!MachineIntAssumption /\ S!MachineIntAssumption
    BY LinkAssumption DEF C!MachineIntAssumption, S!MachineIntAssumption
  <1>2. C!FlowControlAssumption /\ S!FlowControlAssumption
    BY LinkAssumption DEF C!FlowControlAssumption, S!FlowControlAssumption
  <1>3. U31 \ {0} \subseteq C!U31 \ {0} /\ U31 \subseteq C!U31 /\ 0 .. DefaultMaxFrame \subseteq U31
        /\ U31 \ {0} \subseteq S!U31 \ {0} /\ U31 \subseteq S!U31
    BY LinkConstants DEF U31, C!U31, S!U31
  <1>4. C!EndpointAssumption
    BY <1>3, LinkConstants, LinkAssumption, LocalSettingsSound DEF C!EndpointAssumption
  <1>5. S!EndpointAssumption
    BY <1>3, LinkConstants, LinkAssumption, LocalSettingsSound DEF S!EndpointAssumption
  <1>6. C!ConnectionAssumption /\ S!ServerConnectionAssumption /\ C!IdsLast
    BY LinkConstants, LinkAssumption
       DEF C!ConnectionAssumption, S!ServerConnectionAssumption, C!IdsLast
  <1> QED
    BY <1>1, <1>2, <1>4, <1>5, <1>6 DEF ClientAssumptions, ServerAssumptions

\* The actions of the client are those of a Connection with any peer.
LEMMA ClientActions ==
    ASSUME NEW i, NEW n, NEW end
    PROVE  /\ Client!OnTransportReady => C!OnTransportReady
           /\ Client!StartRequest(end) => C!StartRequest(end)
           /\ Client!SendData(i, n, end) => C!SendData(i, n, end)
           /\ Client!PollEvents => C!PollEvents
           /\ Client!RecvSettings(LocalSettings) => C!RecvSettings(LocalSettings)
           /\ Client!RecvGoAway => C!RecvGoAway
           /\ Client!RecvWindowUpdate(i, n) => C!RecvWindowUpdate(i, n)
           /\ Client!RecvHeaders(i, end) => C!RecvHeaders(i, end)
           /\ Client!RecvData(i, n, end) => C!RecvData(i, n, end)
           /\ Client!RecvRstStream(i) => C!RecvRstStream(i)
           /\ Client!AdvanceSend => C!AdvanceSend
  <1> USE DEF Client!AsI32, C!AsI32, Client!AsUSize, C!AsUSize, Client!WrapI32, C!WrapI32,
             Client!WrapU32, C!WrapU32, Client!U32Mod, C!U32Mod, Client!U32Max, C!U32Max,
             Client!I32Min, C!I32Min, Client!Lesser, C!Lesser, Client!Consume, C!Consume,
             Client!ShouldUpdate, C!ShouldUpdate, Client!ResetPending, C!ResetPending,
             Client!CanIncrease, C!CanIncrease, Client!IncreaseWindow, C!IncreaseWindow,
             Client!NewStream, C!NewStream, Client!SendBytes, C!SendBytes,
             Client!SendEndStream, C!SendEndStream, Client!RecvBytes, C!RecvBytes,
             Client!RecvEndStream, C!RecvEndStream,
             Client!IncreaseSendWindow, C!IncreaseSendWindow,
             Client!AdjustSendWindow, C!AdjustSendWindow, Client!ResetStream, C!ResetStream,
             Client!core, C!core, Client!history, C!history, Client!Frame, C!Frame,
             Client!EventRoom, C!EventRoom, Client!Push, C!Push, Client!Insert, C!Insert,
             Client!Mark, C!Mark, Client!EndMark, C!EndMark, Client!Setting, C!Setting,
             Client!ApplySettings, C!ApplySettings, Client!HandleSettings, C!HandleSettings,
             Client!HandleGoAway, C!HandleGoAway, Client!CreditConnection, C!CreditConnection,
             Client!CreditStream, C!CreditStream, Client!RejectCredit, C!RejectCredit,
             Client!AfterData, C!AfterData, Client!UpdateDue, C!UpdateDue,
             Client!Increment, C!Increment, Client!HandleData, C!HandleData,
             Client!HandleRstStream, C!HandleRstStream, Client!OpenStream, C!OpenStream,
             Client!Available, C!Available, Client!SendOn, C!SendOn,
             Client!TakeEvents, C!TakeEvents, Client!CanReceive, C!CanReceive,
             Client!Emit, C!Emit, Client!Room, C!Room, Client!DataBytes, C!DataBytes,
             Client!Accepted, C!Accepted, Client!Flush, C!Flush, Client!output, C!output,
             Client!NewStreamId, C!NewStreamId, Client!ToSend, C!ToSend,
             Client!OnTransportReady, C!OnTransportReady, Client!RecvSettings, C!RecvSettings,
             Client!RecvGoAway, C!RecvGoAway, Client!RecvWindowUpdate, C!RecvWindowUpdate,
             Client!RecvHeaders, C!RecvHeaders, Client!RecvData, C!RecvData,
             Client!RecvRstStream, C!RecvRstStream, Client!StartRequest, C!StartRequest,
             Client!SendData, C!SendData, Client!PollEvents, C!PollEvents,
             Client!AdvanceSend, C!AdvanceSend
  <1>1. ASSUME Client!OnTransportReady PROVE C!OnTransportReady
    BY <1>1
  <1>2. ASSUME Client!StartRequest(end) PROVE C!StartRequest(end)
    BY <1>2
  <1>3. ASSUME Client!SendData(i, n, end) PROVE C!SendData(i, n, end)
    BY <1>3
  <1>4. ASSUME Client!PollEvents PROVE C!PollEvents
    BY <1>4
  <1>5. ASSUME Client!RecvSettings(LocalSettings) PROVE C!RecvSettings(LocalSettings)
    BY <1>5
  <1>6. ASSUME Client!RecvGoAway PROVE C!RecvGoAway
    BY <1>6
  <1>7. ASSUME Client!RecvWindowUpdate(i, n) PROVE C!RecvWindowUpdate(i, n)
    BY <1>7
  <1>8. ASSUME Client!RecvHeaders(i, end) PROVE C!RecvHeaders(i, end)
    BY <1>8
  <1>9. ASSUME Client!RecvData(i, n, end) PROVE C!RecvData(i, n, end)
    BY <1>9
  <1>10. ASSUME Client!RecvRstStream(i) PROVE C!RecvRstStream(i)
    BY <1>10
  <1>11. ASSUME Client!AdvanceSend PROVE C!AdvanceSend
    BY <1>11
  <1> QED
    BY <1>1, <1>2, <1>3, <1>4, <1>5, <1>6, <1>7, <1>8, <1>9, <1>10, <1>11

\* The actions of the server are those of a ServerConnection with any peer.
LEMMA ServerActions ==
    ASSUME NEW i, NEW n, NEW end
    PROVE  /\ Server!RecvPreface => S!RecvPreface
           /\ Server!RecvSettings(LocalSettings) => S!RecvSettings(LocalSettings)
           /\ Server!RecvWindowUpdate(i, n) => S!RecvWindowUpdate(i, n)
           /\ Server!RecvRequest(i, end) => S!RecvRequest(i, end)
           /\ Server!RecvData(i, n, end) => S!RecvData(i, n, end)
           /\ Server!SendHeaders(i, end) => S!SendHeaders(i, end)
           /\ Server!SendData(i, n, end) => S!SendData(i, n, end)
           /\ Server!SendGoAway => S!SendGoAway
           /\ Server!SendReset(i) => S!SendReset(i)
           /\ Server!PollEvents => S!PollEvents
           /\ Server!AdvanceSend => S!AdvanceSend
  <1> USE DEF Server!AsI32, S!AsI32, Server!AsUSize, S!AsUSize, Server!WrapI32, S!WrapI32,
             Server!WrapU32, S!WrapU32, Server!U32Mod, S!U32Mod, Server!U32Max, S!U32Max,
             Server!I32Min, S!I32Min, Server!Lesser, S!Lesser, Server!Consume, S!Consume,
             Server!ShouldUpdate, S!ShouldUpdate, Server!ResetPending, S!ResetPending,
             Server!CanIncrease, S!CanIncrease, Server!IncreaseWindow, S!IncreaseWindow,
             Server!NewStream, S!NewStream, Server!SendBytes, S!SendBytes,
             Server!SendEndStream, S!SendEndStream, Server!RecvBytes, S!RecvBytes,
             Server!RecvEndStream, S!RecvEndStream,
             Server!IncreaseSendWindow, S!IncreaseSendWindow,
             Server!AdjustSendWindow, S!AdjustSendWindow, Server!ResetStream, S!ResetStream,
             Server!core, S!core, Server!history, S!history, Server!Frame, S!Frame,
             Server!EventRoom, S!EventRoom, Server!Push, S!Push, Server!Insert, S!Insert,
             Server!Mark, S!Mark, Server!EndMark, S!EndMark, Server!Setting, S!Setting,
             Server!ApplySettings, S!ApplySettings, Server!HandleSettings, S!HandleSettings,
             Server!HandleGoAway, S!HandleGoAway, Server!CreditConnection, S!CreditConnection,
             Server!CreditStream, S!CreditStream, Server!RejectCredit, S!RejectCredit,
             Server!AfterData, S!AfterData, Server!UpdateDue, S!UpdateDue,
             Server!Increment, S!Increment, Server!HandleData, S!HandleData,
             Server!HandleRstStream, S!HandleRstStream, Server!OpenStream, S!OpenStream,
             Server!Available, S!Available, Server!SendOn, S!SendOn,
             Server!TakeEvents, S!TakeEvents, Server!CanReceive, S!CanReceive,
             Server!Emit, S!Emit, Server!own, S!own, Server!ToSend, S!ToSend,
             Server!ValidNewId, S!ValidNewId, Server!RecvPreface, S!RecvPreface,
             Server!RecvSettings, S!RecvSettings, Server!RecvWindowUpdate, S!RecvWindowUpdate,
             Server!RecvRequest, S!RecvRequest, Server!RecvData, S!RecvData,
             Server!SendHeaders, S!SendHeaders, Server!SendData, S!SendData,
             Server!SendGoAway, S!SendGoAway, Server!SendReset, S!SendReset,
             Server!PollEvents, S!PollEvents, Server!AdvanceSend, S!AdvanceSend
  <1>1. ASSUME Server!RecvPreface PROVE S!RecvPreface
    BY <1>1
  <1>2. ASSUME Server!RecvSettings(LocalSettings) PROVE S!RecvSettings(LocalSettings)
    BY <1>2
  <1>3. ASSUME Server!RecvWindowUpdate(i, n) PROVE S!RecvWindowUpdate(i, n)
    BY <1>3
  <1>4. ASSUME Server!RecvRequest(i, end) PROVE S!RecvRequest(i, end)
    BY <1>4
  <1>5. ASSUME Server!RecvData(i, n, end) PROVE S!RecvData(i, n, end)
    BY <1>5
  <1>6. ASSUME Server!SendHeaders(i, end) PROVE S!SendHeaders(i, end)
    BY <1>6
  <1>7. ASSUME Server!SendData(i, n, end) PROVE S!SendData(i, n, end)
    BY <1>7
  <1>8. ASSUME Server!SendGoAway PROVE S!SendGoAway
    BY <1>8
  <1>9. ASSUME Server!SendReset(i) PROVE S!SendReset(i)
    BY <1>9
  <1>10. ASSUME Server!PollEvents PROVE S!PollEvents
    BY <1>10
  <1>11. ASSUME Server!AdvanceSend PROVE S!AdvanceSend
    BY <1>11
  <1> QED
    BY <1>1, <1>2, <1>3, <1>4, <1>5, <1>6, <1>7, <1>8, <1>9, <1>10, <1>11
-------------------------------------------------------------------------------
(***************************************************************************)
(* What is under way, counted                                              *)
(***************************************************************************)

\* The recursion that Sum is defined by has a solution, and Sum is its last value.
LEMMA SumSteps ==
    ASSUME NEW n \in Nat, NEW q \in [1 .. n -> Nat]
    PROVE  \E g : /\ g \in [0 .. n -> Nat] /\ g[0] = 0
                  /\ \A k \in 1 .. n : g[k] = g[k - 1] + q[k]
                  /\ Sum(q) = g[n]
  <1>0. q \in Seq(Nat) /\ Len(q) = n
    BY LenProperties, SeqDef
  <1> DEFINE Rec(f, m) == f = [k \in 0 .. m |-> IF k = 0 THEN 0 ELSE f[k - 1] + q[k]]
             P == {m \in 0 .. n : \E f : Rec(f, m)}
  <1>1. 0 \in P
    <2>1. Rec([k \in 0 .. 0 |-> 0], 0)
      OBVIOUS
    <2>2. 0 \in 0 .. n
      OBVIOUS
    <2> QED
      BY <2>1, <2>2
  <1>2. ASSUME NEW m \in 1 .. n, m - 1 \in P PROVE m \in P
    <2>1. PICK f : Rec(f, m - 1)
      BY <1>2
    <2> DEFINE g == [k \in 0 .. m |-> IF k = m THEN f[m - 1] + q[m] ELSE f[k]]
    <2>2. \A k \in 0 .. m : g[k] = IF k = 0 THEN 0 ELSE g[k - 1] + q[k]
      <3>1. ASSUME NEW k \in 0 .. m, k # m
            PROVE  g[k] = IF k = 0 THEN 0 ELSE g[k - 1] + q[k]
        <4>1. k \in 0 .. m - 1 /\ g[k] = f[k]
          BY <3>1
        <4>2. f[k] = IF k = 0 THEN 0 ELSE f[k - 1] + q[k]
          BY <2>1, <4>1
        <4>3. k # 0 => k - 1 \in 0 .. m /\ k - 1 # m
          BY <4>1
        <4> QED
          BY <4>1, <4>2, <4>3
      <3>2. g[m] = IF m = 0 THEN 0 ELSE g[m - 1] + q[m]
        OBVIOUS
      <3> QED
        BY <3>1, <3>2
    <2>3. Rec(g, m)
      <3>1. g = [k \in 0 .. m |-> g[k]]
        OBVIOUS
      <3> HIDE DEF g
      <3> QED
        BY <2>2, <3>1
    <2> HIDE DEF Rec
    <2> QED
      BY <2>3
  <1>3. n \in P
    <2> HIDE DEF P
    <2>1. \A k \in 0 .. n : k \in P
      BY <1>1, <1>2, UpTo
    <2> QED
      BY <2>1
  <1>4. PICK g : g = CHOOSE f : Rec(f, n)
    OBVIOUS
  <1>5. Rec(g, n)
    <2>1. \E f : Rec(f, n)
      BY <1>3
    <2> HIDE DEF Rec
    <2> QED
      BY <1>4, <2>1
  <1>6. Sum(q) = g[n]
    BY <1>0, <1>4 DEF Sum
  <1>7. g[0] = 0 /\ \A k \in 1 .. n : g[k] = g[k - 1] + q[k]
    BY <1>5
  <1>8. \A k \in 0 .. n : g[k] \in Nat
    <2> DEFINE N == {k \in 0 .. n : g[k] \in Nat}
    <2>1. 0 \in N
      BY <1>7
    <2>2. ASSUME NEW k \in 1 .. n, k - 1 \in N PROVE k \in N
      BY <1>7, <2>2
    <2>3. \A k \in 0 .. n : k \in N
      <3> HIDE DEF N
      <3> QED
        BY <2>1, <2>2, UpTo
    <2> QED
      BY <2>3
  <1>9. g \in [0 .. n -> Nat]
    BY <1>5, <1>8
  <1> QED
    BY <1>6, <1>7, <1>9

\* Two such recursions that agree on the numbers agree on the sums.
LEMMA SameSums ==
    ASSUME NEW n \in Nat, NEW g \in [0 .. n -> Nat], NEW h \in [0 .. n -> Nat], NEW c \in Nat,
           h[0] = g[0] + c,
           \A k \in 1 .. n : h[k] - h[k - 1] = g[k] - g[k - 1]
    PROVE  h[n] = g[n] + c
  <1> DEFINE P == {k \in 0 .. n : h[k] = g[k] + c}
  <1>1. 0 \in P
    OBVIOUS
  <1>2. ASSUME NEW k \in 1 .. n, k - 1 \in P PROVE k \in P
    <2>1. k - 1 \in 0 .. n /\ k \in 0 .. n /\ h[k - 1] = g[k - 1] + c
      BY <1>2
    <2>2. g[k] \in Nat /\ h[k] \in Nat /\ g[k - 1] \in Nat /\ h[k - 1] \in Nat
      BY <2>1
    <2>3. h[k] - h[k - 1] = g[k] - g[k - 1]
      OBVIOUS
    <2>4. PICK a \in Nat, b \in Nat, x \in Nat, y \in Nat :
             a = h[k] /\ b = h[k - 1] /\ x = g[k] /\ y = g[k - 1]
      BY <2>2
    <2>5. a - b = x - y /\ b = y + c
      BY <2>1, <2>3, <2>4
    <2>6. a = x + c
      BY <2>5
    <2> QED
      BY <2>1, <2>4, <2>6
  <1>3. \A k \in 0 .. n : k \in P
    <2> HIDE DEF P
    <2> QED
      BY <1>1, <1>2, UpTo
  <1> QED
    BY <1>3

\* A sum is a number, and nothing sums to nothing.
LEMMA SumType ==
    ASSUME NEW q \in Seq(Nat)
    PROVE  Sum(q) \in Nat /\ (Len(q) = 0 => Sum(q) = 0)
  <1>1. PICK n \in Nat : n = Len(q) /\ q \in [1 .. n -> Nat]
    BY LenProperties
  <1>2. PICK g \in [0 .. n -> Nat] : /\ g[0] = 0 /\ Sum(q) = g[n]
                                     /\ \A k \in 1 .. n : g[k] = g[k - 1] + q[k]
    BY <1>1, SumSteps
  <1> QED
    BY <1>1, <1>2

\* A number added at the end is added to the sum.
LEMMA SumAppend ==
    ASSUME NEW n \in Nat, NEW m \in Nat, m = n + 1,
           NEW q \in [1 .. n -> Nat], NEW r \in [1 .. m -> Nat],
           \A k \in 1 .. n : r[k] = q[k]
    PROVE  Sum(r) = Sum(q) + r[m]
  <1>4. PICK g \in [0 .. n -> Nat] : /\ g[0] = 0 /\ Sum(q) = g[n]
                                     /\ \A k \in 1 .. n : g[k] = g[k - 1] + q[k]
    BY SumSteps
  <1>5. PICK h \in [0 .. m -> Nat] : /\ h[0] = 0 /\ Sum(r) = h[m]
                                     /\ \A k \in 1 .. m : h[k] = h[k - 1] + r[k]
    BY SumSteps
  <1>6. PICK l \in [0 .. n -> Nat] : \A k \in 0 .. n : l[k] = h[k]
    <2>1. [k \in 0 .. n |-> h[k]] \in [0 .. n -> Nat]
      OBVIOUS
    <2> QED
      BY <2>1
  <1>7. l[n] = g[n] + 0
    <2>1. l[0] = g[0] + 0
      BY <1>4, <1>5, <1>6
    <2>2. ASSUME NEW k \in 1 .. n PROVE l[k] - l[k - 1] = g[k] - g[k - 1]
      <3>1. k \in 0 .. n /\ k - 1 \in 0 .. n /\ k \in 1 .. m
        OBVIOUS
      <3>2. g[k] \in Nat /\ g[k - 1] \in Nat /\ l[k] \in Nat /\ l[k - 1] \in Nat /\ q[k] \in Nat
        BY <3>1
      <3>3. l[k] = l[k - 1] + q[k] /\ g[k] = g[k - 1] + q[k]
        BY <1>4, <1>5, <1>6, <3>1
      <3>4. PICK a \in Nat, b \in Nat, y1 \in Nat, y2 \in Nat, z \in Nat :
               /\ a = l[k] /\ b = l[k - 1] /\ y1 = g[k] /\ y2 = g[k - 1]
               /\ a = b + z /\ y1 = y2 + z
        BY <3>2, <3>3
      <3> QED
        BY <3>4
    <2>3. 0 \in Nat
      OBVIOUS
    <2> QED
      BY <2>1, <2>2, <2>3, SameSums
  <1>8. r[m] \in Nat /\ h[m] = h[n] + r[m] /\ h[n] = l[n] /\ g[n] \in Nat
    BY <1>5, <1>6
  <1> QED
    BY <1>4, <1>5, <1>7, <1>8

\* The first number taken away is taken from the sum.
LEMMA SumTail ==
    ASSUME NEW n \in Nat, NEW m \in Nat, m = n + 1,
           NEW q \in [1 .. m -> Nat], NEW r \in [1 .. n -> Nat],
           \A k \in 1 .. n : r[k] = q[k + 1]
    PROVE  Sum(q) = q[1] + Sum(r)
  <1>4. PICK g \in [0 .. n -> Nat] : /\ g[0] = 0 /\ Sum(r) = g[n]
                                     /\ \A k \in 1 .. n : g[k] = g[k - 1] + r[k]
    BY SumSteps
  <1>5. PICK h \in [0 .. m -> Nat] : /\ h[0] = 0 /\ Sum(q) = h[m]
                                     /\ \A k \in 1 .. m : h[k] = h[k - 1] + q[k]
    BY SumSteps
  <1>6. PICK l \in [0 .. n -> Nat] : \A k \in 0 .. n : l[k] = h[k + 1]
    <2>1. [k \in 0 .. n |-> h[k + 1]] \in [0 .. n -> Nat]
      OBVIOUS
    <2> QED
      BY <2>1
  <1>7. q[1] \in Nat /\ h[1] = q[1]
    <2>1. 1 \in 1 .. m /\ 1 - 1 = 0
      OBVIOUS
    <2> QED
      BY <1>5, <2>1
  <1>8. l[n] = g[n] + q[1]
    <2>1. l[0] = g[0] + q[1]
      BY <1>4, <1>6, <1>7
    <2>2. ASSUME NEW k \in 1 .. n PROVE l[k] - l[k - 1] = g[k] - g[k - 1]
      <3>1. k \in 0 .. n /\ k - 1 \in 0 .. n /\ k + 1 \in 1 .. m /\ (k + 1) - 1 = k
            /\ (k - 1) + 1 = k
        OBVIOUS
      <3>2. g[k] \in Nat /\ g[k - 1] \in Nat /\ l[k] \in Nat /\ l[k - 1] \in Nat /\ r[k] \in Nat
        BY <3>1
      <3>3. h[k + 1] = h[k] + q[k + 1]
        BY <1>5, <3>1
      <3>4. l[k] = l[k - 1] + r[k] /\ g[k] = g[k - 1] + r[k]
        BY <1>4, <1>6, <3>1, <3>3
      <3>5. PICK a \in Nat, b \in Nat, y1 \in Nat, y2 \in Nat, z \in Nat :
               /\ a = l[k] /\ b = l[k - 1] /\ y1 = g[k] /\ y2 = g[k - 1]
               /\ a = b + z /\ y1 = y2 + z
        BY <3>2, <3>4
      <3> QED
        BY <3>5
    <2> QED
      BY <1>7, <2>1, <2>2, SameSums
  <1>9. h[m] = l[n] /\ g[n] \in Nat
    BY <1>6
  <1> QED
    BY <1>4, <1>5, <1>7, <1>8, <1>9

\* The fields of a frame that are counted are numbers.
LEMMA CountedType ==
    ASSUME NEW f \in FrameType, NEW i
    PROVE  DataIn(f) \in Nat /\ CreditIn(f) \in Nat /\ DataOn(f, i) \in Nat
  BY DEF DataIn, CreditIn, DataOn, FrameType, C!FrameType

\* What is under way is a number of bytes, and none in an empty byte stream.
LEMMA UnderWayType ==
    ASSUME NEW buf \in Seq(FrameType), NEW i
    PROVE  /\ Data(buf) \in Nat /\ Credits(buf) \in Nat /\ InFlight(buf, "DATA", i) \in Nat
           /\ buf = <<>> => Data(buf) = 0 /\ Credits(buf) = 0 /\ InFlight(buf, "DATA", i) = 0
  <1>1. PICK n \in Nat : n = Len(buf) /\ buf \in [1 .. n -> FrameType]
    BY LenProperties
  <1>2. \A q \in [1 .. n -> Nat] : q \in Seq(Nat) /\ Len(q) = n
    BY LenProperties, SeqDef
  <1>3. PICK q1 \in [1 .. n -> Nat] : Data(buf) = Sum(q1)
    <2>1. [k \in DOMAIN buf |-> DataIn(buf[k])] \in [1 .. n -> Nat]
      BY <1>1, CountedType
    <2> QED
      BY <2>1 DEF Data
  <1>4. PICK q2 \in [1 .. n -> Nat] : Credits(buf) = Sum(q2)
    <2>1. [k \in DOMAIN buf |-> CreditIn(buf[k])] \in [1 .. n -> Nat]
      BY <1>1, CountedType
    <2> QED
      BY <2>1 DEF Credits
  <1>5. PICK q3 \in [1 .. n -> Nat] : InFlight(buf, "DATA", i) = Sum(q3)
    <2>1. [k \in DOMAIN buf |-> DataOn(buf[k], i)] \in [1 .. n -> Nat]
      BY <1>1, CountedType
    <2> QED
      BY <2>1 DEF InFlight, DataOn
  <1>6. buf = <<>> => n = 0
    BY <1>1
  <1> QED
    BY <1>2, <1>3, <1>4, <1>5, <1>6, SumType

\* A frame joins what is under way.
LEMMA FrameAdded ==
    ASSUME NEW buf \in Seq(FrameType), NEW f \in FrameType
    PROVE  /\ Append(buf, f) \in Seq(FrameType)
           /\ Data(Append(buf, f)) = Data(buf) + DataIn(f)
           /\ Credits(Append(buf, f)) = Credits(buf) + CreditIn(f)
           /\ \A i : InFlight(Append(buf, f), "DATA", i) = InFlight(buf, "DATA", i) + DataOn(f, i)
  <1>1. PICK n \in Nat, m \in Nat : /\ m = n + 1 /\ n = Len(buf) /\ m = Len(Append(buf, f))
                                   /\ buf \in [1 .. n -> FrameType]
    <2>1. /\ Len(buf) \in Nat /\ buf \in [1 .. Len(buf) -> FrameType]
          /\ Len(Append(buf, f)) = Len(buf) + 1
      BY LenProperties, AppendProperties
    <2>2. Len(buf) + 1 \in Nat
      BY <2>1
    <2> QED
      BY <2>1, <2>2
  <1>2. n \in Nat /\ m \in Nat /\ m = n + 1
    BY <1>1
  <1>3. PICK out : out = Append(buf, f)
    OBVIOUS
  <1>4. /\ out \in Seq(FrameType) /\ out \in [1 .. m -> FrameType] /\ out[m] = f
        /\ \A k \in 1 .. n : out[k] = buf[k]
    <2>1. out \in Seq(FrameType) /\ Len(out) = m /\ out[m] = f /\ \A k \in 1 .. n : out[k] = buf[k]
      BY <1>1, <1>3, AppendProperties
    <2> QED
      BY <2>1, LenProperties
  <1>5. DOMAIN buf = 1 .. n /\ DOMAIN out = 1 .. m /\ m \in 1 .. m /\ \A k \in 1 .. n : k \in 1 .. m
    BY <1>1, <1>4
  <1>6. Data(out) = Data(buf) + DataIn(f)
    <2> DEFINE q == [k \in DOMAIN buf |-> DataIn(buf[k])]
               r == [k \in DOMAIN out |-> DataIn(out[k])]
    <2>1. q \in [1 .. n -> Nat] /\ r \in [1 .. m -> Nat] /\ r[m] = DataIn(f)
          /\ \A k \in 1 .. n : r[k] = q[k]
      BY <1>1, <1>4, <1>5, CountedType
    <2>2. Data(out) = Sum(r) /\ Data(buf) = Sum(q)
      BY DEF Data
    <2> HIDE DEF q, r
    <2>3. Sum(r) = Sum(q) + r[m]
      BY <1>2, <2>1, SumAppend, Zenon
    <2> QED
      BY <2>1, <2>2, <2>3
  <1>7. Credits(out) = Credits(buf) + CreditIn(f)
    <2> DEFINE q == [k \in DOMAIN buf |-> CreditIn(buf[k])]
               r == [k \in DOMAIN out |-> CreditIn(out[k])]
    <2>1. q \in [1 .. n -> Nat] /\ r \in [1 .. m -> Nat] /\ r[m] = CreditIn(f)
          /\ \A k \in 1 .. n : r[k] = q[k]
      BY <1>1, <1>4, <1>5, CountedType
    <2>2. Credits(out) = Sum(r) /\ Credits(buf) = Sum(q)
      BY DEF Credits
    <2> HIDE DEF q, r
    <2>3. Sum(r) = Sum(q) + r[m]
      BY <1>2, <2>1, SumAppend, Zenon
    <2> QED
      BY <2>1, <2>2, <2>3
  <1>8. ASSUME NEW i
        PROVE  InFlight(out, "DATA", i) = InFlight(buf, "DATA", i) + DataOn(f, i)
    <2> DEFINE q == [k \in DOMAIN buf |-> DataOn(buf[k], i)]
               r == [k \in DOMAIN out |-> DataOn(out[k], i)]
    <2>1. q \in [1 .. n -> Nat] /\ r \in [1 .. m -> Nat] /\ r[m] = DataOn(f, i)
          /\ \A k \in 1 .. n : r[k] = q[k]
      BY <1>1, <1>4, <1>5, CountedType
    <2>2. InFlight(out, "DATA", i) = Sum(r) /\ InFlight(buf, "DATA", i) = Sum(q)
      BY DEF InFlight, DataOn
    <2> HIDE DEF q, r
    <2>3. Sum(r) = Sum(q) + r[m]
      BY <1>2, <2>1, SumAppend, Zenon
    <2> QED
      BY <2>1, <2>2, <2>3
  <1> QED
    BY <1>3, <1>4, <1>6, <1>7, <1>8

\* The first frame leaves.
LEMMA FrameTaken ==
    ASSUME NEW buf \in Seq(FrameType), buf # <<>>
    PROVE  /\ Head(buf) = buf[1] /\ 1 \in DOMAIN buf /\ buf[1] \in FrameType
           /\ Tail(buf) \in Seq(FrameType)
           /\ \A k \in DOMAIN Tail(buf) : k + 1 \in DOMAIN buf /\ Tail(buf)[k] = buf[k + 1]
           /\ \A k \in DOMAIN buf \ {1} : k - 1 \in DOMAIN Tail(buf) /\ Tail(buf)[k - 1] = buf[k]
           /\ Data(buf) = DataIn(buf[1]) + Data(Tail(buf))
           /\ Credits(buf) = CreditIn(buf[1]) + Credits(Tail(buf))
           /\ \A i : InFlight(buf, "DATA", i) = DataOn(buf[1], i) + InFlight(Tail(buf), "DATA", i)
  <1>1. PICK n \in Nat, m \in Nat : m = n + 1 /\ m = Len(buf) /\ buf \in [1 .. m -> FrameType]
    <2>1. Len(buf) \in Nat \ {0} /\ buf \in [1 .. Len(buf) -> FrameType]
      BY LenProperties, EmptySeq
    <2>2. Len(buf) - 1 \in Nat /\ Len(buf) \in Nat /\ Len(buf) = (Len(buf) - 1) + 1
      BY <2>1
    <2> QED
      BY <2>1, <2>2
  <1>3. PICK out : out = Tail(buf)
    OBVIOUS
  <1>4. /\ out \in Seq(FrameType) /\ out \in [1 .. n -> FrameType] /\ Head(buf) = buf[1]
        /\ \A k \in 1 .. n : out[k] = buf[k + 1]
    <2>1. /\ out \in Seq(FrameType) /\ Len(out) = n /\ Head(buf) = buf[1]
          /\ \A k \in 1 .. n : out[k] = buf[k + 1]
      BY <1>1, <1>3, HeadTailProperties
    <2> QED
      BY <2>1, LenProperties
  <1>5. /\ DOMAIN buf = 1 .. m /\ DOMAIN out = 1 .. n /\ 1 \in 1 .. m
        /\ \A k \in 1 .. n : k + 1 \in 1 .. m
        /\ \A k \in 1 .. m \ {1} : k - 1 \in 1 .. n /\ (k - 1) + 1 = k
    BY <1>1, <1>4
  <1>6. Data(buf) = DataIn(buf[1]) + Data(out)
    <2> DEFINE q == [k \in DOMAIN buf |-> DataIn(buf[k])]
               r == [k \in DOMAIN out |-> DataIn(out[k])]
    <2>1. q \in [1 .. m -> Nat] /\ r \in [1 .. n -> Nat] /\ q[1] = DataIn(buf[1])
          /\ \A k \in 1 .. n : r[k] = q[k + 1]
      BY <1>1, <1>4, <1>5, CountedType
    <2>2. Data(out) = Sum(r) /\ Data(buf) = Sum(q)
      BY DEF Data
    <2> HIDE DEF q, r
    <2> QED
      BY <1>1, <2>1, <2>2, SumTail
  <1>7. Credits(buf) = CreditIn(buf[1]) + Credits(out)
    <2> DEFINE q == [k \in DOMAIN buf |-> CreditIn(buf[k])]
               r == [k \in DOMAIN out |-> CreditIn(out[k])]
    <2>1. q \in [1 .. m -> Nat] /\ r \in [1 .. n -> Nat] /\ q[1] = CreditIn(buf[1])
          /\ \A k \in 1 .. n : r[k] = q[k + 1]
      BY <1>1, <1>4, <1>5, CountedType
    <2>2. Credits(out) = Sum(r) /\ Credits(buf) = Sum(q)
      BY DEF Credits
    <2> HIDE DEF q, r
    <2> QED
      BY <1>1, <2>1, <2>2, SumTail
  <1>8. ASSUME NEW i
        PROVE  InFlight(buf, "DATA", i) = DataOn(buf[1], i) + InFlight(out, "DATA", i)
    <2> DEFINE q == [k \in DOMAIN buf |-> DataOn(buf[k], i)]
               r == [k \in DOMAIN out |-> DataOn(out[k], i)]
    <2>1. q \in [1 .. m -> Nat] /\ r \in [1 .. n -> Nat] /\ q[1] = DataOn(buf[1], i)
          /\ \A k \in 1 .. n : r[k] = q[k + 1]
      BY <1>1, <1>4, <1>5, CountedType
    <2>2. InFlight(out, "DATA", i) = Sum(r) /\ InFlight(buf, "DATA", i) = Sum(q)
      BY DEF InFlight, DataOn
    <2> HIDE DEF q, r
    <2> QED
      BY <1>1, <2>1, <2>2, SumTail
  <1>9. 1 \in DOMAIN buf /\ buf[1] \in FrameType
    BY <1>1, <1>5
  <1>10. /\ \A k \in DOMAIN out : k + 1 \in DOMAIN buf /\ out[k] = buf[k + 1]
         /\ \A k \in DOMAIN buf \ {1} : k - 1 \in DOMAIN out /\ out[k - 1] = buf[k]
    BY <1>4, <1>5
  <1> QED
    BY <1>3, <1>4, <1>6, <1>7, <1>8, <1>9, <1>10
-------------------------------------------------------------------------------
(***************************************************************************)
(* What an end adds to its byte stream                                     *)
(***************************************************************************)

\* The bytes of DATA in the one or two frames that the client writes at a time.
LEMMA FewBytes ==
    ASSUME NEW a \in FrameType, NEW b \in FrameType,
           NEW buf, buf \in {<<a>>, <<a, b>>}
    PROVE  C!DataBytes(buf) = IF Len(buf) = 1 THEN DataIn(a) ELSE DataIn(a) + DataIn(b)
  <1> DEFINE Rec(g) == g = [k \in 0 .. Len(buf) |->
                               IF k = 0 THEN 0
                               ELSE g[k - 1] + (IF buf[k].type = "DATA" THEN buf[k].n ELSE 0)]
  <1>1. DataIn(a) \in Nat /\ DataIn(b) \in Nat
    BY CountedType
  <1>2. PICK g : g = CHOOSE h : Rec(h)
    OBVIOUS
  <1>3. C!DataBytes(buf) = g[Len(buf)]
    BY <1>2 DEF C!DataBytes
  <1>4. CASE buf = <<a>>
    <2>1. Len(buf) = 1 /\ buf[1] = a
      BY <1>4
    <2>2. Rec([k \in 0 .. 1 |-> IF k = 0 THEN 0 ELSE DataIn(a)])
      BY <1>1, <2>1 DEF DataIn
    <2>3. Rec(g)
      <3> HIDE DEF Rec
      <3> QED
        BY <1>2, <2>2
    <2>4. g[0] = 0 /\ g[1] = g[0] + DataIn(a)
      BY <2>1, <2>3 DEF DataIn
    <2> QED
      BY <1>1, <1>3, <2>1, <2>4
  <1>5. CASE buf = <<a, b>>
    <2>1. Len(buf) = 2 /\ buf[1] = a /\ buf[2] = b
      BY <1>5
    <2>2. Rec([k \in 0 .. 2 |-> IF k = 0 THEN 0
                                ELSE IF k = 1 THEN DataIn(a) ELSE DataIn(a) + DataIn(b)])
      BY <1>1, <2>1 DEF DataIn
    <2>3. Rec(g)
      <3> HIDE DEF Rec
      <3> QED
        BY <1>2, <2>2
    <2>4. g[0] = 0 /\ g[1] = g[0] + DataIn(a) /\ g[2] = g[1] + DataIn(b)
      BY <2>1, <2>3 DEF DataIn
    <2> QED
      BY <1>1, <1>3, <2>1, <2>4
  <1> QED
    BY <1>4, <1>5

\* What the client hands to its transport goes through whole while it fits one write.
LEMMA ClientFlushes ==
    ASSUME cTransport = "Ready", cSock \in Seq(FrameType),
           NEW buf \in Seq(FrameType), C!DataBytes(buf) \in Nat, C!DataBytes(buf) <= MaxTraffic,
           C!Flush(buf)
    PROVE  cSock' = cSock \o buf /\ cWriteBuf' = <<>>
  <1>1. ~(C!DataBytes(buf) > MaxTraffic)
    BY LinkConstants
  <1>2. C!Accepted(buf) = {Len(buf)}
    BY <1>1 DEF C!Accepted
  <1>3. PICK n \in C!Accepted(buf) : /\ cSock' = cSock \o SubSeq(buf, 1, n)
                                     /\ cWriteBuf' = SubSeq(buf, n + 1, Len(buf))
    BY DEF C!Flush
  <1>4. n = Len(buf)
    BY <1>2, <1>3
  <1>5. SubSeq(buf, 1, Len(buf)) = buf
    BY SubSeqFull
  <1>6. SubSeq(buf, Len(buf) + 1, Len(buf)) = <<>>
    BY SubSeqEmpty, LenProperties
  <1> QED
    BY <1>3, <1>4, <1>5, <1>6

\* A frame that the client emits goes through its empty write buffer at once.
LEMMA ClientEmits ==
    ASSUME cWriteBuf = <<>>, cTransport = "Ready", cSock \in Seq(FrameType),
           NEW f \in FrameType, DataIn(f) <= MaxTraffic, C!Emit(f)
    PROVE  cSock' = Append(cSock, f) /\ cWriteBuf' = <<>>
  <1>1. Append(cWriteBuf, f) = <<f>> /\ <<f>> \in Seq(FrameType) /\ Len(<<f>>) = 1
    <2>1. Append(cWriteBuf, f) = <<f>>
      OBVIOUS
    <2>2. <<f>> \in Seq(FrameType) /\ Len(<<f>>) = 1
      OBVIOUS
    <2> QED
      BY <2>1, <2>2
  <1>2. C!DataBytes(<<f>>) = DataIn(f)
    <2>1. PICK buf : buf = <<f>>
      OBVIOUS
    <2>2. buf \in {<<f>>, <<f, f>>} /\ Len(buf) = 1
      BY <1>1, <2>1
    <2>3. C!DataBytes(buf) = IF Len(buf) = 1 THEN DataIn(f) ELSE DataIn(f) + DataIn(f)
      BY <2>2, FewBytes, Zenon
    <2> QED
      BY <2>1, <2>2, <2>3
  <1>3. DataIn(f) \in Nat
    BY CountedType
  <1>4. C!Flush(<<f>>)
    BY <1>1 DEF C!Emit
  <1>5. cSock' = cSock \o <<f>> /\ cWriteBuf' = <<>>
    BY <1>1, <1>2, <1>3, <1>4, ClientFlushes
  <1>6. cSock \o <<f>> = Append(cSock, f)
    OBVIOUS
  <1> QED
    BY <1>5, <1>6

\* The same of the preface and SETTINGS, which start the client's byte stream.
LEMMA ClientGreets ==
    ASSUME cWriteBuf = <<>>, cTransport = "Ready", cSock \in Seq(FrameType),
           NEW a \in FrameType, NEW b \in FrameType, DataIn(a) = 0, DataIn(b) = 0,
           C!Flush(cWriteBuf \o <<a, b>>)
    PROVE  cSock' = Append(Append(cSock, a), b) /\ cWriteBuf' = <<>>
  <1>1. cWriteBuf \o <<a, b>> = <<a, b>> /\ <<a, b>> \in Seq(FrameType) /\ Len(<<a, b>>) = 2
    OBVIOUS
  <1>2. C!DataBytes(<<a, b>>) = 0
    <2>1. PICK buf : buf = <<a, b>>
      OBVIOUS
    <2>2. buf \in {<<a>>, <<a, b>>} /\ Len(buf) = 2
      BY <1>1, <2>1
    <2>3. C!DataBytes(buf) = IF Len(buf) = 1 THEN DataIn(a) ELSE DataIn(a) + DataIn(b)
      BY <2>2, FewBytes, Zenon
    <2> QED
      BY <2>1, <2>2, <2>3
  <1>3. cSock' = cSock \o <<a, b>> /\ cWriteBuf' = <<>>
    <2>1. C!DataBytes(<<a, b>>) \in Nat /\ C!DataBytes(<<a, b>>) <= MaxTraffic
      BY <1>2, LinkConstants
    <2>2. C!Flush(<<a, b>>)
      BY <1>1
    <2> QED
      BY <1>1, <2>1, <2>2, ClientFlushes
  <1>4. cSock \o <<a, b>> = Append(Append(cSock, a), b)
    <2>1. <<a>> \in Seq(FrameType) /\ <<b>> \in Seq(FrameType)
      OBVIOUS
    <2>5. <<a, b>> = <<a>> \o <<b>>
      <3>1. Append(<<a>>, b) = <<a>> \o <<b>>
        BY <2>1, AppendIsConcat
      <3>2. Append(<<a>>, b) = <<a, b>>
        <4>1. Append(<<a>>, b) \in Seq(FrameType) /\ <<a, b>> \in Seq(FrameType)
          BY <1>1, <2>1, AppendProperties
        <4>2. /\ Len(Append(<<a>>, b)) = 2 /\ Len(<<a, b>>) = 2
              /\ Append(<<a>>, b)[1] = a /\ Append(<<a>>, b)[2] = b
              /\ <<a, b>>[1] = a /\ <<a, b>>[2] = b
          BY <2>1, AppendProperties
        <4>3. \A k \in 1 .. 2 : Append(<<a>>, b)[k] = <<a, b>>[k]
          BY <4>2
        <4> QED
          BY <4>1, <4>2, <4>3, SeqEqual
      <3> QED
        BY <3>1, <3>2
    <2>2. (cSock \o <<a>>) \o <<b>> = cSock \o <<a, b>>
      BY <2>1, <2>5, ConcatAssociative
    <2>3. Append(cSock, a) = cSock \o <<a>> /\ Append(cSock, a) \in Seq(FrameType)
      BY AppendIsConcat, AppendProperties
    <2>4. Append(Append(cSock, a), b) = Append(cSock, a) \o <<b>>
      BY <2>3, AppendIsConcat
    <2> QED
      BY <2>2, <2>3, <2>4
  <1> QED
    BY <1>3, <1>4
-------------------------------------------------------------------------------
(***************************************************************************)
(* What a step does to the two ends                                        *)
(***************************************************************************)

\* Neither the accounts nor the windows of an end change.
ClientStill == C!CountersStay /\ C!WindowsStay
ServerStill == S!CountersStay /\ S!WindowsStay

\* What is not about the bytes of a body: it moves no account.
Plain(f) ==
    /\ f \in FrameType /\ f.type \notin {"DATA", "WINDOW_UPDATE"}
    /\ f.type \in {"HEADERS", "RST_STREAM"} => f.id # 0

\* What is about the connection and not about a stream of it.
Control(f) == Plain(f) /\ f.type \notin {"HEADERS", "RST_STREAM"}

\* Each end has room for the credit that the other can have granted it.
LEMMA CreditFits ==
    ASSUME TrafficFits, LinkInv
    PROVE  /\ DefaultWindow + cCredit[0] <= I32Max /\ DefaultWindow + sCredit[0] <= I32Max
           /\ DefaultWindow + cGranted <= I32Max /\ DefaultWindow + sGranted <= I32Max
           /\ cCredit[0] <= sGranted /\ sCredit[0] <= cGranted
  <1>1. /\ cCredit[0] \in Nat /\ cGranted \in Nat /\ cSent[0] \in Nat /\ cRcvd \in Nat
        /\ cSock \in Seq(FrameType)
    BY DEF LinkInv, ClientAlone, C!TypeOK, C!EndpointTypeOK, C!CoreTypeOK, FrameType
  <1>2. /\ sCredit[0] \in Nat /\ sGranted \in Nat /\ sSent[0] \in Nat /\ sRcvd \in Nat
        /\ sWriteBuf \in Seq(FrameType)
    BY DEF LinkInv, ServerAlone, S!TypeOK, S!EndpointTypeOK, S!CoreTypeOK, FrameType,
           S!FrameType, C!FrameType, S!U31, C!U31
  <1>3. Credits(cSock) \in Nat /\ Credits(sWriteBuf) \in Nat
    BY <1>1, <1>2, UnderWayType
  <1>4. /\ cGranted = sCredit[0] + Credits(cSock) /\ sGranted = cCredit[0] + Credits(sWriteBuf)
        /\ cGranted <= cSent[0] + cRcvd /\ cSent[0] + cRcvd <= MaxTraffic
        /\ sGranted <= sSent[0] + sRcvd /\ sSent[0] + sRcvd <= MaxTraffic
    BY DEF LinkInv, AccountsAgree, ClientAlone, ServerAlone
  <1>5. DefaultWindow + MaxTraffic <= I32Max
    BY DEF TrafficFits
  <1>6. PICK cc, cg, sc, sg, c1, c2, s1, s2, x, y \in Nat :
           /\ cc = cCredit[0] /\ cg = cGranted /\ sc = sCredit[0] /\ sg = sGranted
           /\ c1 = cSent[0] /\ c2 = cRcvd /\ s1 = sSent[0] /\ s2 = sRcvd
           /\ x = Credits(cSock) /\ y = Credits(sWriteBuf)
    BY <1>1, <1>2, <1>3
  <1>7. /\ cg = sc + x /\ sg = cc + y /\ cg <= c1 + c2 /\ c1 + c2 <= MaxTraffic
        /\ sg <= s1 + s2 /\ s1 + s2 <= MaxTraffic
    BY <1>4, <1>6
  <1>8. /\ DefaultWindow + cc <= I32Max /\ DefaultWindow + sc <= I32Max
        /\ DefaultWindow + cg <= I32Max /\ DefaultWindow + sg <= I32Max
        /\ cc <= sg /\ sc <= cg
    BY <1>5, <1>7, LinkConstants
  <1> QED
    BY <1>6, <1>8

\* A step of one end is no step of the other.
LEMMA ClientRests ==
    ASSUME ClientAlone, UNCHANGED clientVars
    PROVE  ClientAlone' /\ ClientStill /\ UNCHANGED C!vars
  <1>1. UNCHANGED C!vars
    BY DEF clientVars, C!vars, C!core, C!history
  <1>2. C!TypeOK' /\ C!Ledger' /\ C!IdsBelowNext'
    BY <1>1, Assumptions, C!NextTypeOK, C!NextLedger, C!NextIdsBelow
       DEF ClientAlone, ClientAssumptions
  <1>3. ClientStill
    BY DEF clientVars, ClientStill, C!CountersStay, C!WindowsStay
  <1> QED
    BY <1>1, <1>2, <1>3 DEF ClientAlone, clientVars

\* The same of the server.
LEMMA ServerRests ==
    ASSUME ServerAlone, UNCHANGED serverVars
    PROVE  ServerAlone' /\ ServerStill /\ UNCHANGED S!vars
  <1>1. UNCHANGED S!vars
    BY DEF serverVars, S!vars, S!core, S!history
  <1>2. S!TypeOK' /\ S!Ledger' /\ S!IdsRemembered'
    BY <1>1, Assumptions, S!NextTypeOK, S!NextLedger, S!NextIdsRemembered
       DEF ServerAlone, ServerAssumptions
  <1>3. ServerStill
    BY DEF serverVars, ServerStill, S!CountersStay, S!WindowsStay
  <1> QED
    BY <1>1, <1>2, <1>3 DEF ServerAlone, serverVars

\* What the invariant of a Connection gives of one of its steps.
LEMMA ClientSteps ==
    ASSUME ClientAlone, C!Next, cWriteBuf' = <<>>, cTransport' = cTransport, cRemote' = cRemote,
           cSent'[0] + cRcvd' <= MaxTraffic, cGranted' <= cSent'[0] + cRcvd'
    PROVE  ClientAlone'
  <1>1. C!TypeOK' /\ C!Ledger' /\ C!IdsBelowNext'
    BY Assumptions, C!NextTypeOK, C!NextLedger, C!NextIdsBelow
       DEF ClientAlone, ClientAssumptions
  <1> QED
    BY <1>1 DEF ClientAlone, LocalSettings

\* The same of a ServerConnection.
LEMMA ServerSteps ==
    ASSUME ServerAlone, S!Next, sRemote' = sRemote,
           sSent'[0] + sRcvd' <= MaxTraffic, sGranted' <= sSent'[0] + sRcvd'
    PROVE  ServerAlone'
  <1>1. S!TypeOK' /\ S!Ledger' /\ S!IdsRemembered'
    BY Assumptions, S!NextTypeOK, S!NextLedger, S!NextIdsRemembered
       DEF ServerAlone, ServerAssumptions
  <1> QED
    BY <1>1 DEF ServerAlone, LocalSettings
-------------------------------------------------------------------------------
\* Each end makes a step of its own or none, and what holds of it alone still does.
Ends == [C!Next]_C!vars /\ [S!Next]_S!vars /\ ClientAlone' /\ ServerAlone'

(***************************************************************************)
(* The ways in which a step changes the accounts, the windows and the two  *)
(* byte streams.                                                           *)
(***************************************************************************)
\* The client writes nothing, or frames that move no account; the server likewise.
ClientWrites ==
    /\ ClientStill /\ ServerStill /\ sWriteBuf' = sWriteBuf
    /\ \/ cSock' = cSock
       \/ \E a, b : Control(a) /\ Control(b) /\ cSock' = Append(Append(cSock, a), b)

ServerWrites ==
    /\ ClientStill /\ ServerStill /\ cSock' = cSock
    /\ \/ sWriteBuf' = sWriteBuf
       \/ \E f : Plain(f) /\ sWriteBuf' = Append(sWriteBuf, f)

\* What the types of the two ends say of the variables that are counted.
LEMMA Typed ==
    ASSUME LinkInv
    PROVE  /\ C!CoreTypeOK /\ S!CoreTypeOK /\ C!Ledger /\ S!Ledger
           /\ cSock \in Seq(FrameType) /\ sWriteBuf \in Seq(FrameType)
           /\ cWriteBuf = <<>> /\ cTransport = "Ready"
           /\ S!FrameType = FrameType /\ C!FrameType = FrameType
           /\ cSent[0] \in Nat /\ cCredit[0] \in Nat /\ cRcvd \in Nat /\ cGranted \in Nat
           /\ sSent[0] \in Nat /\ sCredit[0] \in Nat /\ sRcvd \in Nat /\ sGranted \in Nat
           /\ cFlow.consumed \in Nat /\ sFlow.consumed \in Nat
  <1>1. C!CoreTypeOK /\ S!CoreTypeOK /\ C!Ledger /\ S!Ledger
        /\ cSock \in Seq(C!FrameType) /\ sWriteBuf \in Seq(S!FrameType)
        /\ cWriteBuf = <<>> /\ cTransport = "Ready"
    BY DEF LinkInv, ClientAlone, ServerAlone, C!TypeOK, S!TypeOK, C!EndpointTypeOK,
           S!EndpointTypeOK
  <1>2. S!FrameType = FrameType /\ C!FrameType = FrameType
    BY DEF FrameType, S!FrameType, C!FrameType, S!U31, C!U31
  <1>3. cSent[0] \in Nat /\ cCredit[0] \in Nat /\ cRcvd \in Nat /\ cGranted \in Nat
    BY <1>1 DEF C!CoreTypeOK
  <1>4. sSent[0] \in Nat /\ sCredit[0] \in Nat /\ sRcvd \in Nat /\ sGranted \in Nat
    BY <1>1 DEF S!CoreTypeOK
  <1>5. cFlow.consumed \in Nat /\ sFlow.consumed \in Nat
    <2>1. cFlow.consumed \in C!U32 /\ sFlow.consumed \in S!U32
      BY <1>1 DEF C!CoreTypeOK, S!CoreTypeOK, C!FlowType, S!FlowType
    <2> QED
      BY <2>1, LinkConstants DEF C!U32, C!U32Max, S!U32, S!U32Max
  <1> QED
    BY <1>1, <1>2, <1>3, <1>4, <1>5

\* The accounts of an end that stay as they are keep within the traffic.
LEMMA StillAlone ==
    ASSUME LinkInv
    PROVE  /\ C!CountersStay => cSent'[0] + cRcvd' <= MaxTraffic /\ cGranted' <= cSent'[0] + cRcvd'
           /\ S!CountersStay => sSent'[0] + sRcvd' <= MaxTraffic /\ sGranted' <= sSent'[0] + sRcvd'
  BY DEF LinkInv, ClientAlone, ServerAlone, C!CountersStay, S!CountersStay

\* The frames that the ends write.
LEMMA FramesWritten ==
    ASSUME NEW i \in U31, NEW end \in BOOLEAN
    PROVE  /\ Control(C!Frame("PREFACE", 0, 0, FALSE)) /\ Control(C!Frame("SETTINGS", 0, 0, FALSE))
           /\ Control(C!Frame("SETTINGS_ACK", 0, 0, FALSE))
           /\ Control(S!Frame("SETTINGS", 0, 0, FALSE))
           /\ Control(S!Frame("SETTINGS_ACK", 0, 0, FALSE))
           /\ Control(S!Frame("GOAWAY", i, 0, FALSE)) /\ Plain(S!Frame("GOAWAY", i, 0, FALSE))
           /\ i # 0 => Plain(S!Frame("HEADERS", i, 0, end))
                       /\ Plain(S!Frame("RST_STREAM", i, 0, FALSE))
  BY LinkConstants DEF Control, Plain, FrameType, C!FrameType, C!Frame, S!Frame, U31, C!U31

\* The client greets the server when its transport is ready.
LEMMA ReadyMove ==
    ASSUME LinkInv, ClientReady
    PROVE  Ends /\ ClientWrites
  <1>1. C!OnTransportReady /\ UNCHANGED serverVars
    BY ClientActions DEF ClientReady
  <1>2. C!Next
    BY <1>1 DEF C!Next, C!Call
  <1>3. ClientStill /\ cTransport' = cTransport /\ cRemote' = cRemote
    BY <1>1 DEF C!OnTransportReady, C!history, ClientStill, C!CountersStay, C!WindowsStay
  <1>4. ServerAlone' /\ ServerStill /\ UNCHANGED S!vars
    BY <1>1, ServerRests DEF LinkInv
  <1> DEFINE a == C!Frame("PREFACE", 0, 0, FALSE)
             b == C!Frame("SETTINGS", 0, 0, FALSE)
  <1>5. Control(a) /\ Control(b)
    <2>1. 0 \in U31 /\ FALSE \in BOOLEAN
      BY LinkConstants DEF U31
    <2> QED
      BY <2>1, FramesWritten
  <1>6. C!Flush(cWriteBuf \o <<a, b>>)
    BY <1>1 DEF C!OnTransportReady
  <1> HIDE DEF a, b
  <1>7. cSock' = Append(Append(cSock, a), b) /\ cWriteBuf' = <<>>
    <2>1. a \in FrameType /\ b \in FrameType /\ DataIn(a) = 0 /\ DataIn(b) = 0
      BY <1>5 DEF Control, Plain, DataIn
    <2> QED
      BY <1>6, <2>1, Typed, ClientGreets
  <1>8. ClientAlone'
    BY <1>2, <1>3, <1>7, StillAlone, ClientSteps DEF LinkInv, ClientStill
  <1>9. ClientWrites
    BY <1>1, <1>3, <1>4, <1>5, <1>7 DEF ClientWrites, serverVars
  <1> QED
    BY <1>2, <1>4, <1>8, <1>9 DEF Ends

\* The applications take up what they are told.
LEMMA PollMoves ==
    ASSUME LinkInv, ClientPolls \/ ServerPolls
    PROVE  Ends /\ ClientWrites
  <1>1. CASE ClientPolls
    <2>1. C!PollEvents /\ UNCHANGED serverVars
      BY <1>1, ClientActions DEF ClientPolls
    <2>2. C!Next
      BY <2>1 DEF C!Next, C!Call
    <2>3. ClientStill /\ cTransport' = cTransport /\ cRemote' = cRemote
          /\ cWriteBuf' = cWriteBuf /\ cSock' = cSock
      BY <2>1 DEF C!PollEvents, C!TakeEvents, C!output, C!history, ClientStill,
                  C!CountersStay, C!WindowsStay
    <2>4. ServerAlone' /\ ServerStill /\ UNCHANGED S!vars
      BY <2>1, ServerRests DEF LinkInv
    <2>5. ClientAlone'
      BY <2>2, <2>3, Typed, StillAlone, ClientSteps DEF LinkInv, ClientStill
    <2>6. ClientWrites
      BY <2>1, <2>3, <2>4 DEF ClientWrites, serverVars
    <2> QED
      BY <2>2, <2>4, <2>5, <2>6 DEF Ends
  <1>2. CASE ServerPolls
    <2>1. S!PollEvents /\ UNCHANGED clientVars
      BY <1>2, ServerActions DEF ServerPolls
    <2>2. S!Next
      BY <2>1 DEF S!Next, S!Call
    <2>3. ServerStill /\ sRemote' = sRemote /\ sWriteBuf' = sWriteBuf
      BY <2>1 DEF S!PollEvents, S!TakeEvents, S!history, ServerStill,
                  S!CountersStay, S!WindowsStay
    <2>4. ClientAlone' /\ ClientStill /\ UNCHANGED C!vars
      BY <2>1, ClientRests DEF LinkInv
    <2>5. ServerAlone'
      BY <2>2, <2>3, StillAlone, ServerSteps DEF LinkInv, ServerStill
    <2>6. ClientWrites
      BY <2>1, <2>3, <2>4 DEF ClientWrites, clientVars
    <2> QED
      BY <2>2, <2>4, <2>5, <2>6 DEF Ends
  <1> QED
    BY <1>1, <1>2

\* The server answers with headers or with a reset.
LEMMA ServerCallMoves ==
    ASSUME LinkInv, NEW i \in Ids, Answer(i) \/ Reset(i)
    PROVE  Ends /\ ServerWrites
  <1> DEFINE end == Body(<<"down", i>>) = 0
  <1>1. PICK a \in BOOLEAN : a = end
    OBVIOUS
  <1>2. i \in U31 \ {0}
    <2>1. PICK k \in DOMAIN Requests : i = 2 * k - 1
      BY DEF Ids
    <2>2. k \in 1 .. Len(Requests)
      BY <2>1, LinkAssumption
    <2> QED
      BY <2>1, <2>2, LinkConstants DEF U31
  <1>3. UNCHANGED clientVars /\ (S!SendHeaders(i, a) \/ S!SendReset(i))
    BY <1>1, ServerActions DEF Answer, Reset
  <1>4. ClientAlone' /\ ClientStill /\ UNCHANGED C!vars
    BY <1>3, ClientRests DEF LinkInv
  <1> HIDE DEF end
  <1>5. /\ S!Next /\ ServerStill /\ sRemote' = sRemote
        /\ \E f : Plain(f) /\ sWriteBuf' = Append(sWriteBuf, f)
    <2>1. CASE S!SendHeaders(i, a)
      <3>1. S!Next
        BY <2>1, <1>1 DEF S!SendHeaders, S!Next, S!Call, S!Calls
      <3>2. S!CountersStay /\ sRemote' = sRemote
        BY <2>1 DEF S!SendHeaders, S!CountersStay
      <3>3. S!WindowsStay
        BY <2>1, Typed, Assumptions, S!StateOnly, S!OneStateWindows
           DEF S!SendHeaders, ServerAssumptions, S!CoreTypeOK
      <3>4. sWriteBuf' = Append(sWriteBuf, S!Frame("HEADERS", i, 0, a))
        BY <2>1 DEF S!SendHeaders, S!Emit
      <3> QED
        BY <1>2, <3>1, <3>2, <3>3, <3>4, FramesWritten DEF ServerStill
    <2>2. CASE S!SendReset(i)
      <3>1. S!Next
        BY <2>2 DEF S!SendReset, S!Next, S!Call, S!Calls
      <3>2. S!CountersStay /\ sRemote' = sRemote
        BY <2>2 DEF S!SendReset, S!CountersStay
      <3>3. S!WindowsStay
        BY <2>2, Typed, Assumptions, S!StateOnly, S!OneStateWindows
           DEF S!SendReset, ServerAssumptions, S!CoreTypeOK
      <3>4. sWriteBuf' = Append(sWriteBuf, S!Frame("RST_STREAM", i, 0, FALSE))
        BY <2>2 DEF S!SendReset, S!Emit
      <3> QED
        BY <1>2, <3>1, <3>2, <3>3, <3>4, FramesWritten DEF ServerStill
    <2> QED
      BY <1>3, <2>1, <2>2
  <1>6. ServerAlone'
    BY <1>5, StillAlone, ServerSteps DEF LinkInv, ServerStill
  <1>7. ServerWrites
    BY <1>3, <1>4, <1>5 DEF ServerWrites, clientVars
  <1> QED
    BY <1>4, <1>5, <1>6, <1>7 DEF Ends

\* The server goes away.
LEMMA GoAwayMove ==
    ASSUME LinkInv, GoAway
    PROVE  Ends /\ ServerWrites
  <1>1. S!SendGoAway /\ UNCHANGED clientVars
    BY ServerActions DEF GoAway
  <1>2. S!Next
    BY <1>1 DEF S!Next, S!Call, S!Calls
  <1>3. ServerStill /\ sRemote' = sRemote
    BY <1>1 DEF S!SendGoAway, S!CountersStay, S!WindowsStay, S!history, ServerStill
  <1>4. sWriteBuf' = Append(sWriteBuf, S!Frame("GOAWAY", sLastClientStreamId, 0, FALSE))
    BY <1>1 DEF S!SendGoAway, S!Emit
  <1>5. sLastClientStreamId \in U31
    BY DEF LinkInv, ServerAlone, S!TypeOK, S!U31, U31
  <1>6. ClientAlone' /\ ClientStill /\ UNCHANGED C!vars
    BY <1>1, ClientRests DEF LinkInv
  <1>7. ServerAlone'
    BY <1>2, <1>3, StillAlone, ServerSteps DEF LinkInv, ServerStill
  <1>8. ServerWrites
    BY <1>1, <1>3, <1>4, <1>5, <1>6, FramesWritten DEF ServerWrites, clientVars
  <1> QED
    BY <1>2, <1>6, <1>7, <1>8 DEF Ends
-------------------------------------------------------------------------------
\* An end takes a frame that moves no account, and may answer it with another.
ServerTakesPlain ==
    /\ ClientStill /\ ServerStill
    /\ cSock # <<>> /\ Control(cSock[1]) /\ cSock' = Tail(cSock)
    /\ \/ sWriteBuf' = sWriteBuf
       \/ \E f : Control(f) /\ sWriteBuf' = Append(sWriteBuf, f)

ClientTakesPlain ==
    /\ ClientStill /\ ServerStill
    /\ sWriteBuf # <<>> /\ Plain(sWriteBuf[1]) /\ sWriteBuf' = Tail(sWriteBuf)
    /\ \/ cSock' = cSock
       \/ \E f : Control(f) /\ cSock' = Append(cSock, f)

\* The next frame of a byte stream that leaves it.
LEMMA ClientGives ==
    ASSUME LinkInv, ToServer
    PROVE  /\ C!Next /\ ClientAlone' /\ ClientStill
           /\ cSock # <<>> /\ cSock' = Tail(cSock)
           /\ cSock[1] \in FrameType /\ Sound(cSock[1]) /\ 1 \in DOMAIN cSock
           /\ ServerTakes(cSock[1])
  <1>1. C!AdvanceSend /\ ServerTakes(Head(cSock))
    BY ClientActions DEF ToServer
  <1>2. C!Next
    BY <1>1 DEF C!Next, C!Call
  <1>3. /\ ClientStill /\ cTransport' = cTransport /\ cRemote' = cRemote /\ cWriteBuf' = cWriteBuf
        /\ cSock # <<>> /\ cSock' = Tail(cSock)
    BY <1>1 DEF C!AdvanceSend, C!core, C!history, ClientStill, C!CountersStay, C!WindowsStay
  <1>4. Head(cSock) = cSock[1] /\ 1 \in DOMAIN cSock /\ cSock[1] \in FrameType
    BY <1>3, Typed, FrameTaken
  <1>5. Sound(cSock[1])
    BY <1>4 DEF LinkInv, FramesSound, AllSound
  <1>6. ClientAlone'
    BY <1>2, <1>3, Typed, StillAlone, ClientSteps DEF LinkInv, ClientStill
  <1> QED
    BY <1>1, <1>2, <1>3, <1>4, <1>5, <1>6

\* The same of the server's byte stream.
LEMMA ServerGives ==
    ASSUME LinkInv, ToClient
    PROVE  /\ S!Next /\ ServerAlone' /\ ServerStill
           /\ sWriteBuf # <<>> /\ sWriteBuf' = Tail(sWriteBuf)
           /\ sWriteBuf[1] \in FrameType /\ Sound(sWriteBuf[1]) /\ 1 \in DOMAIN sWriteBuf
           /\ ClientTakes(sWriteBuf[1])
  <1>1. S!AdvanceSend /\ ClientTakes(Head(sWriteBuf))
    BY ServerActions DEF ToClient
  <1>2. S!Next
    BY <1>1 DEF S!Next, S!Call
  <1>3. /\ ServerStill /\ sRemote' = sRemote
        /\ sWriteBuf # <<>> /\ sWriteBuf' = Tail(sWriteBuf)
    BY <1>1 DEF S!AdvanceSend, S!core, S!history, ServerStill, S!CountersStay, S!WindowsStay
  <1>4. Head(sWriteBuf) = sWriteBuf[1] /\ 1 \in DOMAIN sWriteBuf /\ sWriteBuf[1] \in FrameType
    BY <1>3, Typed, FrameTaken
  <1>5. Sound(sWriteBuf[1])
    BY <1>4 DEF LinkInv, FramesSound, AllSound
  <1>6. ServerAlone'
    BY <1>2, <1>3, StillAlone, ServerSteps DEF LinkInv, ServerStill
  <1> QED
    BY <1>1, <1>2, <1>3, <1>4, <1>5, <1>6

\* A frame that the server takes without an effect on accounts and windows.
LEMMA ServerPlainMoves ==
    ASSUME LinkInv, ToServer, cSock[1].type \notin {"HEADERS", "DATA", "WINDOW_UPDATE"}
    PROVE  Ends /\ ServerTakesPlain
  <1> DEFINE f == cSock[1]
  <1>1. /\ C!Next /\ ClientAlone' /\ ClientStill /\ cSock # <<>> /\ cSock' = Tail(cSock)
        /\ f \in FrameType /\ Sound(f) /\ ServerTakes(f)
    BY ClientGives
  <1>2. Control(f)
    BY <1>1 DEF Control, Plain, Sound, ServerTakes
  <1>3. 0 \in U31 /\ FALSE \in BOOLEAN
    BY LinkConstants DEF U31
  <1>4. [S!Next]_S!vars /\ ServerAlone' /\ ServerStill
        /\ (sWriteBuf' = sWriteBuf \/ \E g : Control(g) /\ sWriteBuf' = Append(sWriteBuf, g))
    <2>1. CASE f.type = "PREFACE" /\ Server!RecvPreface
      <3>1. S!RecvPreface
        BY <2>1, ServerActions
      <3>2. S!Next
        BY <3>1 DEF S!Next, S!Recv
      <3>3. ServerStill /\ sRemote' = sRemote
        BY <3>1 DEF S!RecvPreface, S!history, ServerStill, S!CountersStay, S!WindowsStay
      <3>4. sWriteBuf' = Append(sWriteBuf, S!Frame("SETTINGS", 0, 0, FALSE))
        BY <3>1 DEF S!RecvPreface, S!Emit
      <3>5. Control(S!Frame("SETTINGS", 0, 0, FALSE))
        BY <1>3, FramesWritten
      <3>6. ServerAlone'
        BY <3>2, <3>3, StillAlone, ServerSteps DEF LinkInv, ServerStill
      <3> QED
        BY <3>2, <3>3, <3>4, <3>5, <3>6
    <2>2. CASE f.type = "SETTINGS" /\ Server!RecvSettings(LocalSettings)
      <3>1. S!RecvSettings(LocalSettings)
        BY <2>2, ServerActions
      <3>2. S!Next
        BY <3>1 DEF S!Next, S!Recv, S!Receives, AnyFrame
      <3>3. S!HandleSettings(LocalSettings)
        BY <3>1 DEF S!RecvSettings
      <3>4. LocalSettings["initialWindow"] = sRemote.initialWindow /\ sRemote = LocalSettings
        BY DEF LinkInv, ServerAlone, LocalSettings
      <3>5. ServerStill /\ sRemote' = sRemote
        BY <3>3, <3>4, Typed, Assumptions, LocalSettingsSound, S!SettingsEffect
           DEF ServerAssumptions, ServerStill, LocalSettings
      <3>6. sWriteBuf' = Append(sWriteBuf, S!Frame("SETTINGS_ACK", 0, 0, FALSE))
        BY <3>1 DEF S!RecvSettings, S!Emit
      <3>7. Control(S!Frame("SETTINGS_ACK", 0, 0, FALSE))
        BY <1>3, FramesWritten
      <3>8. ServerAlone'
        BY <3>2, <3>5, StillAlone, ServerSteps DEF LinkInv, ServerStill
      <3> QED
        BY <3>2, <3>5, <3>6, <3>7, <3>8
    <2>3. CASE f.type = "SETTINGS_ACK" /\ UNCHANGED serverVars
      <3>1. ServerAlone' /\ ServerStill /\ UNCHANGED S!vars
        BY <2>3, ServerRests DEF LinkInv
      <3> QED
        BY <2>3, <3>1 DEF serverVars
    <2> QED
      BY <1>1, <2>1, <2>2, <2>3 DEF ServerTakes
  <1> QED
    BY <1>1, <1>2, <1>4 DEF Ends, ServerTakesPlain

\* A frame that the client takes without an effect on accounts and windows.
LEMMA ClientPlainMoves ==
    ASSUME LinkInv, ToClient, sWriteBuf[1].type \notin {"DATA", "WINDOW_UPDATE"}
    PROVE  Ends /\ ClientTakesPlain
  <1> DEFINE f == sWriteBuf[1]
  <1>1. /\ S!Next /\ ServerAlone' /\ ServerStill /\ sWriteBuf # <<>> /\ sWriteBuf' = Tail(sWriteBuf)
        /\ f \in FrameType /\ Sound(f) /\ ClientTakes(f)
    BY ServerGives
  <1>2. Plain(f)
    BY <1>1 DEF Plain, Sound
  <1>3. 0 \in U31 /\ FALSE \in BOOLEAN
    BY LinkConstants DEF U31
  <1>6. PICK i, end : i = f.id /\ end = f.end
    OBVIOUS
  <1>4. end \in BOOLEAN /\ (f.type \in {"HEADERS", "RST_STREAM"} => i \in U31 \ {0})
    <2>1. f.id \in U31 /\ f.end \in BOOLEAN
      BY <1>1 DEF FrameType, C!FrameType, U31, C!U31
    <2>2. f.type \in {"HEADERS", "RST_STREAM"} => f.id # 0
      BY <1>2 DEF Plain
    <2> QED
      BY <1>6, <2>1, <2>2
  <1>5. [C!Next]_C!vars /\ ClientAlone' /\ ClientStill
        /\ (cSock' = cSock \/ \E g : Control(g) /\ cSock' = Append(cSock, g))
    <2>1. CASE f.type = "SETTINGS" /\ Client!RecvSettings(LocalSettings)
      <3>1. C!RecvSettings(LocalSettings)
        BY <2>1, ClientActions
      <3>2. C!Next
        BY <3>1 DEF C!Next, C!Recv, C!Receives, AnyFrame
      <3>3. C!HandleSettings(LocalSettings) /\ cTransport' = cTransport
        BY <3>1 DEF C!RecvSettings, C!CanReceive
      <3>4. LocalSettings["initialWindow"] = cRemote.initialWindow /\ cRemote = LocalSettings
        BY DEF LinkInv, ClientAlone, LocalSettings
      <3>5. ClientStill /\ cRemote' = cRemote
        BY <3>3, <3>4, Typed, Assumptions, LocalSettingsSound, C!SettingsEffect
           DEF ClientAssumptions, ClientStill, LocalSettings
      <3> DEFINE g == C!Frame("SETTINGS_ACK", 0, 0, FALSE)
      <3>6. C!Emit(g)
        BY <3>1 DEF C!RecvSettings
      <3>7. Control(g)
        BY <1>3, FramesWritten
      <3> HIDE DEF g
      <3>8. cSock' = Append(cSock, g) /\ cWriteBuf' = <<>>
        <4>1. g \in FrameType /\ DataIn(g) = 0 /\ 0 <= MaxTraffic
          BY <3>7, LinkConstants DEF Control, Plain, DataIn
        <4> QED
          BY <3>6, <4>1, Typed, ClientEmits
      <3>9. ClientAlone'
        BY <3>2, <3>3, <3>5, <3>8, StillAlone, ClientSteps DEF LinkInv, ClientStill
      <3> QED
        BY <3>2, <3>5, <3>7, <3>8, <3>9
    <2>2. CASE f.type = "SETTINGS_ACK" /\ UNCHANGED clientVars
      <3>1. ClientAlone' /\ ClientStill /\ UNCHANGED C!vars
        BY <2>2, ClientRests DEF LinkInv
      <3> QED
        BY <2>2, <3>1 DEF clientVars
    <2>3. CASE f.type = "HEADERS" /\ Client!RecvHeaders(i, end)
      <3>1. C!RecvHeaders(i, end)
        BY <2>3, ClientActions
      <3>2. C!Next
        BY <1>4, <2>3, <3>1 DEF C!Next, C!Recv, C!Receives, AnyFrame
      <3>3. /\ cTransport' = cTransport /\ cRemote' = cRemote
            /\ cSock' = cSock /\ cWriteBuf' = cWriteBuf /\ C!CountersStay
        BY <3>1 DEF C!RecvHeaders, C!CanReceive, C!output, C!CountersStay
      <3>4. C!WindowsStay
        <4>1. cStreams' = IF i \in DOMAIN cStreams
                          THEN [cStreams EXCEPT ![i] = IF end THEN C!RecvEndStream(cStreams[i])
                                                       ELSE cStreams[i]]
                          ELSE cStreams
          BY <3>1, Typed DEF C!RecvHeaders, C!CoreTypeOK
        <4> QED
          BY <4>1, Typed, Assumptions, C!StateOnly, C!OneStateWindows
             DEF ClientAssumptions, C!CoreTypeOK
      <3>5. ClientAlone'
        BY <3>2, <3>3, Typed, StillAlone, ClientSteps DEF LinkInv
      <3> QED
        BY <3>2, <3>3, <3>4, <3>5 DEF ClientStill
    <2>4. CASE f.type = "RST_STREAM" /\ Client!RecvRstStream(i)
      <3>1. C!RecvRstStream(i)
        BY <2>4, ClientActions
      <3>2. C!Next
        BY <1>4, <2>4, <3>1 DEF C!Next, C!Recv, C!Receives, AnyFrame
      <3>3. /\ cTransport' = cTransport /\ cRemote' = cRemote
            /\ cSock' = cSock /\ cWriteBuf' = cWriteBuf /\ C!HandleRstStream(i)
        BY <3>1 DEF C!RecvRstStream, C!CanReceive, C!output, C!HandleRstStream
      <3>4. C!CountersStay /\ C!WindowsStay
        BY <3>3, Typed, Assumptions, C!RstStreamEffect DEF ClientAssumptions
      <3>5. ClientAlone'
        BY <3>2, <3>3, <3>4, Typed, StillAlone, ClientSteps DEF LinkInv
      <3> QED
        BY <3>2, <3>3, <3>4, <3>5 DEF ClientStill
    <2>5. CASE f.type = "GOAWAY" /\ Client!RecvGoAway
      <3>1. C!RecvGoAway
        BY <2>5, ClientActions
      <3>2. C!Next
        BY <3>1 DEF C!Next, C!Recv, C!Receives, AnyFrame
      <3>3. /\ cTransport' = cTransport /\ cRemote' = cRemote
            /\ cSock' = cSock /\ cWriteBuf' = cWriteBuf /\ ClientStill
        BY <3>1 DEF C!RecvGoAway, C!HandleGoAway, C!CanReceive, C!output, C!history,
                    ClientStill, C!CountersStay, C!WindowsStay
      <3>4. ClientAlone'
        BY <3>2, <3>3, Typed, StillAlone, ClientSteps DEF LinkInv, ClientStill
      <3> QED
        BY <3>2, <3>3, <3>4
    <2> QED
      BY <1>1, <1>6, <2>1, <2>2, <2>3, <2>4, <2>5 DEF ClientTakes
  <1> QED
    BY <1>1, <1>2, <1>5 DEF Ends, ClientTakesPlain
-------------------------------------------------------------------------------
\* The client opens a stream, and the server does when its HEADERS arrive.
ClientOpens ==
    /\ ServerStill /\ C!CountersStay /\ sWriteBuf' = sWriteBuf
    /\ \E f \in FrameType :
          /\ f.type = "HEADERS" /\ f.id # 0 /\ f.id \notin DOMAIN cStreams
          /\ cSock' = Append(cSock, f)
          /\ DOMAIN cStreams' = DOMAIN cStreams \cup {f.id}
          /\ cStreams'[f.id].sendWindow = DefaultWindow
          /\ cStreams'[f.id].recvWindow = DefaultWindow
          /\ \A j \in DOMAIN cStreams : cStreams'[j] = cStreams[j]

ServerOpens ==
    /\ ClientStill /\ S!CountersStay /\ sWriteBuf' = sWriteBuf
    /\ cSock # <<>> /\ cSock[1].type = "HEADERS" /\ cSock' = Tail(cSock)
    /\ cSock[1].id \notin DOMAIN sStreams /\ cSock[1].id \in DOMAIN cStreams
    /\ DOMAIN sStreams' = DOMAIN sStreams \cup {cSock[1].id}
    /\ sStreams'[cSock[1].id].sendWindow = DefaultWindow
    /\ sStreams'[cSock[1].id].recvWindow = DefaultWindow
    /\ \A j \in DOMAIN sStreams : sStreams'[j] = sStreams[j]

\* A request is written into the client's byte stream.
LEMMA AskMove ==
    ASSUME LinkInv, Ask
    PROVE  /\ Ends /\ ClientOpens /\ cNextStreamId' = cNextStreamId + 2
  <1>1. PICK end \in BOOLEAN : end = (Body(<<"up", cNextStreamId>>) = 0)
    OBVIOUS
  <1>2. C!StartRequest(end) /\ UNCHANGED serverVars
    BY <1>1, ClientActions DEF Ask
  <1>3. C!Next
    BY <1>2 DEF C!Next, C!Call
  <1>4. ServerAlone' /\ ServerStill /\ UNCHANGED S!vars
    BY <1>2, ServerRests DEF LinkInv
  <1>5. PICK i : i = C!NewStreamId
    OBVIOUS
  <1>6. i = cNextStreamId /\ i \notin DOMAIN cEnded /\ i \notin DOMAIN cStreams
        /\ cNextStreamId' = cNextStreamId + 2
    BY <1>2, <1>5, Assumptions, C!NewIdUnused DEF ClientAssumptions, LinkInv, ClientAlone
  <1>7. i \in C!U31 \ {0}
    BY <1>2, <1>5, Assumptions, C!NewStreamIdType
       DEF ClientAssumptions, LinkInv, ClientAlone, C!TypeOK, C!StartRequest
  <1>8. PICK stream : stream = C!NewStream(cRemote.initialWindow)
    OBVIOUS
  <1>9. stream.sendWindow = DefaultWindow /\ stream.recvWindow = DefaultWindow
    <2>1. stream.sendWindow = cRemote.initialWindow /\ stream.recvWindow = cRemote.initialWindow
      BY <1>1, <1>8, Typed, Assumptions, C!WholeWindows DEF ClientAssumptions
    <2>2. cRemote.initialWindow = DefaultWindow
      BY DEF LinkInv, ClientAlone, LocalSettings
    <2> QED
      BY <2>1, <2>2
  <1>10. PICK ends : C!OpenStream(i, stream, ends)
    BY <1>2, <1>5, <1>8 DEF C!StartRequest
  <1>11. /\ DOMAIN cStreams' = DOMAIN cStreams \cup {i} /\ cStreams'[i] = stream
         /\ \A j \in DOMAIN cStreams \ {i} : cStreams'[j] = cStreams[j]
         /\ cSent'[0] = cSent[0] /\ cCredit'[0] = cCredit[0]
    BY <1>7, <1>10, Typed, Assumptions, C!OpenEffect DEF ClientAssumptions
  <1>12. C!CountersStay /\ cRemote' = cRemote /\ cTransport' = cTransport
    BY <1>2, <1>11 DEF C!StartRequest, C!CountersStay
  <1> DEFINE f == C!Frame("HEADERS", i, 0, end)
  <1>13. C!Emit(f)
    BY <1>2, <1>5 DEF C!StartRequest
  <1>14. f \in FrameType /\ f.type = "HEADERS" /\ f.id = i /\ i # 0
    BY <1>7, <1>1 DEF C!Frame, FrameType, C!FrameType
  <1> HIDE DEF f
  <1>15. cSock' = Append(cSock, f) /\ cWriteBuf' = <<>>
    <2>1. DataIn(f) <= MaxTraffic
      BY <1>14, LinkConstants DEF DataIn
    <2> QED
      BY <1>13, <1>14, <2>1, Typed, ClientEmits
  <1>16. ClientAlone'
    BY <1>3, <1>12, <1>15, StillAlone, ClientSteps DEF LinkInv
  <1>17. ClientOpens
    BY <1>2, <1>4, <1>6, <1>9, <1>11, <1>12, <1>14, <1>15 DEF ClientOpens, serverVars
  <1> QED
    BY <1>3, <1>4, <1>6, <1>16, <1>17 DEF Ends

\* The server takes a request: it has not seen its id.
LEMMA RequestMove ==
    ASSUME LinkInv, ToServer, cSock[1].type = "HEADERS"
    PROVE  Ends /\ ServerOpens
  <1>1. /\ C!Next /\ ClientAlone' /\ ClientStill /\ cSock # <<>> /\ cSock' = Tail(cSock)
        /\ cSock[1] \in FrameType /\ Sound(cSock[1]) /\ ServerTakes(cSock[1]) /\ 1 \in DOMAIN cSock
    BY ClientGives
  <1>2. PICK i, end : i = cSock[1].id /\ end = cSock[1].end
    OBVIOUS
  <1>3. end \in BOOLEAN /\ i \in U31 \ {0} /\ i \in DOMAIN cStreams
    <2>1. cSock[1].id \in U31 /\ cSock[1].end \in BOOLEAN
      BY <1>1 DEF FrameType, C!FrameType, U31, C!U31
    <2>2. cSock[1].id # 0
      BY <1>1 DEF Sound
    <2>3. cSock[1].id \in DOMAIN cStreams
      BY <1>1 DEF LinkInv, StreamsKnown, Opening, Answering
    <2> QED
      BY <1>2, <2>1, <2>2, <2>3
  <1>4. S!RecvRequest(i, end)
    BY <1>1, <1>2, ServerActions DEF ServerTakes
  <1>5. S!Next
    BY <1>3, <1>4 DEF S!Next, S!Recv
  <1>6. i \notin DOMAIN sStreams
    <2>1. i > sLastClientStreamId
      BY <1>4 DEF S!RecvRequest, S!ValidNewId
    <2>2. sLastClientStreamId \in Nat /\ i \in Nat
      BY <1>3, LinkConstants DEF LinkInv, ServerAlone, S!TypeOK, S!U31, U31
    <2>3. DOMAIN sStreams \subseteq DOMAIN sEnded
      BY Typed DEF S!CoreTypeOK
    <2>4. i \in DOMAIN sEnded => i <= sLastClientStreamId
      BY DEF LinkInv, ServerAlone, S!IdsRemembered
    <2> QED
      BY <2>1, <2>2, <2>3, <2>4
  <1>7. PICK stream, ends :
           /\ S!OpenStream(i, stream, ends)
           /\ stream \in {S!NewStream(sRemote.initialWindow),
                          S!RecvEndStream(S!NewStream(sRemote.initialWindow))}
    BY <1>4 DEF S!RecvRequest
  <1>8. stream.sendWindow = DefaultWindow /\ stream.recvWindow = DefaultWindow
    <2>1. stream.sendWindow = sRemote.initialWindow /\ stream.recvWindow = sRemote.initialWindow
      BY <1>3, <1>7, Typed, Assumptions, S!WholeWindows DEF ServerAssumptions
    <2>2. sRemote.initialWindow = DefaultWindow
      BY DEF LinkInv, ServerAlone, LocalSettings
    <2> QED
      BY <2>1, <2>2
  <1>9. /\ DOMAIN sStreams' = DOMAIN sStreams \cup {i} /\ sStreams'[i] = stream
        /\ \A j \in DOMAIN sStreams \ {i} : sStreams'[j] = sStreams[j]
        /\ sSent'[0] = sSent[0] /\ sCredit'[0] = sCredit[0]
    <2>1. i \in S!U31 \ {0}
      BY <1>3 DEF U31, S!U31
    <2> QED
      BY <1>7, <2>1, Typed, Assumptions, S!OpenEffect DEF ServerAssumptions
  <1>10. S!CountersStay /\ sRemote' = sRemote /\ sWriteBuf' = sWriteBuf
    BY <1>4, <1>9 DEF S!RecvRequest, S!CountersStay
  <1>11. ServerAlone'
    BY <1>5, <1>10, StillAlone, ServerSteps DEF LinkInv
  <1>12. ServerOpens
    BY <1>1, <1>2, <1>3, <1>6, <1>8, <1>9, <1>10 DEF ServerOpens
  <1> QED
    BY <1>1, <1>5, <1>11, <1>12 DEF Ends
-------------------------------------------------------------------------------
\* An end sends n bytes on the stream i: its counter and its window take them both.
ClientSends(i, n) ==
    /\ ServerStill /\ sWriteBuf' = sWriteBuf
    /\ cSent'[0] = cSent[0] + n /\ cCredit'[0] = cCredit[0] /\ cRcvd' = cRcvd
    /\ cGranted' = cGranted /\ cFlow'.consumed = cFlow.consumed + n
    /\ DOMAIN cStreams' = DOMAIN cStreams
    /\ \A j \in DOMAIN cStreams : cStreams'[j].recvWindow = cStreams[j].recvWindow
    /\ \A j \in DOMAIN cStreams \ {i} : cStreams'[j].sendWindow = cStreams[j].sendWindow
    /\ n <= cStreams[i].sendWindow
    /\ cStreams'[i].sendWindow = cStreams[i].sendWindow - n
    /\ \E f \in FrameType : /\ f.type = "DATA" /\ f.id = i /\ f.n = n
                            /\ f.id # 0 /\ n <= DefaultMaxFrame
                            /\ cSock' = Append(cSock, f)

ServerSends(i, n) ==
    /\ ClientStill /\ cSock' = cSock
    /\ sSent'[0] = sSent[0] + n /\ sCredit'[0] = sCredit[0] /\ sRcvd' = sRcvd
    /\ sGranted' = sGranted /\ sFlow'.consumed = sFlow.consumed + n
    /\ DOMAIN sStreams' = DOMAIN sStreams
    /\ \A j \in DOMAIN sStreams : sStreams'[j].recvWindow = sStreams[j].recvWindow
    /\ \A j \in DOMAIN sStreams \ {i} : sStreams'[j].sendWindow = sStreams[j].sendWindow
    /\ n <= sStreams[i].sendWindow
    /\ sStreams'[i].sendWindow = sStreams[i].sendWindow - n
    /\ \E f \in FrameType : /\ f.type = "DATA" /\ f.id = i /\ f.n = n
                            /\ f.id # 0 /\ n <= DefaultMaxFrame
                            /\ sWriteBuf' = Append(sWriteBuf, f)

\* The ids of the exchanges, and the bodies they have.
LEMMA Bodies ==
    ASSUME NEW i \in Ids
    PROVE  /\ i \in U31 \ {0} /\ i \in Nat
           /\ <<"up", i>> \in Up \cup Down /\ <<"down", i>> \in Up \cup Down
           /\ Body(<<"up", i>>) \in Nat /\ Body(<<"down", i>>) \in Nat
  <1>1. PICK k \in DOMAIN Requests : i = 2 * k - 1
    BY DEF Ids
  <1>2. k \in 1 .. Len(Requests) /\ Requests[k] \in [up: Nat, down: Nat]
    <2>1. Requests \in Seq([up: Nat, down: Nat])
      BY LinkAssumption
    <2> QED
      BY <1>1, <2>1, LenProperties
  <1>3. (i + 1) \div 2 = k
    BY <1>1, <1>2, LinkConstants
  <1>4. i \in U31 \ {0} /\ i \in Nat
    BY <1>1, <1>2, LinkConstants DEF U31
  <1> QED
    BY <1>2, <1>3, <1>4 DEF Up, Down, Body

\* What the applications have left to send is a number of bytes.
LEMMA LeftType ==
    ASSUME BodiesKept, NEW d \in Up \cup Down, ~Finished(said[d])
    PROVE  Left(d) \in Nat /\ said[d] \in Seq({"headers", "byte", "end", "reset"})
  <1>1. Body(d) \in Nat
    <2>1. PICK i \in Ids : d = <<"up", i>> \/ d = <<"down", i>>
      BY DEF Up, Down
    <2> QED
      BY <2>1, Bodies
  <1>2. said[d] \in Seq({"headers", "byte", "end", "reset"}) /\ Len(said[d]) <= Body(d) + 1
    BY DEF BodiesKept
  <1>3. Len(said[d]) \in Nat
    BY <1>2, LenProperties
  <1> QED
    BY <1>1, <1>2, <1>3 DEF Left

\* What goes into one frame of the client's is no more than it was asked for,
\* than its windows allow and than the server takes.
LEMMA ClientSendsLess ==
    ASSUME LinkInv, NEW i \in DOMAIN cStreams, NEW len \in Nat
    PROVE  /\ Client!ToSend(i, len) = C!ToSend(i, len)
           /\ C!ToSend(i, len) \in U31 /\ C!ToSend(i, len) <= len
           /\ C!ToSend(i, len) <= C!Available(i) /\ C!ToSend(i, len) <= DefaultMaxFrame
           /\ C!ToSend(i, C!ToSend(i, len)) = C!ToSend(i, len)
  <1>1. Client!ToSend(i, len) = C!ToSend(i, len)
    BY DEF Client!ToSend, C!ToSend, Client!Lesser, C!Lesser, Client!Available, C!Available,
           Client!AsUSize, C!AsUSize
  <1>2. PICK a \in Nat : a = C!Available(i)
    BY Typed, Assumptions, C!AvailableFacts DEF ClientAssumptions
  <1>3. cRemote.maxFrame = DefaultMaxFrame
    BY DEF LinkInv, ClientAlone, LocalSettings
  <1>4. PICK n : n = C!ToSend(i, len)
    OBVIOUS
  <1>5. n \in Nat /\ n <= len /\ n <= a /\ n <= DefaultMaxFrame
    BY <1>2, <1>3, <1>4, LinkConstants DEF C!ToSend, C!Lesser
  <1>6. C!ToSend(i, n) = n
    BY <1>2, <1>3, <1>5, LinkConstants DEF C!ToSend, C!Lesser
  <1>7. n \in U31
    BY <1>5, LinkConstants DEF U31
  <1> QED
    BY <1>1, <1>2, <1>4, <1>5, <1>6, <1>7

\* The same of the server, whose frames the windows alone limit.
LEMMA ServerSendsLess ==
    ASSUME LinkInv, NEW i \in DOMAIN sStreams, NEW len \in Nat
    PROVE  /\ Server!ToSend(i, len) = S!ToSend(i, len)
           /\ S!ToSend(i, len) \in Nat /\ S!ToSend(i, len) <= len
           /\ S!ToSend(i, len) <= S!Available(i)
  <1>1. Server!ToSend(i, len) = S!ToSend(i, len)
    BY DEF Server!ToSend, S!ToSend, Server!Lesser, S!Lesser, Server!Available, S!Available,
           Server!AsUSize, S!AsUSize
  <1>2. PICK a \in Nat : a = S!Available(i)
    BY Typed, Assumptions, S!AvailableFacts DEF ServerAssumptions
  <1> QED
    BY <1>1, <1>2 DEF S!ToSend, S!Lesser

\* DATA is written into the client's byte stream.
LEMMA UploadMove ==
    ASSUME TrafficFits, LinkInv, NEW i \in Ids, Upload(i)
    PROVE  /\ Ends /\ i \in DOMAIN cStreams
           /\ \E n \in Nat : ClientSends(i, n)
  <1> DEFINE d == <<"up", i>>
  <1>1. PICK l \in Nat : l = Left(d)
    BY Bodies, LeftType DEF LinkInv, Upload
  <1>2. C!SendData(i, l, TRUE) /\ UNCHANGED serverVars
    BY <1>1, ClientActions DEF Upload
  <1>3. i \in DOMAIN cStreams
    BY <1>2 DEF C!SendData
  <1>4. PICK n \in U31 : n = C!ToSend(i, l)
    BY <1>1, <1>3, ClientSendsLess
  <1>5. n <= C!Available(i) /\ n <= DefaultMaxFrame /\ C!ToSend(i, n) = n
    BY <1>1, <1>3, <1>4, ClientSendsLess
  <1>6. PICK isEnd \in BOOLEAN : isEnd = (TRUE /\ n = l)
    OBVIOUS
  <1> HIDE DEF d
  <1>7. /\ cSent[0] + cRcvd + n <= MaxTraffic /\ C!SendOn(i, n, isEnd)
        /\ C!Emit(C!Frame("DATA", i, n, isEnd))
        /\ cTransport' = cTransport /\ cNextStreamId' = cNextStreamId /\ (n = 0 => l = 0)
    BY <1>2, <1>4, <1>6 DEF C!SendData
  <1>8. C!SendData(i, n, isEnd)
    BY <1>3, <1>5, <1>7 DEF C!SendData
  <1>9. C!Next
    BY <1>3, <1>8 DEF C!Next, C!Call
  <1>10. ServerAlone' /\ ServerStill /\ UNCHANGED S!vars
    BY <1>2, ServerRests DEF LinkInv
  <1>11. /\ cSent'[0] = cSent[0] + n /\ cCredit' = cCredit /\ cRcvd' = cRcvd /\ cGranted' = cGranted
         /\ cFlow'.consumed = cFlow.consumed + n
         /\ DOMAIN cStreams' = DOMAIN cStreams
         /\ \A j \in DOMAIN cStreams : cStreams'[j].recvWindow = cStreams[j].recvWindow
         /\ \A j \in DOMAIN cStreams \ {i} : cStreams'[j].sendWindow = cStreams[j].sendWindow
         /\ n <= cStreams[i].sendWindow
         /\ cStreams'[i].sendWindow = cStreams[i].sendWindow - n
    <2>1. n \in C!U31
      BY DEF U31, C!U31
    <2>2. cStreams[i].sendWindow >= 0
      BY <1>3 DEF LinkInv, StreamWindows
    <2> QED
      BY <1>3, <1>5, <1>7, <2>1, <2>2, Typed, CreditFits, Assumptions, C!SendEffect
         DEF ClientAssumptions
  <1>12. cRemote' = cRemote
    BY <1>7 DEF C!SendOn
  <1>15. n \in Nat /\ cSent[0] \in Nat /\ cRcvd \in Nat /\ MaxTraffic \in Nat
    BY Typed, LinkConstants DEF U31
  <1> DEFINE f == C!Frame("DATA", i, n, isEnd)
  <1>13. f \in FrameType /\ f.type = "DATA" /\ f.id = i /\ f.n = n /\ i # 0
    BY <1>15, Bodies, LinkConstants DEF C!Frame, FrameType, C!FrameType, U31, C!U31
  <1>14. C!Emit(f)
    BY <1>7
  <1> HIDE DEF f
  <1>16. n <= MaxTraffic /\ cSent'[0] + cRcvd' <= MaxTraffic /\ cGranted' <= cSent'[0] + cRcvd'
    <2>1. cGranted <= cSent[0] + cRcvd /\ cGranted \in Nat
      BY Typed DEF LinkInv, ClientAlone
    <2> QED
      BY <1>7, <1>11, <1>15, <2>1
  <1>17. cSock' = Append(cSock, f) /\ cWriteBuf' = <<>>
    <2>1. DataIn(f) <= MaxTraffic
      BY <1>13, <1>16 DEF DataIn
    <2> QED
      BY <1>13, <1>14, <2>1, Typed, ClientEmits
  <1>18. ClientAlone'
    BY <1>7, <1>9, <1>12, <1>16, <1>17, ClientSteps DEF LinkInv
  <1>19. ClientSends(i, n)
    BY <1>2, <1>5, <1>10, <1>11, <1>13, <1>17 DEF ClientSends, serverVars
  <1> QED
    BY <1>3, <1>9, <1>10, <1>15, <1>18, <1>19 DEF Ends

\* DATA is written into the server's byte stream.
LEMMA RespondMove ==
    ASSUME TrafficFits, LinkInv, NEW i \in Ids, Respond(i)
    PROVE  /\ Ends /\ i \in DOMAIN sStreams
           /\ \E n \in Nat : ServerSends(i, n)
  <1> DEFINE d == <<"down", i>>
  <1>1. Left(d) \in Nat
    BY Bodies, LeftType DEF LinkInv, Respond
  <1>2. PICK len : len = Server!Lesser(Left(d), sRemote.maxFrame)
    OBVIOUS
  <1>3. len \in U31 /\ len \in Nat /\ len <= DefaultMaxFrame
    <2>1. sRemote.maxFrame = DefaultMaxFrame
      BY DEF LinkInv, ServerAlone, LocalSettings
    <2> QED
      BY <1>1, <1>2, <2>1, LinkConstants DEF Server!Lesser, U31
  <1>4. PICK end \in BOOLEAN : end = (len = Left(d))
    OBVIOUS
  <1>5. S!SendData(i, len, end) /\ UNCHANGED clientVars
    BY <1>2, <1>4, ServerActions DEF Respond
  <1> HIDE DEF d
  <1>6. i \in DOMAIN sStreams
    BY <1>5 DEF S!SendData
  <1>7. S!Next
    BY <1>3, <1>5, <1>6 DEF S!Next, S!Call
  <1>8. PICK n \in Nat : n = S!ToSend(i, len)
    BY <1>3, <1>6, ServerSendsLess
  <1>9. n <= S!Available(i) /\ n <= DefaultMaxFrame /\ n \in U31
    <2>1. n <= S!Available(i) /\ n <= len
      BY <1>3, <1>6, <1>8, ServerSendsLess
    <2> QED
      BY <1>3, <2>1, LinkConstants DEF U31
  <1>10. PICK isEnd \in BOOLEAN : isEnd = (end /\ n = len)
    OBVIOUS
  <1>11. /\ sSent[0] + sRcvd + n <= MaxTraffic /\ S!SendOn(i, n, isEnd)
         /\ sWriteBuf' = Append(sWriteBuf, S!Frame("DATA", i, n, isEnd))
    BY <1>5, <1>8, <1>10 DEF S!SendData, S!Emit
  <1>12. ClientAlone' /\ ClientStill /\ UNCHANGED C!vars
    BY <1>5, ClientRests DEF LinkInv
  <1>13. /\ sSent'[0] = sSent[0] + n /\ sCredit' = sCredit /\ sRcvd' = sRcvd /\ sGranted' = sGranted
         /\ sFlow'.consumed = sFlow.consumed + n
         /\ DOMAIN sStreams' = DOMAIN sStreams
         /\ \A j \in DOMAIN sStreams : sStreams'[j].recvWindow = sStreams[j].recvWindow
         /\ \A j \in DOMAIN sStreams \ {i} : sStreams'[j].sendWindow = sStreams[j].sendWindow
         /\ n <= sStreams[i].sendWindow
         /\ sStreams'[i].sendWindow = sStreams[i].sendWindow - n
    <2>1. n \in S!U31
      BY <1>9 DEF U31, S!U31
    <2>2. sStreams[i].sendWindow >= 0
      BY <1>6 DEF LinkInv, StreamWindows, StreamsKnown, Opening
    <2> QED
      BY <1>6, <1>9, <1>11, <2>1, <2>2, Typed, CreditFits, Assumptions, S!SendEffect
         DEF ServerAssumptions
  <1>14. sRemote' = sRemote
    BY <1>11 DEF S!SendOn
  <1> DEFINE f == S!Frame("DATA", i, n, isEnd)
  <1>15. f \in FrameType /\ f.type = "DATA" /\ f.id = i /\ f.n = n /\ i # 0
    BY Bodies, LinkConstants DEF S!Frame, FrameType, C!FrameType, U31, C!U31
  <1>16. sWriteBuf' = Append(sWriteBuf, f)
    BY <1>11
  <1> HIDE DEF f
  <1>17. sSent'[0] + sRcvd' <= MaxTraffic /\ sGranted' <= sSent'[0] + sRcvd'
    <2>1. sGranted <= sSent[0] + sRcvd /\ sGranted \in Nat /\ sSent[0] \in Nat /\ sRcvd \in Nat
      BY Typed DEF LinkInv, ServerAlone
    <2> QED
      BY <1>11, <1>13, <2>1, LinkConstants
  <1>18. ServerAlone'
    BY <1>7, <1>14, <1>17, ServerSteps DEF LinkInv
  <1>19. ServerSends(i, n)
    BY <1>5, <1>9, <1>12, <1>13, <1>15, <1>16 DEF ServerSends, clientVars
  <1> QED
    BY <1>6, <1>7, <1>12, <1>18, <1>19 DEF Ends
-------------------------------------------------------------------------------
\* The credit that an end gives back.
Refill(f) == f \in FrameType /\ f.type = "WINDOW_UPDATE" /\ f.id = 0 /\ f.n \in U31 \ {0}

\* DATA arrives: the counter is below the threshold afterwards, for what was withheld
\* is given back otherwise.
ServerTakesData ==
    LET i == cSock[1].id
        n == cSock[1].n
    IN /\ ClientStill /\ cSock # <<>> /\ cSock[1].type = "DATA" /\ cSock' = Tail(cSock)
       /\ sSent'[0] = sSent[0] /\ sCredit'[0] = sCredit[0] /\ sRcvd' = sRcvd + n
       /\ sFlow'.consumed < DefaultWindow \div 2
       /\ \/ sWriteBuf' = sWriteBuf /\ sGranted' = sGranted
          \/ \E g : Refill(g) /\ sGranted' = sGranted + g.n /\ sWriteBuf' = Append(sWriteBuf, g)
       /\ i \in DOMAIN sStreams /\ DOMAIN sStreams' = DOMAIN sStreams
       /\ \A j \in DOMAIN sStreams : sStreams'[j].sendWindow = sStreams[j].sendWindow
       /\ \A j \in DOMAIN sStreams \ {i} : sStreams'[j].recvWindow = sStreams[j].recvWindow
       /\ sStreams'[i].recvWindow = sStreams[i].recvWindow - n

ClientTakesData ==
    LET i == sWriteBuf[1].id
        n == sWriteBuf[1].n
    IN /\ ServerStill /\ sWriteBuf # <<>> /\ sWriteBuf[1].type = "DATA"
       /\ sWriteBuf' = Tail(sWriteBuf)
       /\ cSent'[0] = cSent[0] /\ cCredit'[0] = cCredit[0] /\ cRcvd' = cRcvd + n
       /\ cFlow'.consumed < DefaultWindow \div 2
       /\ \/ cSock' = cSock /\ cGranted' = cGranted
          \/ \E g : Refill(g) /\ cGranted' = cGranted + g.n /\ cSock' = Append(cSock, g)
       /\ i \in DOMAIN sStreams /\ i \in DOMAIN cStreams /\ DOMAIN cStreams' = DOMAIN cStreams
       /\ \A j \in DOMAIN cStreams : cStreams'[j].sendWindow = cStreams[j].sendWindow
       /\ \A j \in DOMAIN cStreams \ {i} : cStreams'[j].recvWindow = cStreams[j].recvWindow
       /\ cStreams'[i].recvWindow = cStreams[i].recvWindow - n

\* What arrives on a stream is within the window that the receiver has for it.
LEMMA RecvWindows ==
    ASSUME LinkInv, NEW i \in DOMAIN sStreams
    PROVE  i \in DOMAIN cStreams /\ sStreams[i].recvWindow >= 0 /\ cStreams[i].recvWindow >= 0
  <1>1. i \in DOMAIN cStreams
    BY DEF LinkInv, StreamsKnown, Opening, Answering
  <1>2. PICK x \in Nat, y \in Nat : /\ x = InFlight(cSock, "DATA", i)
                                   /\ y = InFlight(sWriteBuf, "DATA", i)
    BY Typed, UnderWayType
  <1>3. sStreams[i].recvWindow \in Int /\ cStreams[i].recvWindow \in Int
    <2>1. cStreams[i] \in C!StreamType /\ sStreams[i] \in S!StreamType
      BY <1>1, Typed DEF C!CoreTypeOK, S!CoreTypeOK
    <2>2. cStreams[i].recvWindow \in C!I32 /\ sStreams[i].recvWindow \in S!I32
      BY <2>1 DEF C!StreamType, S!StreamType
    <2> QED
      BY <2>2 DEF C!I32, S!I32
  <1>4. /\ cStreams[i].sendWindow >= 0 /\ cStreams[i].sendWindow = sStreams[i].recvWindow - x
        /\ sStreams[i].sendWindow >= 0 /\ sStreams[i].sendWindow = cStreams[i].recvWindow - y
    BY <1>1, <1>2 DEF LinkInv, StreamWindows
  <1>5. sStreams[i].recvWindow - x >= 0 /\ cStreams[i].recvWindow - y >= 0
    BY <1>4
  <1>6. PICK a \in Int, b \in Int : a = sStreams[i].recvWindow /\ b = cStreams[i].recvWindow
    BY <1>3
  <1>7. a >= 0 /\ b >= 0
    BY <1>2, <1>5, <1>6
  <1> QED
    BY <1>1, <1>6, <1>7

\* The server takes DATA of a stream that it has.
LEMMA ServerDataMove ==
    ASSUME TrafficFits, LinkInv, ToServer, cSock[1].type = "DATA"
    PROVE  Ends /\ ServerTakesData
  <1>1. /\ C!Next /\ ClientAlone' /\ ClientStill /\ cSock # <<>> /\ cSock' = Tail(cSock)
        /\ cSock[1] \in FrameType /\ Sound(cSock[1]) /\ ServerTakes(cSock[1]) /\ 1 \in DOMAIN cSock
    BY ClientGives
  <1>2. PICK i, n, end : i = cSock[1].id /\ n = cSock[1].n /\ end = cSock[1].end
    OBVIOUS
  <1>3. end \in BOOLEAN /\ i \in U31 \ {0} /\ n \in Nat /\ n <= DefaultMaxFrame
    <2>1. cSock[1].id \in U31 /\ cSock[1].end \in BOOLEAN /\ cSock[1].n \in Nat
      BY <1>1 DEF FrameType, C!FrameType, U31, C!U31
    <2>2. cSock[1].id # 0 /\ cSock[1].n <= DefaultMaxFrame
      BY <1>1 DEF Sound
    <2> QED
      BY <1>2, <2>1, <2>2
  <1>4. i \in DOMAIN sStreams
    BY <1>1, <1>2 DEF LinkInv, StreamsKnown, Opening, Answering
  <1>5. S!RecvData(i, n, end)
    BY <1>1, <1>2, ServerActions DEF ServerTakes
  <1>6. S!Next
    <2>1. n \in 0 .. DefaultMaxFrame
      BY <1>3, LinkConstants
    <2> QED
      BY <1>3, <1>5, <2>1 DEF S!Next, S!Recv, S!Receives, AnyFrame
  <1>16. PICK deliver \in BOOLEAN : deliver = TRUE
    OBVIOUS
  <1>7. S!HandleData(i, n, end, deliver) /\ sSent[0] + sRcvd + n <= MaxTraffic
    BY <1>5, <1>16 DEF S!RecvData
  <1>8. i \in S!U31 /\ n \in S!U31 /\ sSent[0] + sRcvd + n <= I32Max
    <2>1. sSent[0] + sRcvd + n \in Nat
      BY <1>3, Typed
    <2>2. DefaultWindow + MaxTraffic <= I32Max
      BY DEF TrafficFits
    <2> QED
      BY <1>3, <1>7, <2>1, <2>2, LinkConstants DEF U31, S!U31
  <1>9. /\ sSent' = sSent /\ sCredit' = sCredit /\ sRcvd' = sRcvd + n
        /\ sFlow'.consumed < DefaultWindow \div 2
        /\ \/ ~S!UpdateDue(n) /\ sGranted' = sGranted
           \/ /\ S!UpdateDue(n) /\ S!Increment(n) \in S!U31 \ {0}
              /\ sGranted' = sGranted + S!Increment(n)
              /\ sGranted' = sSent[0] + sRcvd'
        /\ DOMAIN sStreams' = DOMAIN sStreams
        /\ \A j \in DOMAIN sStreams : sStreams'[j].sendWindow = sStreams[j].sendWindow
        /\ \A j \in DOMAIN sStreams \ {i} : sStreams'[j].recvWindow = sStreams[j].recvWindow
        /\ i \in DOMAIN sStreams /\ sStreams[i].recvWindow >= 0 =>
              sStreams'[i].recvWindow = sStreams[i].recvWindow - n
    <2>1. /\ S!CoreTypeOK /\ S!Ledger /\ DefaultWindow + sCredit[0] <= I32Max
          /\ i \in S!U31 /\ n \in S!U31 /\ end \in BOOLEAN /\ deliver \in BOOLEAN
          /\ S!HandleData(i, n, end, deliver) /\ sSent[0] + sRcvd + n <= I32Max
      BY <1>3, <1>7, <1>8, Typed, CreditFits
    <2>2. /\ S!MachineIntAssumption /\ S!FlowControlAssumption /\ S!EndpointAssumption
          /\ S!ServerConnectionAssumption
      BY Assumptions DEF ServerAssumptions
    <2> QED
      BY <2>1, <2>2, S!DataEffect
  <1>10. sStreams'[i].recvWindow = sStreams[i].recvWindow - n
    BY <1>4, <1>9, RecvWindows
  <1>11. \/ sWriteBuf' = sWriteBuf /\ sGranted' = sGranted
         \/ \E g : Refill(g) /\ sGranted' = sGranted + g.n /\ sWriteBuf' = Append(sWriteBuf, g)
    <2>1. CASE ~S!UpdateDue(n)
      BY <1>5, <1>9, <2>1 DEF S!RecvData
    <2>2. CASE S!UpdateDue(n)
      <3> DEFINE g == S!Frame("WINDOW_UPDATE", 0, S!Increment(n), FALSE)
      <3>1. S!Increment(n) \in U31 \ {0} /\ sGranted' = sGranted + S!Increment(n)
        BY <1>9, <2>2 DEF U31, S!U31
      <3>2. Refill(g) /\ g.n = S!Increment(n)
        <4>1. S!Increment(n) \in Nat /\ 0 \in U31
          BY <3>1, LinkConstants DEF U31
        <4> QED
          BY <3>1, <4>1 DEF S!Frame, Refill, FrameType, C!FrameType, U31, C!U31
      <3>3. sWriteBuf' = Append(sWriteBuf, g)
        BY <1>5, <2>2 DEF S!RecvData, S!Emit
      <3> HIDE DEF g
      <3> QED
        BY <3>1, <3>2, <3>3
    <2> QED
      BY <2>1, <2>2
  <1>12. sRemote' = sRemote
    BY <1>7 DEF S!HandleData
  <1>13. sSent'[0] + sRcvd' <= MaxTraffic /\ sGranted' <= sSent'[0] + sRcvd'
    <2>1. sGranted <= sSent[0] + sRcvd /\ sGranted \in Nat /\ sSent[0] \in Nat /\ sRcvd \in Nat
      BY Typed DEF LinkInv, ServerAlone
    <2>2. sSent'[0] = sSent[0] /\ sRcvd' = sRcvd + n
          /\ (sGranted' = sGranted \/ sGranted' = sSent[0] + sRcvd')
      BY <1>9
    <2> QED
      BY <1>3, <1>7, <2>1, <2>2, LinkConstants
  <1>14. ServerAlone'
    BY <1>6, <1>12, <1>13, ServerSteps DEF LinkInv
  <1>15. ServerTakesData
    BY <1>1, <1>2, <1>4, <1>9, <1>10, <1>11 DEF ServerTakesData
  <1> QED
    BY <1>1, <1>6, <1>14, <1>15 DEF Ends

\* The client takes DATA of a stream that both have.
LEMMA ClientDataMove ==
    ASSUME TrafficFits, LinkInv, ToClient, sWriteBuf[1].type = "DATA"
    PROVE  Ends /\ ClientTakesData
  <1>1. /\ S!Next /\ ServerAlone' /\ ServerStill /\ sWriteBuf # <<>> /\ sWriteBuf' = Tail(sWriteBuf)
        /\ sWriteBuf[1] \in FrameType /\ Sound(sWriteBuf[1]) /\ ClientTakes(sWriteBuf[1])
        /\ 1 \in DOMAIN sWriteBuf
    BY ServerGives
  <1>2. PICK i, n, end : i = sWriteBuf[1].id /\ n = sWriteBuf[1].n /\ end = sWriteBuf[1].end
    OBVIOUS
  <1>3. end \in BOOLEAN /\ i \in U31 \ {0} /\ n \in Nat /\ n <= DefaultMaxFrame
    <2>1. sWriteBuf[1].id \in U31 /\ sWriteBuf[1].end \in BOOLEAN /\ sWriteBuf[1].n \in Nat
      BY <1>1 DEF FrameType, C!FrameType, U31, C!U31
    <2>2. sWriteBuf[1].id # 0 /\ sWriteBuf[1].n <= DefaultMaxFrame
      BY <1>1 DEF Sound
    <2> QED
      BY <1>2, <2>1, <2>2
  <1>4. i \in DOMAIN sStreams /\ i \in DOMAIN cStreams
    BY <1>1, <1>2 DEF LinkInv, StreamsKnown, Opening, Answering
  <1>5. C!RecvData(i, n, end)
    BY <1>1, <1>2, ClientActions DEF ClientTakes
  <1>6. C!Next
    <2>1. n \in 0 .. DefaultMaxFrame
      BY <1>3, LinkConstants
    <2> QED
      BY <1>3, <1>5, <2>1 DEF C!Next, C!Recv, C!Receives, AnyFrame
  <1>16. PICK deliver \in BOOLEAN : deliver = (C!UpdateDue(n) => cTransport = "Ready")
    OBVIOUS
  <1>7. /\ C!HandleData(i, n, end, deliver) /\ cSent[0] + cRcvd + n <= MaxTraffic
        /\ cTransport' = cTransport
    BY <1>5, <1>16 DEF C!RecvData, C!CanReceive
  <1>8. i \in C!U31 /\ n \in C!U31 /\ cSent[0] + cRcvd + n <= I32Max
    <2>1. cSent[0] + cRcvd + n \in Nat
      BY <1>3, Typed
    <2>2. DefaultWindow + MaxTraffic <= I32Max
      BY DEF TrafficFits
    <2> QED
      BY <1>3, <1>7, <2>1, <2>2, LinkConstants DEF U31, C!U31
  <1>9. /\ cSent' = cSent /\ cCredit' = cCredit /\ cRcvd' = cRcvd + n
        /\ cFlow'.consumed < DefaultWindow \div 2
        /\ \/ ~C!UpdateDue(n) /\ cGranted' = cGranted
           \/ /\ C!UpdateDue(n) /\ C!Increment(n) \in C!U31 \ {0}
              /\ cGranted' = cGranted + C!Increment(n)
              /\ cGranted' = cSent[0] + cRcvd'
        /\ DOMAIN cStreams' = DOMAIN cStreams
        /\ \A j \in DOMAIN cStreams : cStreams'[j].sendWindow = cStreams[j].sendWindow
        /\ \A j \in DOMAIN cStreams \ {i} : cStreams'[j].recvWindow = cStreams[j].recvWindow
        /\ i \in DOMAIN cStreams /\ cStreams[i].recvWindow >= 0 =>
              cStreams'[i].recvWindow = cStreams[i].recvWindow - n
    <2>1. /\ C!CoreTypeOK /\ C!Ledger /\ DefaultWindow + cCredit[0] <= I32Max
          /\ i \in C!U31 /\ n \in C!U31 /\ end \in BOOLEAN /\ deliver \in BOOLEAN
          /\ C!HandleData(i, n, end, deliver) /\ cSent[0] + cRcvd + n <= I32Max
      BY <1>3, <1>7, <1>8, Typed, CreditFits
    <2>2. /\ C!MachineIntAssumption /\ C!FlowControlAssumption /\ C!EndpointAssumption
          /\ C!ConnectionAssumption
      BY Assumptions DEF ClientAssumptions
    <2> QED
      BY <2>1, <2>2, C!DataEffect
  <1>10. cStreams'[i].recvWindow = cStreams[i].recvWindow - n
    BY <1>4, <1>9, RecvWindows
  <1>11. /\ cWriteBuf' = <<>>
         /\ \/ cSock' = cSock /\ cGranted' = cGranted
            \/ \E g : Refill(g) /\ cGranted' = cGranted + g.n /\ cSock' = Append(cSock, g)
    <2>1. CASE ~C!UpdateDue(n)
      BY <1>5, <1>9, <2>1, Typed DEF C!RecvData, C!output
    <2>2. CASE C!UpdateDue(n)
      <3> DEFINE g == C!Frame("WINDOW_UPDATE", 0, C!Increment(n), FALSE)
      <3>1. C!Increment(n) \in U31 \ {0} /\ cGranted' = cGranted + C!Increment(n)
        BY <1>9, <2>2 DEF U31, C!U31
      <3>2. Refill(g) /\ g.n = C!Increment(n)
        <4>1. C!Increment(n) \in Nat /\ 0 \in U31
          BY <3>1, LinkConstants DEF U31
        <4> QED
          BY <3>1, <4>1 DEF C!Frame, Refill, FrameType, C!FrameType, U31, C!U31
      <3>3. C!Emit(g)
        BY <1>5, <2>2 DEF C!RecvData
      <3> HIDE DEF g
      <3>4. cSock' = Append(cSock, g) /\ cWriteBuf' = <<>>
        <4>1. g \in FrameType /\ DataIn(g) <= MaxTraffic
          BY <3>2, LinkConstants DEF Refill, DataIn
        <4> QED
          BY <3>3, <4>1, Typed, ClientEmits
      <3> QED
        BY <3>1, <3>2, <3>4
    <2> QED
      BY <2>1, <2>2
  <1>12. cRemote' = cRemote
    BY <1>7 DEF C!HandleData
  <1>13. cSent'[0] + cRcvd' <= MaxTraffic /\ cGranted' <= cSent'[0] + cRcvd'
    <2>1. cGranted <= cSent[0] + cRcvd /\ cGranted \in Nat /\ cSent[0] \in Nat /\ cRcvd \in Nat
      BY Typed DEF LinkInv, ClientAlone
    <2>2. cSent'[0] = cSent[0] /\ cRcvd' = cRcvd + n
          /\ (cGranted' = cGranted \/ cGranted' = cSent[0] + cRcvd')
      BY <1>9
    <2> QED
      BY <1>3, <1>7, <2>1, <2>2, LinkConstants
  <1>14. ClientAlone'
    BY <1>6, <1>7, <1>11, <1>12, <1>13, ClientSteps DEF LinkInv
  <1>15. ClientTakesData
    BY <1>1, <1>2, <1>4, <1>9, <1>10, <1>11 DEF ClientTakesData
  <1> QED
    BY <1>1, <1>6, <1>14, <1>15 DEF Ends
-------------------------------------------------------------------------------
\* Credit for the connection arrives.
ServerCredited ==
    /\ ClientStill /\ S!WindowsStay /\ sWriteBuf' = sWriteBuf
    /\ cSock # <<>> /\ cSock[1].type = "WINDOW_UPDATE" /\ cSock' = Tail(cSock)
    /\ sSent'[0] = sSent[0] /\ sCredit'[0] = sCredit[0] + cSock[1].n /\ sRcvd' = sRcvd
    /\ sGranted' = sGranted /\ sFlow'.consumed = sFlow.consumed

ClientCredited ==
    /\ ServerStill /\ C!WindowsStay /\ cSock' = cSock
    /\ sWriteBuf # <<>> /\ sWriteBuf[1].type = "WINDOW_UPDATE" /\ sWriteBuf' = Tail(sWriteBuf)
    /\ cSent'[0] = cSent[0] /\ cCredit'[0] = cCredit[0] + sWriteBuf[1].n /\ cRcvd' = cRcvd
    /\ cGranted' = cGranted /\ cFlow'.consumed = cFlow.consumed

\* The credit under way fits the window that it is for.
LEMMA CreditAccepted ==
    ASSUME TrafficFits, LinkInv
    PROVE  /\ cSock # <<>> /\ cSock[1].type = "WINDOW_UPDATE"
                 => S!CanIncrease(sFlow.window, cSock[1].n)
           /\ sWriteBuf # <<>> /\ sWriteBuf[1].type = "WINDOW_UPDATE"
                 => C!CanIncrease(cFlow.window, sWriteBuf[1].n)
  <1>1. ASSUME cSock # <<>>, cSock[1].type = "WINDOW_UPDATE"
        PROVE  S!CanIncrease(sFlow.window, cSock[1].n)
    <2>1. /\ cSock[1] \in FrameType /\ Tail(cSock) \in Seq(FrameType)
          /\ Credits(cSock) = CreditIn(cSock[1]) + Credits(Tail(cSock))
      BY <1>1, Typed, FrameTaken
    <2>2. Credits(Tail(cSock)) \in Nat
      BY <2>1, UnderWayType
    <2>3. CreditIn(cSock[1]) = cSock[1].n /\ cSock[1].n \in Nat
      BY <1>1, <2>1 DEF CreditIn, FrameType, C!FrameType
    <2>4. cGranted = sCredit[0] + Credits(cSock)
      BY DEF LinkInv, AccountsAgree
    <2>5. sFlow.window = DefaultWindow + sCredit[0] - sFlow.consumed
      BY Typed, CreditFits DEF S!Ledger, S!ConnLedger
    <2>6. PICK n, r, g, c, m \in Nat :
             /\ n = cSock[1].n /\ r = Credits(Tail(cSock)) /\ g = cGranted
             /\ c = sCredit[0] /\ m = sFlow.consumed
      BY <2>2, <2>3, Typed
    <2>7. g = c + (n + r) /\ DefaultWindow + g <= I32Max
      BY <2>1, <2>3, <2>4, <2>6, CreditFits
    <2>8. (DefaultWindow + c - m) + n <= I32Max
      BY <2>7, LinkConstants
    <2> QED
      BY <2>5, <2>6, <2>8 DEF S!CanIncrease
  <1>2. ASSUME sWriteBuf # <<>>, sWriteBuf[1].type = "WINDOW_UPDATE"
        PROVE  C!CanIncrease(cFlow.window, sWriteBuf[1].n)
    <2>1. /\ sWriteBuf[1] \in FrameType /\ Tail(sWriteBuf) \in Seq(FrameType)
          /\ Credits(sWriteBuf) = CreditIn(sWriteBuf[1]) + Credits(Tail(sWriteBuf))
      BY <1>2, Typed, FrameTaken
    <2>2. Credits(Tail(sWriteBuf)) \in Nat
      BY <2>1, UnderWayType
    <2>3. CreditIn(sWriteBuf[1]) = sWriteBuf[1].n /\ sWriteBuf[1].n \in Nat
      BY <1>2, <2>1 DEF CreditIn, FrameType, C!FrameType
    <2>4. sGranted = cCredit[0] + Credits(sWriteBuf)
      BY DEF LinkInv, AccountsAgree
    <2>5. cFlow.window = DefaultWindow + cCredit[0] - cFlow.consumed
      BY Typed, CreditFits DEF C!Ledger, C!ConnLedger
    <2>6. PICK n, r, g, c, m \in Nat :
             /\ n = sWriteBuf[1].n /\ r = Credits(Tail(sWriteBuf)) /\ g = sGranted
             /\ c = cCredit[0] /\ m = cFlow.consumed
      BY <2>2, <2>3, Typed
    <2>7. g = c + (n + r) /\ DefaultWindow + g <= I32Max
      BY <2>1, <2>3, <2>4, <2>6, CreditFits
    <2>8. (DefaultWindow + c - m) + n <= I32Max
      BY <2>7, LinkConstants
    <2> QED
      BY <2>5, <2>6, <2>8 DEF C!CanIncrease
  <1> QED
    BY <1>1, <1>2

\* The server is credited.
LEMMA ServerCreditMove ==
    ASSUME TrafficFits, LinkInv, ToServer, cSock[1].type = "WINDOW_UPDATE"
    PROVE  Ends /\ ServerCredited
  <1>1. /\ C!Next /\ ClientAlone' /\ ClientStill /\ cSock # <<>> /\ cSock' = Tail(cSock)
        /\ cSock[1] \in FrameType /\ Sound(cSock[1]) /\ ServerTakes(cSock[1])
    BY ClientGives
  <1>2. PICK n : n = cSock[1].n
    OBVIOUS
  <1>3. cSock[1].id = 0 /\ n \in U31 \ {0} /\ n \in S!U31
    BY <1>1, <1>2 DEF Sound, U31, S!U31
  <1>4. S!RecvWindowUpdate(0, n)
    BY <1>1, <1>2, <1>3, ServerActions DEF ServerTakes
  <1>5. S!Next
    BY <1>3, <1>4 DEF S!Next, S!Recv, S!Receives, AnyFrame
  <1>6. 0 \notin DOMAIN sStreams
    BY Typed DEF S!CoreTypeOK
  <1>7. ~S!RejectCredit(0, n)
    BY <1>1, <1>2, <1>6, CreditAccepted DEF S!RejectCredit
  <1>8. S!CreditConnection(n) /\ sWriteBuf' = sWriteBuf
    BY <1>4, <1>6, <1>7 DEF S!RecvWindowUpdate
  <1>9. /\ sCredit'[0] = sCredit[0] + n /\ sFlow'.consumed = sFlow.consumed
        /\ sSent' = sSent /\ sRcvd' = sRcvd /\ sGranted' = sGranted /\ sStreams' = sStreams
    BY <1>3, <1>8, Typed, Assumptions, S!CreditEffect DEF ServerAssumptions
  <1>10. sRemote' = sRemote
    BY <1>8 DEF S!CreditConnection
  <1>11. sSent'[0] + sRcvd' <= MaxTraffic /\ sGranted' <= sSent'[0] + sRcvd'
    BY <1>9 DEF LinkInv, ServerAlone
  <1>12. ServerAlone'
    BY <1>5, <1>10, <1>11, ServerSteps DEF LinkInv
  <1>13. ServerCredited
    BY <1>1, <1>2, <1>8, <1>9 DEF ServerCredited, S!WindowsStay
  <1> QED
    BY <1>1, <1>5, <1>12, <1>13 DEF Ends

\* The client is credited.
LEMMA ClientCreditMove ==
    ASSUME TrafficFits, LinkInv, ToClient, sWriteBuf[1].type = "WINDOW_UPDATE"
    PROVE  Ends /\ ClientCredited
  <1>1. /\ S!Next /\ ServerAlone' /\ ServerStill /\ sWriteBuf # <<>> /\ sWriteBuf' = Tail(sWriteBuf)
        /\ sWriteBuf[1] \in FrameType /\ Sound(sWriteBuf[1]) /\ ClientTakes(sWriteBuf[1])
    BY ServerGives
  <1>2. PICK n : n = sWriteBuf[1].n
    OBVIOUS
  <1>3. sWriteBuf[1].id = 0 /\ n \in U31 \ {0} /\ n \in C!U31
    BY <1>1, <1>2 DEF Sound, U31, C!U31
  <1>4. C!RecvWindowUpdate(0, n)
    BY <1>1, <1>2, <1>3, ClientActions DEF ClientTakes
  <1>5. C!Next
    BY <1>3, <1>4 DEF C!Next, C!Recv, C!Receives, AnyFrame
  <1>6. 0 \notin DOMAIN cStreams
    BY Typed DEF C!CoreTypeOK
  <1>7. ~C!RejectCredit(0, n)
    BY <1>1, <1>2, <1>6, CreditAccepted DEF C!RejectCredit
  <1>8. /\ C!CreditConnection(n) /\ cSock' = cSock /\ cWriteBuf' = cWriteBuf
        /\ cTransport' = cTransport
    BY <1>4, <1>6, <1>7 DEF C!RecvWindowUpdate, C!output, C!CanReceive
  <1>9. /\ cCredit'[0] = cCredit[0] + n /\ cFlow'.consumed = cFlow.consumed
        /\ cSent' = cSent /\ cRcvd' = cRcvd /\ cGranted' = cGranted /\ cStreams' = cStreams
    BY <1>3, <1>8, Typed, Assumptions, C!CreditEffect DEF ClientAssumptions
  <1>10. cRemote' = cRemote
    BY <1>8 DEF C!CreditConnection
  <1>11. cSent'[0] + cRcvd' <= MaxTraffic /\ cGranted' <= cSent'[0] + cRcvd'
    BY <1>9 DEF LinkInv, ClientAlone
  <1>12. ClientAlone'
    BY <1>5, <1>8, <1>10, <1>11, Typed, ClientSteps DEF LinkInv
  <1>13. ClientCredited
    BY <1>1, <1>2, <1>8, <1>9 DEF ClientCredited, C!WindowsStay
  <1> QED
    BY <1>1, <1>5, <1>12, <1>13 DEF Ends

\* All the ways in which a step changes accounts, windows and byte streams.
Moves ==
    \/ ClientWrites \/ ServerWrites \/ ServerTakesPlain \/ ClientTakesPlain
    \/ ClientOpens \/ ServerOpens
    \/ \E i \in DOMAIN cStreams, n \in Nat : ClientSends(i, n)
    \/ \E i \in DOMAIN sStreams, n \in Nat : ServerSends(i, n)
    \/ ServerTakesData \/ ClientTakesData \/ ServerCredited \/ ClientCredited

\* Every step is one of these, and a step of a Connection and a ServerConnection.
LEMMA NextMoves ==
    ASSUME TrafficFits, LinkInv, [Next]_vars
    PROVE  Ends /\ Moves
  <1>1. CASE Next
    <2>1. CASE \E i \in Ids : Answer(i) \/ Reset(i)
      BY <2>1, ServerCallMoves DEF Moves
    <2>2. CASE GoAway
      BY <2>2, GoAwayMove DEF Moves
    <2>3. CASE \E i \in Ids : Upload(i) \/ Respond(i)
      BY <2>3, UploadMove, RespondMove DEF Moves
    <2>4. CASE ToServer
      BY <2>4, ServerPlainMoves, RequestMove, ServerDataMove, ServerCreditMove DEF Moves
    <2>5. CASE ToClient
      BY <2>5, ClientPlainMoves, ClientDataMove, ClientCreditMove DEF Moves
    <2>6. CASE ClientReady \/ Ask \/ ClientPolls \/ ServerPolls
      BY <2>6, ReadyMove, AskMove, PollMoves DEF Moves
    <2> QED
      BY <1>1, <2>1, <2>2, <2>3, <2>4, <2>5, <2>6 DEF Next, Work, Refuse
  <1>2. CASE UNCHANGED vars
    <2>1. UNCHANGED clientVars /\ UNCHANGED serverVars
      BY <1>2 DEF vars
    <2>2. /\ ClientAlone' /\ ClientStill /\ UNCHANGED C!vars
          /\ ServerAlone' /\ ServerStill /\ UNCHANGED S!vars
      BY <2>1, ClientRests, ServerRests DEF LinkInv
    <2> QED
      BY <2>1, <2>2 DEF Ends, Moves, ClientWrites, clientVars, serverVars
  <1> QED
    BY <1>1, <1>2
===============================================================================
