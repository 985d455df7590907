---------------------------------- MODULE Link ---------------------------------
(***************************************************************************)
(* A client and a server of this library, joined by two byte streams that  *)
(* neither lose nor reorder, with the applications and the drivers around  *)
(* them.                                                                   *)
(*                                                                         *)
(* What one end has ready to be sent is the stream towards the other: a    *)
(* step of the driver takes the first frame from there (pending_send,      *)
(* advance_send) and feeds it to the other end (feed_data).                *)
(*                                                                         *)
(* The client's application starts the requests one after another and      *)
(* uploads their bodies; the server's answers what it has been told of,    *)
(* and may reset a stream or send GOAWAY.                                  *)
(***************************************************************************)
EXTENDS Integers, Sequences

CONSTANTS
    I32Max, USizeMod, DefaultWindow, DefaultMaxFrame, DefaultMaxConcurrent,
    MaxTraffic, MaxCredit, MaxQueue, MaxEvents,
    Requests,       \* the exchanges: bytes up, in the request, and down, in the answer
    Refusals        \* what the server's application may do besides answering

ASSUME LinkAssumption ==
    /\ \E h \in 0 .. I32Max : I32Max = 2 * h + 1
    /\ USizeMod \in Nat /\ USizeMod > 4 * (I32Max + 1)
    /\ DefaultWindow \in 2 .. I32Max
    /\ DefaultMaxFrame \in 1 .. I32Max
    /\ DefaultMaxConcurrent \in Nat
    /\ {MaxTraffic, MaxCredit, MaxQueue, MaxEvents} \subseteq Nat
    /\ Requests \in Seq([up: Nat, down: Nat])
    /\ Refusals \subseteq {"RESET", "GOAWAY"}
    /\ 2 * Len(Requests) <= I32Max

VARIABLES
    cState, cGotSettings, cStreams, cFlow, cRemote, cWriteBuf, cEvents,
    cSent, cCredit, cRcvd, cGranted, cDelivered, cEnded,
    cTransport, cNextStreamId, cSock

VARIABLES
    sState, sGotSettings, sStreams, sFlow, sRemote, sWriteBuf, sEvents,
    sSent, sCredit, sRcvd, sGranted, sDelivered, sEnded,
    sPreface, sLastClientStreamId, sAnnounced

(***************************************************************************)
(* The message of each direction of each stream as the two applications    *)
(* see it: what the one has handed over and what the other was told.       *)
(***************************************************************************)
VARIABLES said, heard

\* What the code announces to its peer: the defaults.
LocalSettings == [initialWindow |-> DefaultWindow, maxFrame |-> DefaultMaxFrame,
                  maxConcurrent |-> DefaultMaxConcurrent]

Client == INSTANCE Connection WITH
    state <- cState, gotSettings <- cGotSettings, streams <- cStreams, flow <- cFlow,
    remote <- cRemote, writeBuf <- cWriteBuf, events <- cEvents, sent <- cSent,
    credit <- cCredit, rcvd <- cRcvd, granted <- cGranted, delivered <- cDelivered,
    ended <- cEnded, transport <- cTransport, nextStreamId <- cNextStreamId, sock <- cSock,
    PeerFrames <- {}, PeerSettings <- {LocalSettings}, PeerLens <- {}, PeerIncrements <- {},
    PeerIds <- {}, PeerEnds <- {}, AppLens <- {}, AppEnds <- {},
    InitTransport <- "Ready", WriteLimit <- MaxTraffic, Failures <- {},
    MaxRequests <- Len(Requests)

Server == INSTANCE ServerConnection WITH
    state <- sState, gotSettings <- sGotSettings, streams <- sStreams, flow <- sFlow,
    remote <- sRemote, writeBuf <- sWriteBuf, events <- sEvents, sent <- sSent,
    credit <- sCredit, rcvd <- sRcvd, granted <- sGranted, delivered <- sDelivered,
    ended <- sEnded, preface <- sPreface, lastClientStreamId <- sLastClientStreamId,
    announced <- sAnnounced,
    PeerFrames <- {}, PeerSettings <- {LocalSettings}, PeerLens <- {}, PeerIncrements <- {},
    PeerIds <- {}, PeerEnds <- {}, AppLens <- {}, AppEnds <- {}, AppCalls <- {}

clientVars ==
    <<cState, cGotSettings, cStreams, cFlow, cRemote, cWriteBuf, cEvents, cSent, cCredit,
      cRcvd, cGranted, cDelivered, cEnded, cTransport, cNextStreamId, cSock>>
serverVars ==
    <<sState, sGotSettings, sStreams, sFlow, sRemote, sWriteBuf, sEvents, sSent, sCredit,
      sRcvd, sGranted, sDelivered, sEnded, sPreface, sLastClientStreamId, sAnnounced>>

vars == <<clientVars, serverVars, said, heard>>

Ids   == {2 * k - 1 : k \in DOMAIN Requests}
Up    == {"up"} \X Ids
Down  == {"down"} \X Ids
Body(d) == Requests[(d[2] + 1) \div 2][d[1]]

Init ==
    /\ Client!Init
    /\ Server!Init
    /\ said = [d \in Up \cup Down |-> <<>>]
    /\ heard = [d \in Up \cup Down |-> <<>>]
-------------------------------------------------------------------------------
(***************************************************************************)
(* A message is a sequence of parts: its headers, the bytes of its body,   *)
(* and its end, or a reset in place of what is missing.                    *)
(***************************************************************************)
Bytes(n)    == [k \in 1 .. n |-> "byte"]
EndPart(end) == IF end THEN <<"end">> ELSE <<>>

Begun(msg)    == msg # <<>>
EndsIn(msg, closing) == msg # <<>> /\ msg[Len(msg)] \in closing
Finished(msg) == EndsIn(msg, {"end", "reset"})
Left(d)       == Body(d) + 1 - Len(said[d])

Say(d, parts) == said' = [said EXCEPT ![d] = @ \o parts]

Parts(frame) ==
    CASE frame.type = "HEADERS"    -> <<"headers">> \o EndPart(frame.end)
      [] frame.type = "DATA"       -> Bytes(frame.n) \o EndPart(frame.end)
      [] frame.type = "RST_STREAM" -> <<"reset">>
      [] OTHER                     -> <<>>
Hear(way, frame) ==
    heard' = IF frame.id \in Ids
             THEN [heard EXCEPT ![<<way, frame.id>>] = @ \o Parts(frame)] ELSE heard

(***************************************************************************)
(* The applications.                                                       *)
(***************************************************************************)
ClientReady == Client!OnTransportReady /\ UNCHANGED <<serverVars, said, heard>>

Ask ==
    LET d == <<"up", cNextStreamId>> IN
    /\ cNextStreamId \in Ids
    /\ Client!StartRequest(Body(d) = 0)
    /\ Say(d, <<"headers">> \o EndPart(Body(d) = 0))
    /\ UNCHANGED <<serverVars, heard>>

\* send_data with all that is left, to send as much of it as goes.
Upload(i) ==
    LET d == <<"up", i>>
        n == Client!ToSend(i, Left(d))
    IN /\ Begun(said[d]) /\ ~Finished(said[d])
       /\ ~EndsIn(heard[<<"down", i>>], {"reset"})
       /\ Client!SendData(i, Left(d), TRUE)
       /\ Say(d, Bytes(n) \o EndPart(n = Left(d)))
       /\ UNCHANGED <<serverVars, heard>>

\* The requests that a Request event has told of.
Known(i) == /\ i \in DOMAIN sEnded
            /\ \A k \in DOMAIN sEvents : sEvents[k].id # i \/ sEvents[k].type # "Request"

Answer(i) ==
    LET d == <<"down", i>> IN
    /\ Known(i) /\ ~Begun(said[d])
    /\ Server!SendHeaders(i, Body(d) = 0)
    /\ Say(d, <<"headers">> \o EndPart(Body(d) = 0))
    /\ UNCHANGED <<clientVars, heard>>

\* As much as one frame of the client's takes: send_data does not look at that.
Respond(i) ==
    LET d   == <<"down", i>>
        len == Server!Lesser(Left(d), sRemote.maxFrame)
        n   == Server!ToSend(i, len)
    IN /\ Begun(said[d]) /\ ~Finished(said[d])
       /\ Server!SendData(i, len, len = Left(d))
       /\ Say(d, Bytes(n) \o EndPart(n = Left(d)))
       /\ UNCHANGED <<clientVars, heard>>

Reset(i) ==
    LET d == <<"down", i>> IN
    /\ "RESET" \in Refusals
    /\ Known(i) /\ ~Finished(said[d])
    /\ Server!SendReset(i)
    /\ Say(d, <<"reset">>)
    /\ UNCHANGED <<clientVars, heard>>

GoAway ==
    /\ "GOAWAY" \in Refusals
    /\ sAnnounced = -1 /\ sGotSettings
    /\ Server!SendGoAway
    /\ UNCHANGED <<clientVars, said, heard>>

ClientPolls == Client!PollEvents /\ UNCHANGED <<serverVars, said, heard>>
ServerPolls == Server!PollEvents /\ UNCHANGED <<clientVars, said, heard>>

(***************************************************************************)
(* The drivers: one frame from one end to the other.                       *)
(***************************************************************************)
ServerTakes(frame) ==
    \/ frame.type = "PREFACE"       /\ Server!RecvPreface
    \/ frame.type = "SETTINGS"      /\ Server!RecvSettings(LocalSettings)
    \/ frame.type = "SETTINGS_ACK"  /\ UNCHANGED serverVars
    \/ frame.type = "HEADERS"       /\ Server!RecvRequest(frame.id, frame.end)
    \/ frame.type = "DATA"          /\ Server!RecvData(frame.id, frame.n, frame.end)
    \/ frame.type = "WINDOW_UPDATE" /\ Server!RecvWindowUpdate(frame.id, frame.n)

ClientTakes(frame) ==
    \/ frame.type = "SETTINGS"      /\ Client!RecvSettings(LocalSettings)
    \/ frame.type = "SETTINGS_ACK"  /\ UNCHANGED clientVars
    \/ frame.type = "HEADERS"       /\ Client!RecvHeaders(frame.id, frame.end)
    \/ frame.type = "DATA"          /\ Client!RecvData(frame.id, frame.n, frame.end)
    \/ frame.type = "WINDOW_UPDATE" /\ Client!RecvWindowUpdate(frame.id, frame.n)
    \/ frame.type = "RST_STREAM"    /\ Client!RecvRstStream(frame.id)
    \/ frame.type = "GOAWAY"        /\ Client!RecvGoAway

ToServer ==
    /\ Client!AdvanceSend
    /\ ServerTakes(Head(cSock))
    /\ Hear("up", Head(cSock))
    /\ UNCHANGED said

\* The server's frames; the client answers some of them into its own stream.
ToClient ==
    /\ Server!AdvanceSend
    /\ ClientTakes(Head(sWriteBuf))
    /\ Hear("down", Head(sWriteBuf))
    /\ UNCHANGED said

Quiet == cSock = <<>> /\ sWriteBuf = <<>>

\* What the applications and the drivers do without a reason to refuse.
Work ==
    \/ ClientReady \/ Ask \/ ClientPolls \/ ServerPolls
    \/ \E i \in Ids : Upload(i) \/ Answer(i) \/ Respond(i)
    \/ ToServer \/ ToClient

Refuse == GoAway \/ \E i \in Ids : Reset(i)

Next == Work \/ Refuse

(***************************************************************************)
(* A driver's loop feeds what arrives, polls, and writes what is pending;  *)
(* an application takes up what it was told of, and calls again what       *)
(* returned WouldBlock or was done in part.  All that is assumed of them   *)
(* is that they do not all stop while one of them has something to do.     *)
(***************************************************************************)
Spec == Init /\ [][Next]_vars /\ WF_vars(Work)
-------------------------------------------------------------------------------
\* The sum of a sequence of numbers.
Sum(numbers) ==
    LET upTo[k \in 0 .. Len(numbers)] == IF k = 0 THEN 0 ELSE upTo[k - 1] + numbers[k]
    IN upTo[Len(numbers)]

\* What frames of one type carry on stream i, of those under way.
InFlight(stream, type, i) ==
    Sum([k \in DOMAIN stream |-> IF stream[k].type = type /\ stream[k].id = i
                                  THEN stream[k].n ELSE 0])

\* Sender and receiver of each direction of each stream agree on its window,
\* but for the DATA under way.
StreamWindowsAgree ==
    \A i \in DOMAIN cStreams \cap DOMAIN sStreams :
        /\ cStreams[i].sendWindow = sStreams[i].recvWindow - InFlight(cSock, "DATA", i)
        /\ sStreams[i].sendWindow = cStreams[i].recvWindow - InFlight(sWriteBuf, "DATA", i)

\* The ledger of each end is exact under what the other end really does: its
\* sends, its refills and the traffic of the other direction.
LedgersExact == Client!ConnLedger /\ Server!ConnLedger

\* Each end withholds credit up to its threshold, and takes what it withholds
\* out of its own send window as well.  Still, when nothing is under way both
\* ends see the same connection window, and more than half of it is left: the
\* two never wait for each other.
ConnectionWindowsAgree ==
    Quiet => cFlow.window = sFlow.window /\ cFlow.window > DefaultWindow \div 2

\* Each direction of each stream delivers the message as it was handed over:
\* every byte once and in order, and its end only after all of it.
Promise == INSTANCE Exchange
MessagesArrive == Promise!Spec

\* Every request is answered, though the bodies together exceed the windows
\* that they share, and though the server goes away after it arrived.
RequestsAnswered ==
    \A i \in Ids : Begun(said[<<"up", i>>]) ~> Finished(heard[<<"down", i>>])

\* The server has all of a request, unless it gave it up.
UploadsArrive ==
    \A i \in Ids : Begun(said[<<"up", i>>]) ~>
        EndsIn(heard[<<"up", i>>], {"end"}) \/ EndsIn(heard[<<"down", i>>], {"reset"})
===============================================================================
