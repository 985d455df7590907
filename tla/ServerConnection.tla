--------------------------- MODULE ServerConnection ---------------------------
(***************************************************************************)
(* connection/server.rs: the HTTP/2 server connection.  It owns no         *)
(* transport: write_buf is its output, which the driver takes with         *)
(* pending_send and advance_send, and nothing it does can fail to write.   *)
(*                                                                         *)
(* The client is open, as the peer of Connection is.                       *)
(***************************************************************************)
EXTENDS Endpoint

CONSTANT AppCalls   \* the calls the application makes besides send_data

ASSUME ServerConnectionAssumption == AppCalls \subseteq {"HEADERS", "GOAWAY", "RESET", "REMOVE"}

VARIABLES
    preface,            \* "Got" is got_preface; "Invalid": read_buf starts with other bytes
    lastClientStreamId,
    announced           \* history: last_stream_id of the newest GOAWAY sent, or -1

vars == <<core, writeBuf, history, preface, lastClientStreamId, announced>>

TypeOK ==
    /\ EndpointTypeOK
    /\ preface \in {"Awaited", "Got", "Invalid"}
    /\ lastClientStreamId \in U31
    /\ announced \in U31 \cup {-1}

Init ==
    /\ EndpointInit
    /\ preface = "Awaited"
    /\ lastClientStreamId = 0
    /\ announced = -1
-------------------------------------------------------------------------------
Emit(frame) == Len(writeBuf) < MaxQueue /\ writeBuf' = Append(writeBuf, frame)

\* process, when 24 bytes are there: they are the preface.
RecvPreface ==
    /\ preface = "Awaited"
    /\ preface' = "Got"
    /\ state' = "WaitingSettings"
    /\ Emit(Frame("SETTINGS", 0, 0, FALSE))
    /\ UNCHANGED <<gotSettings, streams, flow, remote, events, history,
                   lastClientStreamId, announced>>

\* They are not: they stay in read_buf, and every call of process says so again.
RecvBadPreface ==
    /\ preface \in {"Awaited", "Invalid"}
    /\ preface' = "Invalid"
    /\ EventRoom
    /\ HandleError(0)
    /\ UNCHANGED <<writeBuf, lastClientStreamId, announced>>

\* process_frames
CanReceive == preface = "Got" /\ UNCHANGED <<preface, announced>>

RecvSettings(s) ==
    /\ CanReceive
    /\ gotSettings \/ EventRoom
    /\ HandleSettings(s)
    /\ Emit(Frame("SETTINGS_ACK", 0, 0, FALSE))
    /\ UNCHANGED lastClientStreamId

RecvPing ==
    /\ CanReceive
    /\ Emit(Frame("PING_ACK", 0, 0, FALSE))
    /\ UNCHANGED <<core, history, lastClientStreamId>>

RecvGoAway ==
    CanReceive /\ EventRoom /\ HandleGoAway /\ UNCHANGED <<writeBuf, lastClientStreamId>>

RecvWindowUpdate(i, increment) ==
    /\ CanReceive
    /\ UNCHANGED <<writeBuf, lastClientStreamId>>
    /\ \/ i = 0 /\ credit[0] + increment <= MaxCredit /\ CreditConnection(increment)
       \/ i \in DOMAIN streams /\ credit[i] + increment <= MaxCredit /\ CreditStream(i, increment)
       \/ EventRoom /\ RejectCredit(i, increment)

ValidNewId(i) == i % 2 = 1 /\ i > lastClientStreamId

\* SEEDED FAULT: the id is checked but not remembered.
RecvRequestForgetsId(i, end) ==
    LET stream == NewStream(remote.initialWindow)
    IN /\ CanReceive /\ EventRoom
       /\ ValidNewId(i)
       /\ OpenStream(i, IF end THEN RecvEndStream(stream) ELSE stream, EndMark(end, "remote"))
       /\ Push("Request", i)
       /\ UNCHANGED <<state, gotSettings, flow, remote, writeBuf, rcvd, granted, delivered,
                      lastClientStreamId>>

\* handle_headers of a request.  The state is not consulted: requests are
\* accepted before SETTINGS and while draining.
RecvRequest(i, end) ==
    LET stream == NewStream(remote.initialWindow)
    IN /\ CanReceive /\ EventRoom
       /\ ValidNewId(i)
       /\ lastClientStreamId' = i
       /\ OpenStream(i, IF end THEN RecvEndStream(stream) ELSE stream, EndMark(end, "remote"))
       /\ Push("Request", i)
       /\ UNCHANGED <<state, gotSettings, flow, remote, writeBuf, rcvd, granted, delivered>>

\* handle_headers, where HPACK rejects the block: the id is used up.
RecvBadRequest(i) ==
    /\ CanReceive /\ EventRoom
    /\ ValidNewId(i)
    /\ lastClientStreamId' = i
    /\ HandleError(i)
    /\ UNCHANGED writeBuf

\* handle_headers of an even or used id.  Trailers, the second HEADERS of a
\* stream, are among these, and with them the END_STREAM they carry.
RecvOldHeaders(i, end) ==
    /\ CanReceive /\ EventRoom
    /\ ~ValidNewId(i)
    /\ HandleRefused(i, end, i)
    /\ UNCHANGED <<writeBuf, lastClientStreamId>>

RecvData(i, len, end) ==
    /\ CanReceive /\ EventRoom
    /\ sent[0] + rcvd + len <= MaxTraffic
    /\ HandleData(i, len, end, TRUE)
    /\ IF UpdateDue(len) THEN Emit(Frame("WINDOW_UPDATE", 0, Increment(len), FALSE))
                         ELSE UNCHANGED writeBuf
    /\ UNCHANGED lastClientStreamId

RecvRstStream(i) ==
    CanReceive /\ EventRoom /\ HandleRstStream(i) /\ UNCHANGED <<writeBuf, lastClientStreamId>>

\* PUSH_PROMISE, a stray CONTINUATION, or a frame the decoder rejects and consumes.
RecvBadFrame(i, end) ==
    /\ CanReceive /\ EventRoom
    /\ HandleRefused(i, end, 0)
    /\ UNCHANGED <<writeBuf, lastClientStreamId>>
-------------------------------------------------------------------------------
(***************************************************************************)
(* Calls of the application.  None of them looks at the state.             *)
(***************************************************************************)
own == <<preface, lastClientStreamId, announced>>

\* SEEDED FAULT: END_STREAM on response headers is not recorded.
SendHeadersNoEnd(i, end) ==
    /\ i \in DOMAIN streams
    /\ UNCHANGED streams
    /\ Mark(i, EndMark(end, "local"))
    /\ Emit(Frame("HEADERS", i, 0, end))
    /\ UNCHANGED <<state, gotSettings, flow, remote, events,
                   sent, credit, rcvd, granted, delivered, own>>

SendHeaders(i, end) ==
    /\ i \in DOMAIN streams
    /\ streams' = [streams EXCEPT ![i] = IF end THEN SendEndStream(@) ELSE @]
    /\ Mark(i, EndMark(end, "local"))
    /\ Emit(Frame("HEADERS", i, 0, end))
    /\ UNCHANGED <<state, gotSettings, flow, remote, events,
                   sent, credit, rcvd, granted, delivered, own>>

\* Unlike the client's, the length of a DATA frame has no limit but the windows.
ToSend(i, len) == Lesser(len, Available(i))

\* SEEDED FAULT: END_STREAM goes out with whatever part was sent.
SendDataEndsEarly(i, len, end) ==
    LET n == ToSend(i, len)
    IN /\ i \in DOMAIN streams
       /\ n = 0 => len = 0
       /\ sent[0] + rcvd + n <= MaxTraffic
       /\ SendOn(i, n, end)
       /\ Emit(Frame("DATA", i, n, end))
       /\ UNCHANGED own

SendData(i, len, end) ==
    LET n     == ToSend(i, len)
        isEnd == end /\ n = len
    IN /\ i \in DOMAIN streams
       /\ n = 0 => len = 0
       /\ sent[0] + rcvd + n <= MaxTraffic
       /\ SendOn(i, n, isEnd)
       /\ Emit(Frame("DATA", i, n, isEnd))
       /\ UNCHANGED own

\* SEEDED FAULT: GOAWAY names no stream at all.
SendGoAwayZero ==
    /\ Emit(Frame("GOAWAY", 0, 0, FALSE))
    /\ state' = "Draining"
    /\ announced' = 0
    /\ UNCHANGED <<gotSettings, streams, flow, remote, events, history,
                   preface, lastClientStreamId>>

SendGoAway ==
    /\ Emit(Frame("GOAWAY", lastClientStreamId, 0, FALSE))
    /\ state' = "Draining"
    /\ announced' = lastClientStreamId
    /\ UNCHANGED <<gotSettings, streams, flow, remote, events, history,
                   preface, lastClientStreamId>>

\* reset_stream, of a stream the application has heard of.
SendReset(i) ==
    /\ i \in DOMAIN ended
    /\ streams' = IF i \in DOMAIN streams
                  THEN [streams EXCEPT ![i] = ResetStream(@)] ELSE streams
    /\ Mark(i, {"reset"})
    /\ Emit(Frame("RST_STREAM", i, 0, FALSE))
    /\ UNCHANGED <<state, gotSettings, flow, remote, events,
                   sent, credit, rcvd, granted, delivered, own>>

RemoveStream(i) ==
    /\ i \in DOMAIN streams
    /\ streams' = [j \in DOMAIN streams \ {i} |-> streams[j]]
    /\ UNCHANGED <<state, gotSettings, flow, remote, writeBuf, events, history, own>>

PollEvents == TakeEvents /\ UNCHANGED <<writeBuf, own>>

AdvanceSend ==
    /\ writeBuf # <<>>
    /\ writeBuf' = Tail(writeBuf)
    /\ UNCHANGED <<core, history, own>>

Receives(type) == type \in PeerFrames
Calls(name)    == name \in AppCalls

Recv ==
    \/ RecvPreface
    \/ Receives("BAD") /\ RecvBadPreface
    \/ Receives("SETTINGS") /\ \E s \in PeerSettings : RecvSettings(s)
    \/ Receives("PING") /\ RecvPing
    \/ Receives("GOAWAY") /\ RecvGoAway
    \/ Receives("WINDOW_UPDATE") /\ \E i \in PeerIds \cup {0}, n \in PeerIncrements :
                                      RecvWindowUpdate(i, n)
    \/ Receives("DATA") /\ \E i \in PeerIds, len \in PeerLens, end \in PeerEnds :
                             RecvData(i, len, end)
    \/ \E i \in PeerIds, end \in PeerEnds : RecvRequest(i, end)
    \/ Receives("HEADERS") /\ \E i \in PeerIds, end \in PeerEnds : RecvOldHeaders(i, end)
    \/ Receives("RST_STREAM") /\ \E i \in PeerIds : RecvRstStream(i)
    \/ Receives("BAD") /\ \E i \in PeerIds : RecvBadRequest(i)
    \/ Receives("BAD") /\ \E i \in PeerIds, end \in PeerEnds : RecvBadFrame(i, end)

Call ==
    \/ Calls("HEADERS") /\ \E i \in DOMAIN streams, end \in AppEnds : SendHeaders(i, end)
    \/ \E i \in DOMAIN streams, len \in AppLens, end \in AppEnds : SendData(i, len, end)
    \/ Calls("GOAWAY") /\ SendGoAway
    \/ Calls("RESET") /\ \E i \in DOMAIN ended : SendReset(i)
    \/ Calls("REMOVE") /\ \E i \in DOMAIN streams : RemoveStream(i)
    \/ PollEvents
    \/ AdvanceSend

Next == Recv \/ Call

Spec == Init /\ [][Next]_vars
-------------------------------------------------------------------------------
(***************************************************************************)
(* Properties.  Those that hold of both ends are in Endpoint.              *)
(***************************************************************************)

\* A stream id names one request for the life of the connection: requests come
\* with growing odd ids, and a stream that was removed is not opened again.
RequestIdsGrow ==
    [][\A i \in DOMAIN streams' \ DOMAIN streams :
          i % 2 = 1 /\ \A j \in DOMAIN ended : j < i]_<<streams, ended>>

\* GOAWAY promises the client that every request after its last_stream_id was
\* not looked at, so that the client may send it again elsewhere: no request
\* the application had by then is beyond it.
GoAwayCoversRequests ==
    [][announced' # announced => \A i \in DOMAIN ended : i <= announced']_announced
===============================================================================
