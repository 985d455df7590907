------------------------------ MODULE Connection ------------------------------
(***************************************************************************)
(* connection/mod.rs: the HTTP/2 client connection over a transport.       *)
(*                                                                         *)
(* The peer is open: it may send any frame the decoder lets through, in    *)
(* any order and at any time.  The frames of one read are handled one by   *)
(* one without a call of the application in between; here such calls may   *)
(* come between any two frames, as they may when the frames arrive apart.  *)
(*                                                                         *)
(* Calls that fail before they change anything (NotConnected, NotFound,    *)
(* WouldBlock) and frames that are ignored (SETTINGS and PING with ACK,    *)
(* PRIORITY, PUSH_PROMISE, unknown types, WINDOW_UPDATE for an unknown     *)
(* stream) are no steps.                                                   *)
(***************************************************************************)
EXTENDS Endpoint

CONSTANTS
    InitTransport,  \* "Ready" for PlainTransport::new, "Handshaking" for TlsTransport::new
    WriteLimit,     \* a larger write is taken in part: 64 KiB in rustls, none for plain
    Failures,       \* how the transport may go down
    MaxRequests     \* bound on the calls of start_request

ASSUME ConnectionAssumption ==
    /\ InitTransport \in {"Ready", "Handshaking"}
    /\ WriteLimit \in Nat
    /\ Failures \subseteq {"Error", "Closed"}
    /\ MaxRequests \in Nat /\ MaxRequests <= I32Max

VARIABLES
    transport,      \* TransportState
    nextStreamId,
    sock            \* frames the transport has taken and the socket has not

vars == <<core, writeBuf, history, transport, nextStreamId, sock>>

TypeOK ==
    /\ EndpointTypeOK
    /\ transport \in {"Handshaking", "Ready", "Error", "Closed"}
    /\ nextStreamId \in {2 * k + 1 : k \in 0 .. MaxRequests}
    /\ sock \in Seq(FrameType)

Init ==
    /\ EndpointInit
    /\ transport = InitTransport
    /\ nextStreamId = 1
    /\ sock = <<>>
-------------------------------------------------------------------------------
Room(k) == Len(writeBuf) + Len(sock) + k <= MaxQueue

DataBytes(buf) ==
    LET upTo[k \in 0 .. Len(buf)] ==
            IF k = 0 THEN 0
            ELSE upTo[k - 1] + (IF buf[k].type = "DATA" THEN buf[k].n ELSE 0)
    IN upTo[Len(buf)]

\* How many of the frames in buf Transport::send may take; one that is taken
\* in part counts as not taken.
Accepted(buf) == IF DataBytes(buf) > WriteLimit THEN 0 .. Len(buf) - 1 ELSE {Len(buf)}

\* SEEDED FAULT: what the transport took stays in write_buf.
FlushKeepsSent(buf) ==
    IF transport = "Ready"
    THEN \E n \in Accepted(buf) : sock' = sock \o SubSeq(buf, 1, n) /\ writeBuf' = buf
    ELSE writeBuf' = buf /\ UNCHANGED sock

\* flush_write_buffer, called with buf in write_buf, which is not empty.  A
\* transport that is not Ready refuses, and the caller returns its error.
Flush(buf) ==
    IF transport = "Ready"
    THEN \E n \in Accepted(buf) : /\ sock' = sock \o SubSeq(buf, 1, n)
                                 /\ writeBuf' = SubSeq(buf, n + 1, Len(buf))
    ELSE writeBuf' = buf /\ UNCHANGED sock

Emit(frame) == Room(1) /\ Flush(Append(writeBuf, frame))

output == <<writeBuf, sock>>

\* on_transport_ready, which its caller calls "after the transport becomes ready".
OnTransportReady ==
    /\ transport # "Handshaking"
    /\ state = "WaitingPreface"
    /\ state' = "WaitingSettings"
    /\ Room(2)
    /\ Flush(writeBuf \o <<Frame("PREFACE", 0, 0, FALSE), Frame("SETTINGS", 0, 0, FALSE)>>)
    /\ UNCHANGED <<gotSettings, streams, flow, remote, events, history,
                   transport, nextStreamId>>

(***************************************************************************)
(* Frames.  They are read from the transport, which yields nothing before  *)
(* its handshake is over; the read that ends the handshake may yield the   *)
(* first frames with it, before on_transport_ready can be called.          *)
(***************************************************************************)
CanReceive == transport # "Handshaking" /\ UNCHANGED <<transport, nextStreamId>>

RecvSettings(s) ==
    /\ CanReceive
    /\ gotSettings \/ EventRoom
    /\ HandleSettings(s)
    /\ Emit(Frame("SETTINGS_ACK", 0, 0, FALSE))

RecvPing ==
    /\ CanReceive
    /\ Emit(Frame("PING_ACK", 0, 0, FALSE))
    /\ UNCHANGED <<core, history>>

RecvGoAway == CanReceive /\ EventRoom /\ HandleGoAway /\ UNCHANGED output

RecvWindowUpdate(i, increment) ==
    /\ CanReceive
    /\ UNCHANGED output
    /\ \/ i = 0 /\ credit[0] + increment <= MaxCredit /\ CreditConnection(increment)
       \/ i \in DOMAIN streams /\ credit[i] + increment <= MaxCredit /\ CreditStream(i, increment)
       \/ EventRoom /\ RejectCredit(i, increment)

RecvHeaders(i, end) ==
    /\ CanReceive /\ EventRoom
    /\ streams' = IF i \in DOMAIN streams /\ end
                  THEN [streams EXCEPT ![i] = RecvEndStream(@)] ELSE streams
    /\ Mark(i, EndMark(end, "remote"))
    /\ Push("Headers", i)
    /\ UNCHANGED <<state, gotSettings, flow, remote, output,
                   sent, credit, rcvd, granted, delivered>>

\* SEEDED FAULT: the event is lost whenever a WINDOW_UPDATE is sent.
RecvDataUpdateOrEvent(i, len, end) ==
    /\ CanReceive /\ EventRoom
    /\ sent[0] + rcvd + len <= MaxTraffic
    /\ HandleData(i, len, end, ~UpdateDue(len))
    /\ IF UpdateDue(len) THEN Emit(Frame("WINDOW_UPDATE", 0, Increment(len), FALSE))
                         ELSE UNCHANGED output

\* The event is pushed after the WINDOW_UPDATE is flushed: if the transport
\* refuses, the bytes are accounted for and their event is lost.
RecvData(i, len, end) ==
    LET deliver == UpdateDue(len) => transport = "Ready"
    IN /\ CanReceive
       /\ deliver => EventRoom
       /\ sent[0] + rcvd + len <= MaxTraffic
       /\ HandleData(i, len, end, deliver)
       /\ IF UpdateDue(len) THEN Emit(Frame("WINDOW_UPDATE", 0, Increment(len), FALSE))
                            ELSE UNCHANGED output

RecvRstStream(i) == CanReceive /\ EventRoom /\ HandleRstStream(i) /\ UNCHANGED output

\* A stray CONTINUATION, or a frame the decoder rejects and consumes.
RecvBadFrame(i, end) ==
    CanReceive /\ EventRoom /\ HandleRefused(i, end, 0) /\ UNCHANGED output

\* A header block that HPACK rejects: handle_headers returns before it looks at
\* END_STREAM.
RecvBadHeaders(i, end) ==
    CanReceive /\ EventRoom /\ HandleRefused(i, end, i) /\ UNCHANGED output
-------------------------------------------------------------------------------
(***************************************************************************)
(* Calls of the application.                                               *)
(***************************************************************************)

\* StreamId::new keeps 31 bits of next_stream_id, a u32 that passes them.
NewStreamId == IF nextStreamId > I32Max THEN nextStreamId - (I32Max + 1) ELSE nextStreamId

StartRequest(end) ==
    /\ state = "Open"
    /\ nextStreamId < 2 * MaxRequests
    /\ nextStreamId' = nextStreamId + 2
    /\ OpenStream(NewStreamId, NewStream(remote.initialWindow), EndMark(end, "local"))
    /\ Emit(Frame("HEADERS", NewStreamId, 0, end))
    /\ UNCHANGED <<state, gotSettings, flow, remote, events, rcvd, granted, delivered,
                   transport>>

ToSend(i, len) == Lesser(Lesser(len, Available(i)), remote.maxFrame)

SendData(i, len, end) ==
    LET n     == ToSend(i, len)
        isEnd == end /\ n = len
    IN /\ i \in DOMAIN streams
       /\ n = 0 => len = 0
       /\ sent[0] + rcvd + n <= MaxTraffic
       /\ SendOn(i, n, isEnd)
       /\ Emit(Frame("DATA", i, n, isEnd))
       /\ UNCHANGED <<transport, nextStreamId>>

PollEvents == TakeEvents /\ UNCHANGED <<output, transport, nextStreamId>>

\* The driver writes pending_send to the socket and reports it.
AdvanceSend ==
    /\ sock # <<>>
    /\ sock' = Tail(sock)
    /\ UNCHANGED <<core, writeBuf, history, transport, nextStreamId>>

\* TLS: on_recv of the last handshake bytes.
HandshakeDone ==
    /\ transport = "Handshaking"
    /\ transport' = "Ready"
    /\ UNCHANGED <<core, output, history, nextStreamId>>

\* transport_mut().shutdown(), or an error of the TLS layer.
TransportDown(to) ==
    /\ transport \in {"Handshaking", "Ready"}
    /\ transport' = to
    /\ UNCHANGED <<core, output, history, nextStreamId>>

Receives(type) == type \in PeerFrames

Recv ==
    \/ Receives("SETTINGS") /\ \E s \in PeerSettings : RecvSettings(s)
    \/ Receives("PING") /\ RecvPing
    \/ Receives("GOAWAY") /\ RecvGoAway
    \/ Receives("WINDOW_UPDATE") /\ \E i \in PeerIds \cup {0}, n \in PeerIncrements :
                                      RecvWindowUpdate(i, n)
    \/ Receives("DATA") /\ \E i \in PeerIds, len \in PeerLens, end \in PeerEnds :
                             RecvData(i, len, end)
    \/ Receives("HEADERS") /\ \E i \in PeerIds, end \in PeerEnds : RecvHeaders(i, end)
    \/ Receives("RST_STREAM") /\ \E i \in PeerIds : RecvRstStream(i)
    \/ Receives("BAD") /\ \E i \in PeerIds, end \in PeerEnds :
                             RecvBadFrame(i, end) \/ RecvBadHeaders(i, end)

Call ==
    \/ OnTransportReady
    \/ \E end \in AppEnds : StartRequest(end)
    \/ \E i \in DOMAIN streams, len \in AppLens, end \in AppEnds : SendData(i, len, end)
    \/ PollEvents
    \/ AdvanceSend

Transport ==
    \/ HandshakeDone
    \/ \E to \in Failures : TransportDown(to)

Next == Recv \/ Call \/ Transport

Spec == Init /\ [][Next]_vars
-------------------------------------------------------------------------------
(***************************************************************************)
(* Properties.  Those that hold of both ends are in Endpoint.              *)
(***************************************************************************)

\* Every byte of DATA that the peer was charged for reaches the application,
\* as long as the transport has not gone down.
DataDelivered == transport = "Ready" => delivered = rcvd

\* What leaves, in order: the frames the transport took, then write_buf.  No
\* frame of a stream comes before the stream's HEADERS, however the transport
\* splits the writes and whenever it goes down.
HeadersFirst ==
    LET out == sock \o writeBuf IN
    \A a, b \in 1 .. Len(out) :
      out[b].type = "HEADERS" /\ a < b => out[a].id # out[b].id
===============================================================================
