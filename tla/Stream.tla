-------------------------------- MODULE Stream --------------------------------
(***************************************************************************)
(* connection/stream.rs: the state of one stream, a record.  The states    *)
(* Idle and ReservedRemote are declared there and never assigned.          *)
(* recvWindow and bytesReceived are written by recv_data and read by no    *)
(* caller: no stream-level WINDOW_UPDATE is ever produced from them.       *)
(***************************************************************************)
EXTENDS MachineInt

StreamStates == {"Open", "HalfClosedLocal", "HalfClosedRemote", "Closed"}

StreamType == [state: StreamStates, sendWindow: I32, recvWindow: I32, bytesReceived: U32]

NewStream(size) ==
    [state |-> "Open", sendWindow |-> AsI32(size),
     recvWindow |-> AsI32(size), bytesReceived |-> 0]

CanSend(s) == s.state \in {"Open", "HalfClosedRemote"}
CanRecv(s) == s.state \in {"Open", "HalfClosedLocal"}

\* SEEDED FAULT: the send window is not charged.
SendBytesFree(s, n) == s

\* send_data
SendBytes(s, n) == [s EXCEPT !.sendWindow = WrapI32(@ - AsI32(n))]

\* SEEDED FAULT: our END_STREAM closes a stream the peer has not ended.
SendEndStreamCloses(s) == [s EXCEPT !.state = "Closed"]

SendEndStream(s) ==
    [s EXCEPT !.state = CASE @ = "Open"             -> "HalfClosedLocal"
                          [] @ = "HalfClosedRemote" -> "Closed"
                          [] OTHER                  -> @]

\* recv_data
RecvBytes(s, n) ==
    [s EXCEPT !.recvWindow    = WrapI32(@ - AsI32(n)),
              !.bytesReceived = WrapU32(@ + n)]

\* SEEDED FAULT: the peer's END_STREAM reopens a stream that was closed.
RecvEndStreamAlways(s) ==
    [s EXCEPT !.state = IF @ = "HalfClosedLocal" THEN "Closed" ELSE "HalfClosedRemote"]

RecvEndStream(s) ==
    [s EXCEPT !.state = CASE @ = "Open"            -> "HalfClosedRemote"
                          [] @ = "HalfClosedLocal" -> "Closed"
                          [] OTHER                 -> @]

\* increase_send_window, where CanIncrease holds (it changes nothing elsewhere).
IncreaseSendWindow(s, increment) == [s EXCEPT !.sendWindow = @ + increment]

\* adjust_send_window: an unchecked `+=`.
AdjustSendWindow(s, delta) == [s EXCEPT !.sendWindow = WrapI32(@ + delta)]

\* reset
ResetStream(s) == [s EXCEPT !.state = "Closed"]
===============================================================================
