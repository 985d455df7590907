------------------------------ MODULE FrameReader -----------------------------
(***************************************************************************)
(* read_buf, FrameDecoder::decode and the loop of process_frames, which    *)
(* client and server have alike: frames out of a byte stream that arrives  *)
(* in pieces of any size.                                                  *)
(*                                                                         *)
(* The bytes themselves are abstracted to where in the stream each frame   *)
(* starts.  The decoder takes whole frames only, so read_buf always starts *)
(* at the start of a frame: it is the bytes from there to fed.             *)
(***************************************************************************)
EXTENDS Frames, Sequences

CONSTANTS
    MaxFrameSize,   \* max_frame_size of the decoder, which nothing ever changes
    OwnFrames,      \* frames that a peer using this library encodes
    ForeignFrames,  \* frames on the wire as other peers may write them
    Reads,          \* how many bytes may arrive at a time
    HandlersFail,   \* the client's handlers may fail, when its transport refuses a write
    MaxFrames       \* bound on the frames written

ASSUME FrameReaderAssumption ==
    /\ MaxFrameSize \in Nat
    /\ \A f \in OwnFrames : f \in FrameRecord /\ WellFormed(f)
    /\ \A w \in ForeignFrames : w \in WireRecord /\ Canonical(w)
    /\ Reads \subseteq Nat
    /\ HandlersFail \in BOOLEAN
    /\ MaxFrames \in Nat

VARIABLES
    wire,       \* the frames written, each with its place in the byte stream
    fed,        \* how many bytes have been put in read_buf
    next,       \* the frame that read_buf starts with
    handled,    \* the frames given to handle_frame
    outcome,    \* how the last process_frames ended
    said        \* history: what the peer meant by what it wrote

vars == <<wire, fed, next, handled, outcome, said>>

Outcomes == {"More", "TooLarge", "Rejected", "Failed"}

Init ==
    /\ wire = <<>> /\ said = <<>>
    /\ fed = 0
    /\ next = 1
    /\ handled = <<>>
    /\ outcome = "More"

EndOf(k) == wire[k].at + FrameHeaderSize + wire[k].frame.len
Written  == IF wire = <<>> THEN 0 ELSE EndOf(Len(wire))
StartOf(k) == IF k > Len(wire) THEN Written ELSE wire[k].at

TypeOK ==
    /\ wire \in Seq([at: Nat, frame: WireRecord])
    /\ fed \in Nat
    /\ handled \in Seq(FrameRecord) /\ said \in Seq(FrameRecord)
    /\ \A k \in DOMAIN wire : wire[k].at = IF k = 1 THEN 0 ELSE EndOf(k - 1)
    /\ StartOf(next) <= fed /\ fed <= Written
    /\ next \in 1 .. Len(wire) + 1
    /\ outcome \in Outcomes
-------------------------------------------------------------------------------
\* The peer writes a frame.
Write(w, meant) ==
    /\ Len(wire) < MaxFrames
    /\ wire' = Append(wire, [at |-> Written, frame |-> w])
    /\ said' = said \o meant
    /\ UNCHANGED <<fed, next, handled, outcome>>

WriteOwn(f) == Write(Encoded(f), <<f>>)

\* Another peer's frame means what it carries; a malformed one means nothing.
WriteForeign(w) ==
    \/ \E f \in Carried(w) : Write(w, <<f>>)
    \/ Carried(w) = {} /\ Write(w, <<>>)

\* SEEDED FAULT: a frame's size is looked at only when all of it has come.
DecodeSizeLast(k, have) ==
    IF k > Len(wire) \/ EndOf(k) > have THEN "More"
    ELSE IF wire[k].frame.len > MaxFrameSize THEN "TooLarge"
    ELSE IF Parses(wire[k].frame) THEN "Frame" ELSE "Rejected"

\* decode, of frame k when have bytes have come: "Frame" is Ok(Some), "More" is
\* Ok(None).  The size is checked as soon as the header is there.
Decode(k, have) ==
    IF k > Len(wire) \/ wire[k].at + FrameHeaderSize > have THEN "More"
    ELSE IF wire[k].frame.len > MaxFrameSize THEN "TooLarge"
    ELSE IF EndOf(k) > have THEN "More"
    ELSE IF Parses(wire[k].frame) THEN "Frame" ELSE "Rejected"

\* The first frame, from next on, that process_frames does not hand over.
Stop(have) == CHOOSE k \in next .. Len(wire) + 1 :
                  /\ Decode(k, have) # "Frame"
                  /\ \A j \in next .. k - 1 : Decode(j, have) = "Frame"

HandOver(last) == handled' = handled \o [j \in 1 .. last - next + 1 |->
                                            Parsed(wire[next + j - 1].frame)]

\* SEEDED FAULT: one frame per call.
ProcessOne(have) ==
    LET result == Decode(next, have) IN
    /\ outcome' = IF result = "Frame" THEN "More" ELSE result
    /\ next' = IF result \in {"Frame", "Rejected"} THEN next + 1 ELSE next
    /\ HandOver(IF result = "Frame" THEN next ELSE next - 1)

\* SEEDED FAULT: a frame that is too large is skipped, come or not.
ProcessSkipsTooLarge(have) ==
    LET stop == Stop(have) IN
    /\ outcome' = Decode(stop, have)
    /\ next' = IF outcome' \in {"Rejected", "TooLarge"} THEN stop + 1 ELSE stop
    /\ HandOver(stop - 1)

\* process_frames.  A frame that does not parse has been consumed; one that is
\* too large stays.  Either ends the loop, as does a handler that fails.
ProcessFrames(have) ==
    \/ LET stop == Stop(have) IN
       /\ outcome' = Decode(stop, have)
       /\ next' = IF outcome' = "Rejected" THEN stop + 1 ELSE stop
       /\ HandOver(stop - 1)
    \/ /\ HandlersFail
       /\ \E last \in next .. Stop(have) - 1 :
             /\ outcome' = "Failed"
             /\ next' = last + 1
             /\ HandOver(last)

\* on_recv or feed_data
Feed(n) ==
    /\ fed + n <= Written
    /\ fed' = fed + n
    /\ ProcessFrames(fed + n)
    /\ UNCHANGED <<wire, said>>

Next ==
    \/ \E f \in OwnFrames : WriteOwn(f)
    \/ \E w \in ForeignFrames : WriteForeign(w)
    \/ \E n \in Reads : Feed(n)

Spec == Init /\ [][Next]_vars
-------------------------------------------------------------------------------
\* Other peers do not write frames that are padding only but carry an (empty)
\* payload and its flag: remove_padding refuses those, though they are legal.
NothingOnlyPadded == \A w \in ForeignFrames : OnlyPadded(w) => Carried(w) = {}

\* The connection handles the frames the peer meant, each once and in order,
\* however the bytes were split; a frame that is padded or that has a priority
\* arrives as what it carries, and a malformed one costs only itself.  It takes
\* NothingOnlyPadded: the empty padded frame is meant and never handled.
Channel == INSTANCE Fifo WITH sent <- said, received <- handled
HandlesWhatWasSaid == Channel!Spec

\* Whenever the decoder asks for more it needs more: no frame is left whole in
\* read_buf, whatever sizes the reads had.
NothingLeftWhole == outcome = "More" => next > Len(wire) \/ EndOf(next) > fed

\* ... and what is left is less than one frame: a peer cannot make read_buf
\* grow by announcing a frame that it does not finish.
BufferBounded == outcome = "More" => fed - StartOf(next) < FrameHeaderSize + MaxFrameSize

\* A frame that is refused as too large is refused at every later call; not one
\* byte behind it is handled (the connection is of no more use).
TooLargeIsFinal ==
    [][outcome = "TooLarge" => handled' = handled /\ next' = next]_vars
===============================================================================
