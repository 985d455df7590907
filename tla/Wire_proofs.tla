------------------------------- MODULE Wire_proofs -----------------------------
(***************************************************************************)
(* Proofs about frames, the frame reader and the codings of frames and of  *)
(* header fields.  Whatever the sizes of the reads, the frames handled are *)
(* the frames the peer meant, in order, nothing whole is left in read_buf  *)
(* and what is left is bounded.  Every frame that is written is read as    *)
(* what it was, and the parsers do on any bytes what Frames says.  An      *)
(* integer with a prefix is read as the number it stands for or refused;   *)
(* a string in Huffman code has one reading; and integers, strings and     *)
(* header fields that are written come back, whatever follows them.        *)
(*                                                                         *)
(* The frames handled are counted: those that parse among the frames       *)
(* before next.  The same count says where in what the peer meant a frame  *)
(* on the wire has its place.                                              *)
(*                                                                         *)
(* Recursive functions are reasoned about by the sequence of their values  *)
(* (Induction): what the loop of decode_integer has after every byte, what *)
(* the Huffman decoder has after every bit.                                *)
(***************************************************************************)
EXTENDS FrameReader, Codings, SequencesExt, SequenceTheorems, FiniteSetTheorems, Induction, TLAPS

(***************************************************************************)
(* Frames as such                                                          *)
(***************************************************************************)

\* What the encoder writes is a frame on the wire.
LEMMA EncodedRecord ==
    ASSUME NEW f \in FrameRecord, WellFormed(f)
    PROVE  Encoded(f) \in WireRecord
  <1>1. PayloadLen(f) \in Nat
    BY DEF PayloadLen, FixedLen, Fixed, FrameRecord, FrameTypes, OnStream, OnConnection
  <1> QED
    BY <1>1 DEF Encoded, FrameRecord, WireRecord

\* Every frame a connection builds is accepted by the decoder as what it is.
THEOREM OwnFrameParses ==
    ASSUME NEW f \in FrameRecord, WellFormed(f)
    PROVE  Parses(Encoded(f)) /\ Parsed(Encoded(f)) = f
  <1> DEFINE w == Encoded(f)
  <1>1. /\ w.type = f.type /\ w.id = f.id /\ w.flag = f.flag /\ w.prio = f.prio
        /\ w.len = PayloadLen(f) /\ w.pad = NoPad
        /\ w.value = IF f.type = "WINDOW_UPDATE" THEN f.n ELSE 1
    BY DEF Encoded
  <1>2. f.type \in FrameTypes /\ f.n \in Nat /\ f.id \in Nat /\ f.flag \in BOOLEAN
    BY DEF FrameRecord
  <1> HIDE DEF w
  <1>3. Unpadded(w) = w.len
    BY <1>1 DEF Unpadded
  <1>4. RightStream(w)
    BY <1>1 DEF RightStream, WellFormed
  <1>5. RightLength(w)
    BY <1>1, <1>2, <1>3
       DEF RightLength, PayloadLen, FixedLen, Fixed, FrameTypes, OnStream, OnConnection
  <1>6. f.type = "SETTINGS" => RightSettings(w)
    BY <1>1, <1>2 DEF RightSettings, PayloadLen, FixedLen, Fixed
  <1>7. Parses(w)
    BY <1>1, <1>4, <1>5, <1>6 DEF Parses, WellFormed
  <1>8. Parsed(w).n = f.n
    BY <1>1, <1>2, <1>3
       DEF Parsed, PayloadLen, FixedLen, Fixed, WellFormed, FrameTypes, OnStream, OnConnection
  <1>9. Parsed(w) = f
    BY <1>1, <1>8 DEF Parsed, FrameRecord
  <1> QED
    BY <1>7, <1>9 DEF w

\* What a frame carries is a frame.
LEMMA CarriedRecord ==
    ASSUME NEW w \in WireRecord, NEW f \in Carried(w)
    PROVE  /\ f \in FrameRecord /\ WellFormed(f)
           /\ f.type = w.type /\ f.id = w.id /\ f.flag = w.flag /\ f.prio = w.prio
           /\ \/ w = Encoded(f)
              \/ w.type \in MayPad /\ w.pad # NoPad /\ w = WithPadding(f, w.pad)
  BY DEF Carried, WireRecord, FrameRecord

\* A frame that another peer writes is accepted as what it carries, with any
\* padding, unless the padding is all there is.
THEOREM CarriedParses ==
    ASSUME NEW w \in WireRecord, NEW f \in Carried(w), ~OnlyPadded(w)
    PROVE  Parses(w) /\ Parsed(w) = f
  <1>1. /\ f \in FrameRecord /\ WellFormed(f)
        /\ f.type = w.type /\ f.id = w.id /\ f.flag = w.flag /\ f.prio = w.prio
    BY CarriedRecord
  <1>2. CASE w = Encoded(f)
    BY <1>1, <1>2, OwnFrameParses
  <1>3. CASE w.type \in MayPad /\ w.pad # NoPad /\ w = WithPadding(f, w.pad)
    <2>1. PICK pad \in Nat : pad = w.pad
      BY <1>3 DEF WireRecord
    <2>2. w.len = f.n + Fixed(f.type, f.prio) + 1 + pad
      BY <1>1, <1>3, <2>1 DEF WithPadding, PayloadLen, FixedLen, MayPad
    <2>3. f.n \in Nat /\ Fixed(f.type, f.prio) \in Nat
      BY <1>1 DEF FrameRecord, Fixed
    <2>4. Unpadded(w) = f.n + Fixed(f.type, f.prio)
      BY <1>3, <2>1, <2>2, <2>3 DEF Unpadded
    <2>5. PaddingFits(w)
      BY <1>3, <2>1, <2>2, <2>3 DEF PaddingFits, OnlyPadded
    <2>6. RightLength(w)
      BY <1>1, <1>3, <2>3, <2>4, <2>5 DEF RightLength, FixedLen, MayPad
    <2>7. RightStream(w)
      BY <1>1 DEF RightStream, WellFormed
    <2>8. Parses(w)
      BY <1>3, <2>6, <2>7 DEF Parses, MayPad
    <2>9. Parsed(w).n = f.n
      BY <1>1, <1>3, <2>3, <2>4 DEF Parsed, MayPad
    <2>10. Parsed(w) = f
      BY <1>1, <2>9 DEF Parsed, FrameRecord
    <2> QED
      BY <2>8, <2>10
  <1> QED
    BY <1>2, <1>3, CarriedRecord

\* A malformed frame is not accepted: what is accepted is carried.
THEOREM AcceptedIsCarried ==
    ASSUME NEW w \in WireRecord, Canonical(w), Parses(w)
    PROVE  Parsed(w) \in Carried(w)
  <1>1. PICK f : f = Parsed(w)
    OBVIOUS
  <1>2. /\ f.type = w.type /\ f.id = w.id /\ f.flag = w.flag /\ f.prio = w.prio
        /\ w.len \in Nat /\ w.value \in Nat /\ w.pad \in Nat \cup {NoPad}
        /\ f = [type |-> f.type, id |-> f.id, flag |-> f.flag, prio |-> f.prio, n |-> f.n]
    BY <1>1 DEF Parsed, WireRecord
  <1>3. /\ f.n \in (0 .. w.len) \cup {w.value} /\ WellFormed(f)
        /\ PayloadLen(f) = Unpadded(w) /\ w.value = Encoded(f).value
    <2>1. CASE w.type = "SETTINGS"
      <3>1. f.n = w.len \div 6 /\ w.len % 6 = 0 /\ (w.flag => w.len = 0) /\ w.value = 1
        BY <1>1, <2>1 DEF Parsed, Parses, RightSettings, Canonical
      <3>2. f.n \in 0 .. w.len /\ 6 * f.n = w.len
        BY <1>2, <3>1, SMT
      <3>3. PayloadLen(f) = w.len /\ Unpadded(w) = w.len /\ Encoded(f).value = 1
        BY <1>2, <2>1, <3>1, <3>2 DEF PayloadLen, FixedLen, Unpadded, MayPad, Encoded
      <3>4. WellFormed(f)
        BY <1>2, <2>1, <3>1, <3>2 DEF WellFormed, Parses, RightStream, OnStream
      <3> QED
        BY <3>1, <3>2, <3>3, <3>4
    <2>2. CASE w.type \in DOMAIN FixedLen
      <3>1. f.n = IF w.type = "WINDOW_UPDATE" THEN w.value ELSE 0
        BY <1>1, <2>2 DEF Parsed, FixedLen
      <3>2. w.len = FixedLen[w.type] /\ w.type \notin MayPad
        BY <2>2 DEF Parses, RightLength, FixedLen, MayPad
      <3>3. PayloadLen(f) = w.len /\ Unpadded(w) = w.len /\ Encoded(f).value = w.value
        BY <1>2, <2>2, <3>1, <3>2 DEF PayloadLen, Unpadded, Encoded, Canonical, FixedLen
      <3>4. WellFormed(f)
        BY <1>2, <2>2, <3>1 DEF WellFormed, Parses, RightStream, FixedLen
      <3> QED
        BY <1>2, <3>1, <3>3, <3>4
    <2>3. CASE w.type # "SETTINGS" /\ w.type \notin DOMAIN FixedLen
      <3>1. f.n = Unpadded(w) - Fixed(w.type, w.prio)
        BY <1>1, <2>3 DEF Parsed, FixedLen
      <3>2. /\ Fixed(w.type, w.prio) \in 0 .. 8 /\ Unpadded(w) \in 0 .. w.len
            /\ Unpadded(w) >= Fixed(w.type, w.prio)
        BY <1>2 DEF Fixed, Unpadded, Parses, RightLength, PaddingFits, NoPad
      <3>3. PayloadLen(f) = Unpadded(w) /\ Encoded(f).value = w.value
        BY <1>2, <2>3, <3>1, <3>2 DEF PayloadLen, Encoded, Canonical, FixedLen
      <3>4. WellFormed(f)
        BY <1>2, <2>3 DEF WellFormed, Parses, RightStream, FixedLen
      <3> QED
        BY <1>2, <3>1, <3>2, <3>3, <3>4
    <2> QED
      BY <2>1, <2>2, <2>3
  <1>4. \/ w = Encoded(f)
        \/ w.type \in MayPad /\ w.pad # NoPad /\ w = WithPadding(f, w.pad)
    <2>1. CASE w.pad = NoPad
      BY <1>2, <1>3, <2>1 DEF Encoded, Unpadded, WireRecord
    <2>2. CASE w.pad # NoPad
      <3>1. w.type \in MayPad /\ Unpadded(w) = w.len - 1 - w.pad /\ w.pad \in Nat
        BY <1>2, <2>2 DEF Canonical, Unpadded
      <3>2. w.len = PayloadLen(f) + 1 + w.pad
        BY <1>2, <1>3, <3>1
      <3>3. w.value = 1
        BY <3>1 DEF Canonical, MayPad
      <3> QED
        BY <1>2, <2>2, <3>1, <3>2, <3>3 DEF WithPadding, WireRecord
    <2> QED
      BY <2>1, <2>2
  <1> QED
    BY <1>1, <1>2, <1>3, <1>4 DEF Carried

\* What an accepted frame is parsed as.
LEMMA ParsedRecord ==
    ASSUME NEW w \in WireRecord, Parses(w)
    PROVE  Parsed(w) \in FrameRecord
  <1>1. w.len \in Nat /\ w.value \in Nat /\ w.pad \in Nat \cup {NoPad}
    BY DEF WireRecord
  <1>2. Unpadded(w) \in Int /\ Fixed(w.type, w.prio) \in Int
        /\ Unpadded(w) - Fixed(w.type, w.prio) \in Nat
    BY <1>1 DEF Parses, RightLength, Unpadded, Fixed, NoPad
  <1> QED
    BY <1>1, <1>2 DEF Parsed, FrameRecord, WireRecord
-------------------------------------------------------------------------------
(***************************************************************************)
(* Places in the byte stream, and how far process_frames gets              *)
(***************************************************************************)
Entry == [at: Nat, frame: WireRecord]

\* The frames lie end to end.
LEMMA Places ==
    ASSUME TypeOK
    PROVE  /\ Len(wire) \in Nat /\ Written \in Nat
           /\ \A k \in 1 .. Len(wire) : /\ wire[k] \in Entry
                                        /\ wire[k].at \in Nat /\ wire[k].frame \in WireRecord
                                        /\ wire[k].frame.len \in Nat
                                        /\ EndOf(k) \in Nat /\ EndOf(k) >= wire[k].at + FrameHeaderSize
                                        /\ StartOf(k) = wire[k].at
                                        /\ StartOf(k + 1) = EndOf(k)
  <1>0. Len(wire) \in Nat
    BY DEF TypeOK
  <1>1. wire \in Seq(Entry) /\ Len(wire) \in Nat /\ DOMAIN wire = 1 .. Len(wire)
    BY LenProperties DEF TypeOK, Entry
  <1>2. ASSUME NEW k \in 1 .. Len(wire)
        PROVE  /\ wire[k] \in Entry
               /\ wire[k].at \in Nat /\ wire[k].frame \in WireRecord
               /\ wire[k].frame.len \in Nat
               /\ EndOf(k) \in Nat /\ EndOf(k) >= wire[k].at + FrameHeaderSize
    <2>1. wire[k] \in Entry
      BY <1>1, ElementOfSeq
    <2> QED
      BY <2>1 DEF Entry, WireRecord, EndOf, FrameHeaderSize
  <1>3. Written \in Nat
    BY <1>1, <1>2 DEF Written
  <1>4. ASSUME NEW k \in 1 .. Len(wire)
        PROVE  StartOf(k) = wire[k].at /\ StartOf(k + 1) = EndOf(k)
    <2>1. StartOf(k) = wire[k].at
      BY <1>1 DEF StartOf
    <2>2. CASE k = Len(wire)
      <3>1. k + 1 > Len(wire) /\ wire # <<>>
        BY <1>1, <2>2, EmptySeq
      <3> QED
        BY <2>1, <2>2, <3>1 DEF StartOf, Written
    <2>3. CASE k < Len(wire)
      <3>1. k + 1 \in DOMAIN wire /\ k + 1 # 1 /\ ~(k + 1 > Len(wire)) /\ (k + 1) - 1 = k
        BY <1>1, <1>4, <2>3
      <3>2. wire[k + 1].at = IF k + 1 = 1 THEN 0 ELSE EndOf((k + 1) - 1)
        BY <3>1 DEF TypeOK
      <3>3. wire[k + 1].at = EndOf(k)
        BY <3>1, <3>2
      <3>4. StartOf(k + 1) = wire[k + 1].at
        BY <3>1 DEF StartOf
      <3> QED
        BY <2>1, <3>3, <3>4
    <2>4. k = Len(wire) \/ k < Len(wire)
      BY <1>0, <1>4
    <2> QED
      BY <2>1, <2>2, <2>3, <2>4, Zenon
  <1> QED
    BY <1>1, <1>2, <1>3, <1>4

\* What decode says of a frame.
LEMMA DecodeFacts ==
    ASSUME TypeOK, NEW k \in Nat \ {0}, NEW have \in Nat
    PROVE  /\ Decode(k, have) \in {"Frame", "More", "TooLarge", "Rejected"}
           /\ k > Len(wire) => Decode(k, have) = "More"
           /\ Decode(k, have) \in {"Frame", "Rejected"} =>
                 /\ k \in 1 .. Len(wire) /\ EndOf(k) <= have
                 /\ wire[k].frame.len <= MaxFrameSize
                 /\ Parses(wire[k].frame) <=> Decode(k, have) = "Frame"
           /\ Decode(k, have) = "TooLarge" =>
                 /\ k \in 1 .. Len(wire) /\ wire[k].at + FrameHeaderSize <= have
                 /\ wire[k].frame.len > MaxFrameSize
  <1>1. MaxFrameSize \in Nat
    BY FrameReaderAssumption
  <1>2. CASE k > Len(wire)
    BY <1>2 DEF Decode
  <1>3. CASE k \in 1 .. Len(wire)
    <2>1. /\ wire[k].at \in Nat /\ wire[k].frame.len \in Nat /\ EndOf(k) \in Nat
          /\ EndOf(k) >= wire[k].at + FrameHeaderSize
      BY <1>3, Places
    <2> QED
      BY <1>1, <1>3, <2>1 DEF Decode, FrameHeaderSize
  <1> QED
    BY <1>2, <1>3, Places

\* process_frames ends, and at one frame only.
LEMMA StopFacts ==
    ASSUME TypeOK, NEW have \in Nat
    PROVE  /\ Stop(have) \in next .. Len(wire) + 1
           /\ Decode(Stop(have), have) # "Frame"
           /\ \A j \in next .. Stop(have) - 1 : Decode(j, have) = "Frame"
  <1>0. Len(wire) \in Nat /\ next \in 1 .. Len(wire) + 1
    BY Places DEF TypeOK
  <1> DEFINE ends == {k \in next .. Len(wire) + 1 : Decode(k, have) # "Frame"}
  <1>1. ends \in SUBSET Nat /\ Len(wire) + 1 \in ends
    BY <1>0, DecodeFacts
  <1>2. PICK k \in ends : \A j \in ends : k <= j
    <2> HIDE DEF ends
    <2> QED
      BY <1>1, LeastNumber
  <1>3. /\ k \in next .. Len(wire) + 1 /\ Decode(k, have) # "Frame"
        /\ \A j \in next .. k - 1 : Decode(j, have) = "Frame"
    BY <1>0, <1>2
  <1> QED
    BY <1>3 DEF Stop

\* What a read does: the frames from next to last are handed over, and the one
\* behind them, or a handler that failed, ends the loop.
ReadUpTo(last) ==
    /\ last \in next - 1 .. Len(wire)
    /\ \A j \in next .. last : Decode(j, fed') = "Frame"
    /\ HandOver(last)
    /\ \/ /\ outcome' = Decode(last + 1, fed')
          /\ outcome' # "Frame"
          /\ next' = IF outcome' = "Rejected" THEN last + 2 ELSE last + 1
       \/ outcome' = "Failed" /\ next' = last + 1

\* Every read is of this form.
LEMMA FeedReads ==
    ASSUME TypeOK, NEW n \in Reads, Feed(n)
    PROVE  /\ fed' \in Nat /\ fed <= fed' /\ fed' <= Written
           /\ UNCHANGED <<wire, said>>
           /\ \E last \in next - 1 .. Len(wire) : ReadUpTo(last)
  <1>0. /\ fed \in Nat /\ n \in Nat /\ Len(wire) \in Nat /\ next \in 1 .. Len(wire) + 1
        /\ fed' = fed + n /\ fed' <= Written /\ UNCHANGED <<wire, said>>
    BY Places, FrameReaderAssumption DEF TypeOK, Feed
  <1>1. PICK have \in Nat : have = fed + n
    BY <1>0
  <1>2. PICK stop \in next .. Len(wire) + 1 :
             /\ stop = Stop(have) /\ Decode(stop, have) # "Frame"
             /\ \A j \in next .. stop - 1 : Decode(j, have) = "Frame"
    BY StopFacts
  <1>3. stop \in Int /\ stop - 1 \in next - 1 .. Len(wire) /\ (stop - 1) + 1 = stop
        /\ (stop - 1) + 2 = stop + 1
    BY <1>0, <1>2
  <1>4. ProcessFrames(have) /\ fed' = have
    BY <1>0, <1>1 DEF Feed
  <1>5. CASE /\ outcome' = Decode(stop, have)
             /\ next' = IF outcome' = "Rejected" THEN stop + 1 ELSE stop
             /\ HandOver(stop - 1)
    <2>1. ReadUpTo(stop - 1)
      BY <1>2, <1>3, <1>4, <1>5 DEF ReadUpTo
    <2> QED
      BY <1>0, <1>3, <2>1
  <1>6. CASE \E last \in next .. stop - 1 :
                outcome' = "Failed" /\ next' = last + 1 /\ HandOver(last)
    <2>1. PICK last \in next .. stop - 1 :
                outcome' = "Failed" /\ next' = last + 1 /\ HandOver(last)
      BY <1>6
    <2>2. last \in next - 1 .. Len(wire) /\ \A j \in next .. last : j \in next .. stop - 1
      BY <1>0, <1>3
    <2>3. ReadUpTo(last)
      BY <1>2, <1>4, <2>1, <2>2 DEF ReadUpTo
    <2> QED
      BY <1>0, <2>2, <2>3
  <1> QED
    BY <1>2, <1>4, <1>5, <1>6, <1>0 DEF ProcessFrames

\* What is handed over is what the frames are parsed as, behind what was handled.
LEMMA HandedOver ==
    ASSUME TypeOK, NEW last, ReadUpTo(last), fed' \in Nat
    PROVE  /\ handled' \in Seq(FrameRecord)
           /\ Len(handled') = Len(handled) + (last - next + 1)
           /\ \A m \in 1 .. Len(handled) : handled'[m] = handled[m]
           /\ \A m \in Len(handled) + 1 .. Len(handled') :
                 /\ next + (m - Len(handled)) - 1 \in next .. last
                 /\ handled'[m] = Parsed(wire[next + (m - Len(handled)) - 1].frame)
  <1> DEFINE count == last - next + 1
             more == [j \in 1 .. count |-> Parsed(wire[next + j - 1].frame)]
  <1>0. /\ last \in Int /\ next \in Nat \ {0} /\ last >= next - 1 /\ count \in Nat
        /\ Len(handled) \in Nat /\ handled \in Seq(FrameRecord)
    BY Places DEF TypeOK, ReadUpTo
  <1>1. ASSUME NEW j \in 1 .. count PROVE Parsed(wire[next + j - 1].frame) \in FrameRecord
    <2>1. next + j - 1 \in next .. last /\ next + j - 1 \in Nat \ {0}
      BY <1>0
    <2>2. Decode(next + j - 1, fed') = "Frame"
      BY <2>1 DEF ReadUpTo
    <2>3. next + j - 1 \in 1 .. Len(wire) /\ Parses(wire[next + j - 1].frame)
      BY <2>1, <2>2, DecodeFacts
    <2> QED
      BY <2>3, Places, ParsedRecord
  <1>2. more \in Seq(FrameRecord) /\ Len(more) = count
    <2>1. more \in [1 .. count -> FrameRecord]
      BY <1>1
    <2>2. count \in Nat
      BY <1>0
    <2> HIDE DEF more, count
    <2> QED
      BY <2>1, <2>2
  <1>3. \A j \in 1 .. count : more[j] = Parsed(wire[next + j - 1].frame)
    OBVIOUS
  <1>4. handled' = handled \o more
    BY DEF ReadUpTo, HandOver
  <1> HIDE DEF more, count
  <1>5. /\ handled' \in Seq(FrameRecord)
        /\ Len(handled') = Len(handled) + count
        /\ \A m \in 1 .. Len(handled) + count :
              handled'[m] = IF m <= Len(handled) THEN handled[m] ELSE more[m - Len(handled)]
    BY <1>0, <1>2, <1>4, ConcatProperties
  <1>6. ASSUME NEW m \in Len(handled) + 1 .. Len(handled')
        PROVE  /\ next + (m - Len(handled)) - 1 \in next .. last
               /\ handled'[m] = Parsed(wire[next + (m - Len(handled)) - 1].frame)
    <2>1. m - Len(handled) \in 1 .. count /\ m \in 1 .. Len(handled) + count
          /\ ~(m <= Len(handled)) /\ m \in Int
      BY <1>0, <1>5
    <2>2. handled'[m] = more[m - Len(handled)]
      BY <1>5, <2>1
    <2>3. next + (m - Len(handled)) - 1 \in next .. last
      BY <1>0, <2>1 DEF count
    <2>4. more[m - Len(handled)] = Parsed(wire[next + (m - Len(handled)) - 1].frame)
      BY <1>3, <2>1, Zenon
    <2> QED
      BY <2>2, <2>3, <2>4, Zenon
  <1>7. \A m \in 1 .. Len(handled) : handled'[m] = handled[m]
    BY <1>0, <1>5
  <1> QED
    BY <1>5, <1>6, <1>7 DEF count

\* A frame written goes behind the others; the places of those stay.
LEMMA WritePlaces ==
    ASSUME TypeOK, NEW w \in WireRecord, NEW meant \in Seq(FrameRecord), Write(w, meant)
    PROVE  /\ Len(wire') = Len(wire) + 1
           /\ \A k \in 1 .. Len(wire) : wire'[k] = wire[k] /\ EndOf(k)' = EndOf(k)
           /\ wire'[Len(wire) + 1] = [at |-> Written, frame |-> w]
           /\ Written' = Written + FrameHeaderSize + w.len
           /\ StartOf(next)' = StartOf(next)
           /\ UNCHANGED <<fed, next, handled, outcome>>
           /\ TypeOK'
  <1> DEFINE entry == [at |-> Written, frame |-> w]
  <1>0. /\ wire \in Seq(Entry) /\ Len(wire) \in Nat /\ Written \in Nat /\ w.len \in Nat
        /\ next \in 1 .. Len(wire) + 1 /\ entry \in Entry
        /\ UNCHANGED <<fed, next, handled, outcome>>
    BY Places DEF TypeOK, Entry, WireRecord, Write
  <1>1. wire' = Append(wire, entry)
    BY DEF Write
  <1>a. entry.at = Written /\ entry.frame = w
    OBVIOUS
  <1> HIDE DEF entry
  <1>2. /\ wire' \in Seq(Entry) /\ Len(wire') = Len(wire) + 1
        /\ \A k \in 1 .. Len(wire) : wire'[k] = wire[k]
        /\ wire'[Len(wire) + 1] = entry
        /\ DOMAIN wire' = 1 .. Len(wire) + 1
    <2>1. /\ Append(wire, entry) \in Seq(Entry) /\ Len(Append(wire, entry)) = Len(wire) + 1
          /\ \A k \in 1 .. Len(wire) : Append(wire, entry)[k] = wire[k]
          /\ Append(wire, entry)[Len(wire) + 1] = entry
      BY <1>0, AppendProperties
    <2> QED
      BY <1>1, <2>1, LenProperties
  <1>3. \A k \in 1 .. Len(wire) : EndOf(k)' = EndOf(k)
    BY <1>2 DEF EndOf
  <1>4. Written' = Written + FrameHeaderSize + w.len
    <2>1. wire' # <<>>
      BY <1>0, <1>2, EmptySeq
    <2>2. Written' = wire'[Len(wire) + 1].at + FrameHeaderSize + wire'[Len(wire) + 1].frame.len
      BY <1>2, <2>1 DEF Written, EndOf
    <2> QED
      BY <1>2, <1>a, <2>2
  <1>5. StartOf(next)' = StartOf(next)
    <2>1. CASE next = Len(wire) + 1
      <3>1. next > Len(wire) /\ ~(next > Len(wire) + 1)
        BY <1>0, <2>1
      <3> QED
        BY <1>0, <1>2, <1>a, <2>1, <3>1 DEF StartOf
    <2>2. CASE next \in 1 .. Len(wire)
      <3>1. ~(next > Len(wire)) /\ ~(next > Len(wire) + 1)
        BY <1>0, <2>2
      <3> QED
        BY <1>0, <1>2, <2>2, <3>1 DEF StartOf
    <2> QED
      BY <1>0, <2>1, <2>2
  <1>6. \A k \in DOMAIN wire' : wire'[k].at = IF k = 1 THEN 0 ELSE EndOf(k - 1)'
    <2>1. ASSUME NEW k \in 1 .. Len(wire)
          PROVE  wire'[k].at = IF k = 1 THEN 0 ELSE EndOf(k - 1)'
      <3>1. wire[k].at = IF k = 1 THEN 0 ELSE EndOf(k - 1)
        BY <1>0, LenProperties DEF TypeOK
      <3>2. k = 1 \/ k - 1 \in 1 .. Len(wire)
        BY <1>0
      <3> QED
        BY <1>2, <1>3, <3>1, <3>2
    <2>2. Written = IF Len(wire) = 0 THEN 0 ELSE EndOf(Len(wire))
      BY <1>0, EmptySeq DEF Written
    <2>3. PICK last \in Nat : last = Len(wire)
      BY <1>0
    <2>4. wire'[last + 1].at = IF last + 1 = 1 THEN 0 ELSE EndOf(last + 1 - 1)'
      <3>1. CASE last = 0
        BY <1>2, <1>a, <2>2, <2>3, <3>1
      <3>2. CASE last # 0
        <4>1. last \in 1 .. Len(wire) /\ last + 1 # 1 /\ last + 1 - 1 = last
          BY <2>3, <3>2
        <4>2. EndOf(last + 1 - 1)' = EndOf(last)
          BY <1>3, <4>1
        <4> QED
          BY <1>2, <1>a, <2>2, <2>3, <3>2, <4>1, <4>2
      <3> QED
        BY <3>1, <3>2
    <2>5. \A k \in DOMAIN wire' : k \in 1 .. Len(wire) \/ k = last + 1
      BY <1>2, <2>3
    <2> QED
      BY <2>1, <2>4, <2>5
  <1>7. TypeOK'
    <2>1. StartOf(next)' <= fed' /\ fed' <= Written' /\ next' \in 1 .. Len(wire') + 1
      <3>1. StartOf(next) <= fed /\ fed <= Written /\ fed \in Nat
        BY DEF TypeOK
      <3>2. fed <= Written + FrameHeaderSize + w.len
        BY <1>0, <3>1 DEF FrameHeaderSize
      <3>3. next \in 1 .. Len(wire') + 1
        BY <1>0, <1>2
      <3> QED
        BY <1>0, <1>4, <1>5, <3>1, <3>2, <3>3
    <2>2. said' \in Seq(FrameRecord)
      BY ConcatProperties DEF TypeOK, Write
    <2> QED
      BY <1>0, <1>2, <1>6, <2>1, <2>2 DEF TypeOK, Entry
  <1> QED
    BY <1>0, <1>2, <1>3, <1>4, <1>5, <1>7 DEF entry

\* A read hands over whole frames: read_buf starts with a frame again.
LEMMA ReadPlaces ==
    ASSUME TypeOK, NEW last, ReadUpTo(last), fed' \in Nat, fed <= fed', fed' <= Written,
           UNCHANGED wire
    PROVE  /\ last \in Nat /\ last + 1 \in 1 .. Len(wire) + 1
           /\ StartOf(last + 1) <= fed'
           /\ outcome' = "Rejected" => /\ last + 1 \in 1 .. Len(wire)
                                       /\ StartOf(last + 2) <= fed'
                                       /\ next' = last + 2
                                       /\ ~Parses(wire[last + 1].frame)
                                       /\ wire[last + 1].frame.len <= MaxFrameSize
           /\ outcome' # "Rejected" => next' = last + 1
           /\ next' \in 1 .. Len(wire) + 1
           /\ outcome' \in Outcomes
           /\ outcome' # "Failed" => Decode(last + 1, fed') = outcome'
  <1>0. /\ Len(wire) \in Nat /\ next \in 1 .. Len(wire) + 1 /\ last \in next - 1 .. Len(wire)
    BY Places DEF TypeOK, ReadUpTo
  <1>1. last \in Nat /\ last + 1 \in Nat \ {0} /\ last + 1 \in 1 .. Len(wire) + 1
    BY <1>0
  <1>2. StartOf(last + 1) <= fed'
    <2>1. CASE last = next - 1
      <3>1. last + 1 = next /\ StartOf(next) <= fed /\ fed \in Nat /\ StartOf(next) \in Int
        <4>1. StartOf(next) \in Int
          BY <1>0, Places DEF StartOf
        <4> QED
          BY <1>0, <2>1, <4>1 DEF TypeOK
      <3> QED
        BY <3>1
    <2>2. CASE last \in next .. Len(wire)
      <3>1. Decode(last, fed') = "Frame" /\ last \in 1 .. Len(wire) /\ last \in Nat \ {0}
        BY <1>0, <2>2 DEF ReadUpTo
      <3> QED
        BY <3>1, Places, DecodeFacts
    <2> QED
      BY <1>0, <2>1, <2>2
  <1>3. outcome' = "Rejected" =>
           /\ next' = last + 2 /\ Decode(last + 1, fed') = "Rejected"
    BY DEF ReadUpTo
  <1>4. ASSUME outcome' = "Rejected"
        PROVE  /\ last + 1 \in 1 .. Len(wire) /\ StartOf(last + 2) <= fed'
               /\ next' = last + 2 /\ ~Parses(wire[last + 1].frame)
               /\ wire[last + 1].frame.len <= MaxFrameSize
    <2>1. /\ last + 1 \in 1 .. Len(wire) /\ EndOf(last + 1) <= fed'
          /\ ~Parses(wire[last + 1].frame) /\ wire[last + 1].frame.len <= MaxFrameSize
      BY <1>1, <1>3, <1>4, DecodeFacts
    <2>2. StartOf((last + 1) + 1) = EndOf(last + 1) /\ (last + 1) + 1 = last + 2
      BY <1>1, <2>1, Places
    <2> QED
      BY <1>3, <1>4, <2>1, <2>2
  <1>5. outcome' # "Rejected" => next' = last + 1
    BY DEF ReadUpTo
  <1>6. next' \in 1 .. Len(wire) + 1
    BY <1>0, <1>1, <1>4, <1>5
  <1>7. outcome' \in Outcomes /\ (outcome' # "Failed" => Decode(last + 1, fed') = outcome')
    <2>1. Decode(last + 1, fed') \in {"Frame", "More", "TooLarge", "Rejected"}
      BY <1>1, DecodeFacts
    <2> QED
      BY <2>1 DEF ReadUpTo, Outcomes
  <1> QED
    BY <1>1, <1>2, <1>4, <1>5, <1>6, <1>7

\* A read keeps the types.
LEMMA ReadType ==
    ASSUME TypeOK, NEW last, ReadUpTo(last), fed' \in Nat, fed <= fed', fed' <= Written,
           UNCHANGED <<wire, said>>
    PROVE  TypeOK'
  <1>1. StartOf(next)' <= fed'
    <2>1. PICK k \in 1 .. Len(wire) + 1 : k = next' /\ StartOf(k) <= fed'
      <3>1. CASE outcome' = "Rejected"
        BY <3>1, ReadPlaces
      <3>2. CASE outcome' # "Rejected"
        BY <3>2, ReadPlaces
      <3> QED
        BY <3>1, <3>2
    <2>2. StartOf(k)' = StartOf(k)
      BY DEF StartOf, Written, EndOf
    <2> QED
      BY <2>1, <2>2
  <1>2. /\ fed' <= Written' /\ next' \in 1 .. Len(wire') + 1 /\ outcome' \in Outcomes
        /\ handled' \in Seq(FrameRecord)
    BY ReadPlaces, HandedOver DEF Written, EndOf
  <1>3. \A k \in DOMAIN wire' : wire'[k].at = IF k = 1 THEN 0 ELSE EndOf(k - 1)'
    BY DEF TypeOK, EndOf
  <1> QED
    BY <1>1, <1>2, <1>3 DEF TypeOK

\* The peer writes frames, what it means by them included.
LEMMA WritesFrames ==
    /\ \A f \in OwnFrames : /\ f \in FrameRecord /\ Encoded(f) \in WireRecord
                            /\ <<f>> \in Seq(FrameRecord)
    /\ \A w \in ForeignFrames :
          /\ w \in WireRecord
          /\ \A f \in Carried(w) : <<f>> \in Seq(FrameRecord)
    /\ <<>> \in Seq(FrameRecord)
  BY FrameReaderAssumption, EncodedRecord, CarriedRecord

\* The steps: a frame is written, or some are read, or nothing happens.
LEMMA Steps ==
    ASSUME TypeOK, [Next]_vars
    PROVE  \/ \E f \in OwnFrames : WriteOwn(f)
           \/ \E w \in ForeignFrames : WriteForeign(w)
           \/ /\ fed' \in Nat /\ fed <= fed' /\ fed' <= Written
              /\ UNCHANGED <<wire, said>>
              /\ \E last \in next - 1 .. Len(wire) : ReadUpTo(last)
           \/ UNCHANGED vars
  BY FeedReads DEF Next

\* Either kind of frame is written by Write.
LEMMA WriteSteps ==
    ASSUME (\E f \in OwnFrames : WriteOwn(f)) \/ (\E w \in ForeignFrames : WriteForeign(w))
    PROVE  \E w \in WireRecord, meant \in Seq(FrameRecord) : Write(w, meant)
  BY WritesFrames DEF WriteOwn, WriteForeign

\* Before anything is written, the types hold.
LEMMA InitTypeOK == Init => TypeOK
  BY DEF Init, TypeOK, Written, StartOf, Outcomes

\* Every step keeps the types.
LEMMA NextTypeOK == TypeOK /\ [Next]_vars => TypeOK'
  <1> SUFFICES ASSUME TypeOK, [Next]_vars PROVE TypeOK'
    OBVIOUS
  <1>1. CASE (\E f \in OwnFrames : WriteOwn(f)) \/ (\E w \in ForeignFrames : WriteForeign(w))
    BY <1>1, WriteSteps, WritePlaces
  <1>2. CASE /\ fed' \in Nat /\ fed <= fed' /\ fed' <= Written
             /\ UNCHANGED <<wire, said>>
             /\ \E last \in next - 1 .. Len(wire) : ReadUpTo(last)
    BY <1>2, ReadType
  <1>3. CASE UNCHANGED vars
    BY <1>3 DEF vars, TypeOK, Written, StartOf, EndOf
  <1> QED
    BY <1>1, <1>2, <1>3, Steps

\* The frames on the wire lie end to end, and read_buf starts with one.
THEOREM TypeCorrect == Spec => []TypeOK
  BY InitTypeOK, NextTypeOK, PTL DEF Spec
-------------------------------------------------------------------------------
(***************************************************************************)
(* What is left in read_buf                                                *)
(***************************************************************************)

\* When decode asks for more, the frame at next has not come, and what has come
\* of it is less than a frame of the greatest size.
LEMMA MoreFacts ==
    ASSUME TypeOK, NEW k \in 1 .. Len(wire) + 1, NEW have \in Nat, have <= Written,
           Decode(k, have) = "More"
    PROVE  /\ k > Len(wire) \/ EndOf(k) > have
           /\ have - StartOf(k) < FrameHeaderSize + MaxFrameSize
  <1>0. Len(wire) \in Nat /\ MaxFrameSize \in Nat
    BY Places, FrameReaderAssumption
  <1>1. CASE k > Len(wire)
    <2>1. StartOf(k) = Written /\ Written \in Nat
      BY <1>1, Places DEF StartOf
    <2> QED
      BY <1>0, <1>1, <2>1 DEF FrameHeaderSize
  <1>2. CASE k \in 1 .. Len(wire)
    <2>1. /\ wire[k].at \in Nat /\ wire[k].frame.len \in Nat
          /\ EndOf(k) = wire[k].at + FrameHeaderSize + wire[k].frame.len
          /\ StartOf(k) = wire[k].at
      BY <1>2, Places DEF EndOf
    <2>2. \/ wire[k].at + FrameHeaderSize > have
          \/ wire[k].frame.len <= MaxFrameSize /\ EndOf(k) > have
      BY <1>0, <1>2, <2>1 DEF Decode, FrameHeaderSize
    <2>3. EndOf(k) > have
      BY <2>1, <2>2 DEF FrameHeaderSize
    <2>4. have - wire[k].at < FrameHeaderSize + MaxFrameSize
      <3>1. CASE wire[k].at + FrameHeaderSize > have
        BY <1>0, <2>1, <3>1 DEF FrameHeaderSize
      <3>2. CASE wire[k].frame.len <= MaxFrameSize /\ EndOf(k) > have
        BY <1>0, <2>1, <3>2 DEF FrameHeaderSize
      <3> QED
        BY <2>2, <3>1, <3>2
    <2> QED
      BY <2>1, <2>3, <2>4
  <1> QED
    BY <1>0, <1>1, <1>2

\* Every step keeps both: a frame written is not there before it is read.
LEMMA NextLeft ==
    TypeOK /\ NothingLeftWhole /\ BufferBounded /\ [Next]_vars
       => NothingLeftWhole' /\ BufferBounded'
  <1> SUFFICES ASSUME TypeOK, NothingLeftWhole, BufferBounded, [Next]_vars, outcome' = "More"
               PROVE  /\ (next > Len(wire) \/ EndOf(next) > fed)'
                      /\ (fed - StartOf(next) < FrameHeaderSize + MaxFrameSize)'
    BY DEF NothingLeftWhole, BufferBounded
  <1>1. CASE (\E f \in OwnFrames : WriteOwn(f)) \/ (\E w \in ForeignFrames : WriteForeign(w))
    <2>1. PICK w \in WireRecord, meant \in Seq(FrameRecord) : Write(w, meant)
      BY <1>1, WriteSteps
    <2>2. /\ Len(wire') = Len(wire) + 1
          /\ \A k \in 1 .. Len(wire) : wire'[k] = wire[k] /\ EndOf(k)' = EndOf(k)
          /\ wire'[Len(wire) + 1] = [at |-> Written, frame |-> w]
          /\ StartOf(next)' = StartOf(next)
          /\ UNCHANGED <<fed, next, handled, outcome>>
      BY <2>1, WritePlaces
    <2>3. PICK k \in 1 .. Len(wire) + 1 : k = next
      BY DEF TypeOK
    <2>4. EndOf(k)' > fed'
      <3>1. CASE k \in 1 .. Len(wire)
        BY <2>2, <2>3, <3>1, Places DEF NothingLeftWhole
      <3>2. CASE k = Len(wire) + 1
        <4>1. EndOf(k)' = Written + FrameHeaderSize + w.len
          BY <2>2, <3>2 DEF EndOf
        <4>2. Written \in Nat /\ fed \in Nat /\ fed <= Written /\ w.len \in Nat
          BY Places DEF TypeOK, WireRecord
        <4> QED
          BY <2>2, <4>1, <4>2 DEF FrameHeaderSize
      <3> QED
        BY <3>1, <3>2, Places
    <2>5. (EndOf(next) > fed)'
      BY <2>2, <2>3, <2>4
    <2>6. fed - StartOf(next) < FrameHeaderSize + MaxFrameSize
      BY <2>2 DEF BufferBounded
    <2> QED
      BY <2>2, <2>5, <2>6
  <1>2. CASE /\ fed' \in Nat /\ fed <= fed' /\ fed' <= Written
             /\ UNCHANGED <<wire, said>>
             /\ \E last \in next - 1 .. Len(wire) : ReadUpTo(last)
    <2>1. PICK last \in next - 1 .. Len(wire) : ReadUpTo(last)
      BY <1>2
    <2>2. PICK k \in 1 .. Len(wire) + 1 : k = next' /\ Decode(k, fed') = "More"
      BY <1>2, <2>1, ReadPlaces
    <2>3. /\ k > Len(wire) \/ EndOf(k) > fed'
          /\ fed' - StartOf(k) < FrameHeaderSize + MaxFrameSize
      BY <1>2, <2>2, MoreFacts
    <2>4. EndOf(k)' = EndOf(k) /\ StartOf(k)' = StartOf(k) /\ Len(wire') = Len(wire)
      BY <1>2 DEF EndOf, StartOf, Written
    <2> QED
      BY <2>2, <2>3, <2>4
  <1>3. CASE UNCHANGED vars
    BY <1>3 DEF vars, NothingLeftWhole, BufferBounded, StartOf, EndOf, Written
  <1> QED
    BY <1>1, <1>2, <1>3, Steps

\* Both hold before the first byte.
LEMMA InitLeft == Init => NothingLeftWhole /\ BufferBounded
  BY FrameReaderAssumption
     DEF Init, NothingLeftWhole, BufferBounded, StartOf, Written, FrameHeaderSize

\* Whatever the sizes of the reads, no whole frame waits in read_buf for a read
\* that need not come.
THEOREM NothingLeftWholeHolds == Spec => []NothingLeftWhole
  BY InitLeft, NextLeft, TypeCorrect, PTL DEF Spec

\* read_buf holds less than a header and the greatest payload while the decoder
\* waits, whatever lengths the peer announces.
THEOREM BufferBoundedHolds == Spec => []BufferBounded
  BY InitLeft, NextLeft, TypeCorrect, PTL DEF Spec
-------------------------------------------------------------------------------
(***************************************************************************)
(* A frame that is too large: process_frames ended with TooLarge at a      *)
(* frame that is still the first in read_buf.                              *)
(***************************************************************************)
StuckAtNext == outcome = "TooLarge" => Decode(next, fed) = "TooLarge"

\* Nothing is handed over from a frame on that is too large.
LEMMA StuckReads ==
    ASSUME TypeOK, StuckAtNext, outcome = "TooLarge", NEW last, ReadUpTo(last),
           fed' \in Nat, fed <= fed', fed' <= Written, UNCHANGED wire
    PROVE  last = next - 1 /\ handled' = handled /\ next' = next
  <1>0. /\ next \in Nat \ {0} /\ fed \in Nat /\ Len(wire) \in Nat
        /\ last \in next - 1 .. Len(wire) /\ handled \in Seq(FrameRecord)
    BY Places DEF TypeOK, ReadUpTo
  <1>1. /\ next \in 1 .. Len(wire) /\ wire[next].at + FrameHeaderSize <= fed
        /\ wire[next].frame.len > MaxFrameSize
    BY <1>0, DecodeFacts DEF StuckAtNext
  <1>2. Decode(next, fed') = "TooLarge"
    <2>1. wire[next].at + FrameHeaderSize <= fed' /\ wire[next].at \in Nat
      BY <1>0, <1>1, Places DEF FrameHeaderSize
    <2> QED
      BY <1>0, <1>1, <2>1 DEF Decode, FrameHeaderSize
  <1>3. last = next - 1
    <2>1. ~(last >= next)
      BY <1>0, <1>2 DEF ReadUpTo
    <2> QED
      BY <1>0, <2>1
  <1>4. next' = next
    <2>1. last + 1 = next
      BY <1>0, <1>3
    <2>2. outcome' # "Rejected"
      BY <1>2, <2>1 DEF ReadUpTo
    <2> QED
      BY <2>1, <2>2 DEF ReadUpTo
  <1>5. handled' = handled
    <2>1. /\ handled' \in Seq(FrameRecord) /\ Len(handled') = Len(handled) + (last - next + 1)
          /\ \A m \in 1 .. Len(handled) : handled'[m] = handled[m]
      BY HandedOver
    <2>2. Len(handled') = Len(handled)
      BY <1>0, <1>3, <2>1
    <2> QED
      BY <1>0, <2>1, <2>2, SeqEqual
  <1> QED
    BY <1>3, <1>4, <1>5

\* Every step keeps the reader at the frame it refused.
LEMMA NextStuck == TypeOK /\ StuckAtNext /\ [Next]_vars => StuckAtNext'
  <1> SUFFICES ASSUME TypeOK, StuckAtNext, [Next]_vars, outcome' = "TooLarge"
               PROVE  Decode(next, fed)' = "TooLarge"
    BY DEF StuckAtNext
  <1>1. CASE (\E f \in OwnFrames : WriteOwn(f)) \/ (\E w \in ForeignFrames : WriteForeign(w))
    <2>1. PICK w \in WireRecord, meant \in Seq(FrameRecord) : Write(w, meant)
      BY <1>1, WriteSteps
    <2>2. /\ Len(wire') = Len(wire) + 1
          /\ \A k \in 1 .. Len(wire) : wire'[k] = wire[k]
          /\ UNCHANGED <<fed, next, outcome>>
      BY <2>1, WritePlaces
    <2>3. PICK k \in Nat \ {0} : k = next
      BY DEF TypeOK
    <2>4. /\ k \in 1 .. Len(wire) /\ wire[k].at + FrameHeaderSize <= fed
          /\ wire[k].frame.len > MaxFrameSize /\ fed \in Nat /\ wire[k].at \in Nat
          /\ Len(wire) \in Nat
      <3>1. fed \in Nat /\ Decode(k, fed) = "TooLarge"
        BY <2>2, <2>3 DEF StuckAtNext, TypeOK
      <3> QED
        BY <3>1, DecodeFacts, Places
    <2>5. Decode(k, fed') = "TooLarge" /\ ~(k > Len(wire')) /\ wire'[k] = wire[k]
      BY <2>2, <2>4 DEF Decode, FrameHeaderSize
    <2> QED
      BY <2>2, <2>3, <2>4, <2>5 DEF Decode, FrameHeaderSize
  <1>2. CASE /\ fed' \in Nat /\ fed <= fed' /\ fed' <= Written
             /\ UNCHANGED <<wire, said>>
             /\ \E last \in next - 1 .. Len(wire) : ReadUpTo(last)
    <2>1. PICK last \in next - 1 .. Len(wire) : ReadUpTo(last)
      BY <1>2
    <2>2. Decode(last + 1, fed') = "TooLarge" /\ next' = last + 1
      BY <1>2, <2>1, ReadPlaces
    <2> QED
      BY <1>2, <2>2 DEF Decode, EndOf
  <1>3. CASE UNCHANGED vars
    BY <1>3 DEF vars, StuckAtNext, Decode, EndOf
  <1> QED
    BY <1>1, <1>2, <1>3, Steps

\* A frame refused as too large is the first in read_buf for ever.
THEOREM StuckAtNextHolds == Spec => []StuckAtNext
  <1>1. Init => StuckAtNext
    BY DEF Init, StuckAtNext
  <1> QED
    BY <1>1, NextStuck, TypeCorrect, PTL DEF Spec

\* Behind a frame that is refused as too large nothing is handled any more.
THEOREM TooLargeIsFinalHolds == Spec => TooLargeIsFinal
  <1> DEFINE Stays == outcome = "TooLarge" => handled' = handled /\ next' = next
  <1>1. TypeOK /\ StuckAtNext /\ [Next]_vars => [Stays]_vars
    <2> SUFFICES ASSUME TypeOK, StuckAtNext, [Next]_vars, outcome = "TooLarge"
                 PROVE  handled' = handled /\ next' = next
      OBVIOUS
    <2>1. CASE (\E f \in OwnFrames : WriteOwn(f)) \/ (\E w \in ForeignFrames : WriteForeign(w))
      BY <2>1, WriteSteps, WritePlaces
    <2>2. CASE /\ fed' \in Nat /\ fed <= fed' /\ fed' <= Written
               /\ UNCHANGED <<wire, said>>
               /\ \E last \in next - 1 .. Len(wire) : ReadUpTo(last)
      BY <2>2, StuckReads
    <2>3. CASE UNCHANGED vars
      BY <2>3 DEF vars
    <2> QED
      BY <2>1, <2>2, <2>3, Steps
  <1> QED
    BY <1>1, TypeCorrect, StuckAtNextHolds, PTL DEF Spec, TooLargeIsFinal
-------------------------------------------------------------------------------
(***************************************************************************)
(* Frames arrive as they were meant.  Frame k, if it parses, is in said    *)
(* and in handled behind as many frames as parse before it: so far as no   *)
(* frame is too large, which ends what is handled.                         *)
(***************************************************************************)
Before(k) == Cardinality({j \in 1 .. k - 1 : Parses(wire[j].frame)})
Fit(k)    == \A j \in 1 .. k - 1 : wire[j].frame.len <= MaxFrameSize

SaidInOrder ==
    /\ Fit(Len(wire) + 1) => Len(said) = Before(Len(wire) + 1)
    /\ \A k \in 1 .. Len(wire) :
          Fit(k + 1) /\ Parses(wire[k].frame) =>
             Before(k) < Len(said) /\ said[Before(k) + 1] = Parsed(wire[k].frame)

HandledInOrder ==
    /\ Fit(next)
    /\ Len(handled) = Before(next) /\ Len(handled) <= Len(said)
    /\ \A m \in 1 .. Len(handled) : handled[m] = said[m]

\* The frames before are counted one by one.
BeforeCounted ==
    /\ Before(1) = 0
    /\ \A k \in Nat \ {0} : /\ Before(k) \in Nat
                            /\ Before(k + 1) = IF Parses(wire[k].frame)
                                               THEN Before(k) + 1 ELSE Before(k)

\* The count of the frames before a place is a number, and each frame adds to it.
LEMMA BeforeCounts == BeforeCounted
  <1>1. ASSUME NEW k \in Nat \ {0}
        PROVE  IsFiniteSet({j \in 1 .. k - 1 : Parses(wire[j].frame)}) /\ Before(k) \in Nat
    <2>1. {j \in 1 .. k - 1 : Parses(wire[j].frame)} \in SUBSET (1 .. k - 1)
      OBVIOUS
    <2>2. IsFiniteSet({j \in 1 .. k - 1 : Parses(wire[j].frame)})
      <3>1. IsFiniteSet(1 .. k - 1)
        BY FS_Interval
      <3> QED
        BY <2>1, <3>1, FS_Subset
    <2> QED
      BY <2>2, FS_CardinalityType DEF Before
  <1>2. ASSUME NEW k \in Nat \ {0}
        PROVE  Before(k + 1) = IF Parses(wire[k].frame) THEN Before(k) + 1 ELSE Before(k)
    <2> DEFINE old == {j \in 1 .. k - 1 : Parses(wire[j].frame)}
               new == {j \in 1 .. (k + 1) - 1 : Parses(wire[j].frame)}
    <2>1. new = IF Parses(wire[k].frame) THEN old \cup {k} ELSE old
      OBVIOUS
    <2>2. k \notin old
      OBVIOUS
    <2>4. IsFiniteSet(old)
      BY <1>1
    <2>3. Before(k + 1) = Cardinality(new) /\ Before(k) = Cardinality(old)
      BY DEF Before
    <2> HIDE DEF old, new
    <2> QED
      BY <2>1, <2>2, <2>3, <2>4, FS_AddElement
  <1>3. Before(1) = 0
    <2>1. {j \in 1 .. 1 - 1 : Parses(wire[j].frame)} = {}
      OBVIOUS
    <2> QED
      BY <2>1, FS_EmptySet DEF Before
  <1> QED
    BY <1>1, <1>2, <1>3 DEF BeforeCounted

\* Along frames that all parse the count grows by one each.
LEMMA BeforeRun ==
    ASSUME NEW k \in Nat \ {0}, NEW last \in Nat, last >= k - 1,
           \A j \in k .. last : Parses(wire[j].frame)
    PROVE  Before(last + 1) = Before(k) + (last - k + 1)
  <1> DEFINE old == {j \in 1 .. k - 1 : Parses(wire[j].frame)}
             new == {j \in 1 .. (last + 1) - 1 : Parses(wire[j].frame)}
  <1>1. new = old \cup (k .. last) /\ old \cap (k .. last) = {}
    OBVIOUS
  <1>2. IsFiniteSet(old) /\ Cardinality(old) \in Nat
    <2>1. old \in SUBSET (1 .. k - 1)
      OBVIOUS
    <2>2. IsFiniteSet(1 .. k - 1)
      BY FS_Interval
    <2> HIDE DEF old
    <2>3. IsFiniteSet(old)
      BY <2>1, <2>2, FS_Subset
    <2> QED
      BY <2>3, FS_CardinalityType
  <1>3. IsFiniteSet(k .. last) /\ Cardinality(k .. last) = last - k + 1
    <2>1. k \in Int /\ last \in Int
      OBVIOUS
    <2>2. Cardinality(k .. last) = IF k > last THEN 0 ELSE last - k + 1
      BY <2>1, FS_Interval
    <2>3. IsFiniteSet(k .. last)
      BY <2>1, FS_Interval
    <2> QED
      BY <2>2, <2>3
  <1>4. Before(last + 1) = Cardinality(new) /\ Before(k) = Cardinality(old)
    BY DEF Before
  <1> HIDE DEF old, new
  <1>5. Cardinality(new) = Cardinality(old) + Cardinality(k .. last) - Cardinality({})
    BY <1>1, <1>2, <1>3, FS_Union
  <1> QED
    BY <1>2, <1>3, <1>4, <1>5, FS_EmptySet

\* A frame written leaves the counts before it alone.
LEMMA BeforeStays ==
    ASSUME NEW n \in Nat, \A j \in 1 .. n : wire'[j] = wire[j]
    PROVE  \A k \in 1 .. n + 1 : Before(k)' = Before(k) /\ Fit(k)' = Fit(k)
  <1> SUFFICES ASSUME NEW k \in 1 .. n + 1
               PROVE  Before(k)' = Before(k) /\ Fit(k)' = Fit(k)
    OBVIOUS
  <1>1. \A j \in 1 .. k - 1 : wire'[j] = wire[j]
    OBVIOUS
  <1>2. {j \in 1 .. k - 1 : Parses(wire'[j].frame)} = {j \in 1 .. k - 1 : Parses(wire[j].frame)}
    BY <1>1
  <1>3. Before(k)' = Before(k)
    BY <1>2 DEF Before
  <1>4. Fit(k)' = Fit(k)
    BY <1>1 DEF Fit
  <1> QED
    BY <1>3, <1>4

\* What the peer means by a frame that is not too large is what the decoder
\* makes of it.
Means(w, meant) ==
    w.len <= MaxFrameSize => meant = IF Parses(w) THEN <<Parsed(w)>> ELSE <<>>

\* A frame is written with its meaning, whoever writes it.
LEMMA WritesMeaning ==
    ASSUME NothingOnlyPadded,
           (\E f \in OwnFrames : WriteOwn(f)) \/ (\E w \in ForeignFrames : WriteForeign(w))
    PROVE  \E w \in WireRecord, meant \in Seq(FrameRecord) :
              Write(w, meant) /\ Means(w, meant)
  <1>1. ASSUME NEW f \in OwnFrames, WriteOwn(f)
        PROVE  \E w \in WireRecord, meant \in Seq(FrameRecord) :
                  Write(w, meant) /\ Means(w, meant)
    <2>1. f \in FrameRecord /\ WellFormed(f)
      BY FrameReaderAssumption
    <2>2. Means(Encoded(f), <<f>>)
      BY <2>1, OwnFrameParses DEF Means
    <2> QED
      BY <1>1, <2>2, WritesFrames DEF WriteOwn
  <1>2. ASSUME NEW w \in ForeignFrames, WriteForeign(w)
        PROVE  \E v \in WireRecord, meant \in Seq(FrameRecord) :
                  Write(v, meant) /\ Means(v, meant)
    <2>1. w \in WireRecord /\ Canonical(w)
      BY FrameReaderAssumption
    <2>2. ASSUME NEW f \in Carried(w), Write(w, <<f>>)
          PROVE  Means(w, <<f>>) /\ <<f>> \in Seq(FrameRecord)
      <3>1. ~OnlyPadded(w)
        BY DEF NothingOnlyPadded
      <3> QED
        BY <2>1, <3>1, CarriedParses, WritesFrames DEF Means
    <2>3. ASSUME Carried(w) = {}
          PROVE  Means(w, <<>>)
      BY <2>1, <2>3, AcceptedIsCarried DEF Means
    <2> QED
      BY <1>2, <2>1, <2>2, <2>3, WritesFrames DEF WriteForeign
  <1> QED
    BY <1>1, <1>2

\* Writing keeps both orders.
LEMMA WriteOrder ==
    ASSUME TypeOK, SaidInOrder, HandledInOrder, NEW w \in WireRecord,
           NEW meant \in Seq(FrameRecord), Write(w, meant), Means(w, meant)
    PROVE  SaidInOrder' /\ HandledInOrder'
  <1>0. PICK n \in Nat : n = Len(wire)
    BY Places
  <1>1. /\ Len(wire') = n + 1
        /\ \A k \in 1 .. n : wire'[k] = wire[k]
        /\ wire'[n + 1].frame = w
        /\ UNCHANGED <<fed, next, handled, outcome>>
    <2>1. wire'[Len(wire) + 1] = [at |-> Written, frame |-> w]
      BY WritePlaces
    <2>2. wire'[n + 1].frame = w
      BY <1>0, <2>1
    <2> QED
      BY <1>0, <2>2, WritePlaces
  <1>2. /\ said' \in Seq(FrameRecord) /\ said \in Seq(FrameRecord) /\ Len(said) \in Nat
        /\ Len(said') = Len(said) + Len(meant) /\ Len(meant) \in Nat
        /\ \A m \in 1 .. Len(said) : said'[m] = said[m]
        /\ \A m \in 1 .. Len(meant) : said'[Len(said) + m] = meant[m]
    <2>1. said \in Seq(FrameRecord) /\ said' = said \o meant
      BY DEF TypeOK, Write
    <2> QED
      BY <2>1, ConcatProperties, LenProperties
  <1>3. \A k \in 1 .. n + 1 : Before(k)' = Before(k) /\ Fit(k)' = Fit(k) /\ Before(k) \in Nat
    <2>1. \A k \in 1 .. n + 1 : k \in Nat \ {0}
      OBVIOUS
    <2>2. \A k \in Nat \ {0} : Before(k) \in Nat
      BY BeforeCounts DEF BeforeCounted
    <2>3. \A k \in 1 .. n + 1 : Before(k)' = Before(k) /\ Fit(k)' = Fit(k)
      BY <1>1, BeforeStays
    <2> QED
      BY <2>1, <2>2, <2>3
  <1>4. ASSUME Fit(n + 2)'
        PROVE  /\ w.len <= MaxFrameSize /\ Len(said) = Before(n + 1)
               /\ Before(n + 2)' = IF Parses(w) THEN Before(n + 1) + 1 ELSE Before(n + 1)
    <2>1. w.len <= MaxFrameSize
      BY <1>1, <1>4 DEF Fit
    <2>2. Fit(n + 1)'
      BY <1>4 DEF Fit
    <2>3. Len(said) = Before(n + 1)
      BY <1>0, <1>3, <2>2 DEF SaidInOrder
    <2>4. Before((n + 1) + 1)' = IF Parses(wire'[n + 1].frame)
                                 THEN Before(n + 1)' + 1 ELSE Before(n + 1)'
      <3>1. BeforeCounted'
        BY BeforeCounts, PTL
      <3> QED
        BY <3>1 DEF BeforeCounted
    <2> QED
      BY <1>1, <1>3, <2>1, <2>3, <2>4
  <1>5. \/ /\ Len(meant) = (IF Parses(w) THEN 1 ELSE 0)
           /\ Parses(w) => meant[1] = Parsed(w)
        \/ ~(w.len <= MaxFrameSize)
    BY DEF Means
  <1>6. ASSUME NEW k \in 1 .. Len(wire'), Fit(k + 1)', Parses(wire'[k].frame)
        PROVE  Before(k)' < Len(said') /\ said'[Before(k)' + 1] = Parsed(wire'[k].frame)
    <2>1. CASE k \in 1 .. n
      <3>1. Fit(k + 1) /\ Parses(wire[k].frame) /\ Before(k)' = Before(k) /\ Before(k) \in Nat
        <4>1. k + 1 \in 1 .. n + 1 /\ k \in 1 .. n + 1
          BY <2>1
        <4> QED
          BY <1>1, <1>3, <1>6, <2>1, <4>1
      <3>2. Before(k) < Len(said) /\ said[Before(k) + 1] = Parsed(wire[k].frame)
        BY <1>0, <2>1, <3>1 DEF SaidInOrder
      <3>3. Before(k) + 1 \in 1 .. Len(said)
        BY <1>2, <3>1, <3>2
      <3>4. Before(k) < Len(said')
        BY <1>2, <3>1, <3>2
      <3> QED
        BY <1>1, <1>2, <2>1, <3>1, <3>2, <3>3, <3>4
    <2>2. CASE k = n + 1
      <3>1. Fit(n + 2)' /\ Parses(w) /\ wire'[k].frame = w /\ Before(k)' = Before(n + 1)
        <4>1. n + 1 \in 1 .. n + 1 /\ k + 1 = n + 2
          BY <2>2
        <4> QED
          BY <1>1, <1>3, <1>6, <2>2, <4>1
      <3>2. Len(said) = Before(n + 1) /\ Len(meant) = 1 /\ meant[1] = Parsed(w)
        BY <1>4, <1>5, <3>1
      <3>3. said'[Len(said) + 1] = Parsed(w) /\ Len(said') = Len(said) + 1
        BY <1>2, <3>2
      <3> QED
        BY <1>2, <3>1, <3>2, <3>3
    <2> QED
      BY <1>1, <2>1, <2>2
  <1>7. Fit(Len(wire) + 1)' => Len(said') = Before(Len(wire) + 1)'
    <2>1. ASSUME Fit(n + 2)' PROVE Len(said') = Before(n + 2)'
      <3>1. Before(n + 1) \in Nat /\ w.len <= MaxFrameSize /\ Len(said) = Before(n + 1)
            /\ Before(n + 2)' = IF Parses(w) THEN Before(n + 1) + 1 ELSE Before(n + 1)
        BY <1>3, <1>4, <2>1
      <3> QED
        BY <1>2, <1>5, <3>1
    <2>2. Len(wire') + 1 = n + 2
      BY <1>1
    <2> QED
      BY <2>1, <2>2
  <1>8. SaidInOrder'
    BY <1>6, <1>7 DEF SaidInOrder
  <1>9. HandledInOrder'
    <2>1. PICK k \in 1 .. n + 1 : k = next
      BY <1>0 DEF TypeOK
    <2>2. Fit(k)' /\ Len(handled) = Before(k)' /\ next' = k /\ handled' = handled
      BY <1>1, <1>3, <2>1 DEF HandledInOrder
    <2>3. Len(handled) \in Nat /\ Len(handled) <= Len(said)
      BY LenProperties DEF TypeOK, HandledInOrder
    <2>4. /\ Len(handled) <= Len(said')
          /\ \A m \in 1 .. Len(handled) : handled[m] = said'[m]
      <3>1. \A m \in 1 .. Len(handled) : handled[m] = said[m] /\ m \in 1 .. Len(said)
        BY <1>2, <2>3 DEF HandledInOrder
      <3>2. Len(handled) <= Len(said')
        BY <1>2, <2>3
      <3> QED
        BY <1>2, <3>1, <3>2
    <2>5. Fit(next)' /\ Len(handled') = Before(next)'
      BY <2>2
    <2>6. /\ Len(handled') <= Len(said')
          /\ \A m \in 1 .. Len(handled') : handled'[m] = said'[m]
      BY <2>2, <2>4
    <2> QED
      BY <2>5, <2>6 DEF HandledInOrder
  <1> QED
    BY <1>8, <1>9

\* Reading keeps both orders: the frames handed over are the next ones said.
LEMMA ReadOrder ==
    ASSUME TypeOK, SaidInOrder, HandledInOrder, NEW last, ReadUpTo(last),
           fed' \in Nat, fed <= fed', fed' <= Written, UNCHANGED <<wire, said>>
    PROVE  SaidInOrder' /\ HandledInOrder'
  <1>0. /\ Len(wire) \in Nat /\ next \in 1 .. Len(wire) + 1 /\ last \in next - 1 .. Len(wire)
        /\ last \in Nat /\ Len(handled) \in Nat /\ Len(said) \in Nat /\ next \in Nat \ {0}
    BY Places, LenProperties DEF TypeOK, ReadUpTo
  <1>1. \A k : Before(k)' = Before(k) /\ Fit(k)' = Fit(k)
    BY DEF Before, Fit
  <1>2. SaidInOrder'
    <2>1. Fit(Len(wire) + 1)' = Fit(Len(wire) + 1) /\ Before(Len(wire) + 1)' = Before(Len(wire) + 1)
      BY DEF Before, Fit
    <2> QED
      BY <1>1, <2>1 DEF SaidInOrder
  <1>3. \A j \in next .. last : /\ j \in 1 .. Len(wire) /\ Parses(wire[j].frame)
                                /\ wire[j].frame.len <= MaxFrameSize
    <2>1. ASSUME NEW j \in next .. last
          PROVE  j \in 1 .. Len(wire) /\ Parses(wire[j].frame)
                 /\ wire[j].frame.len <= MaxFrameSize
      <3>1. j \in Nat \ {0} /\ Decode(j, fed') = "Frame"
        BY <1>0 DEF ReadUpTo
      <3> QED
        BY <3>1, DecodeFacts
    <2> QED
      BY <2>1
  <1>4. Fit(last + 1)
    BY <1>0, <1>3 DEF Fit, HandledInOrder
  <1>5. Before(last + 1) = Before(next) + (last - next + 1)
    BY <1>0, <1>3, BeforeRun
  <1>6. /\ Len(handled') = Len(handled) + (last - next + 1)
        /\ \A m \in 1 .. Len(handled) : handled'[m] = handled[m]
        /\ \A m \in Len(handled) + 1 .. Len(handled') :
              /\ next + (m - Len(handled)) - 1 \in next .. last
              /\ handled'[m] = Parsed(wire[next + (m - Len(handled)) - 1].frame)
    BY HandedOver
  <1>7. Len(handled') = Before(last + 1) /\ Before(last + 1) \in Nat
    BY <1>0, <1>5, <1>6, BeforeCounts DEF HandledInOrder, BeforeCounted
  <1>8. ASSUME NEW m \in Len(handled) + 1 .. Len(handled')
        PROVE  m <= Len(said) /\ handled'[m] = said[m]
    <2>1. PICK j \in next .. last : /\ j = next + (m - Len(handled)) - 1
                                    /\ handled'[m] = Parsed(wire[j].frame)
      BY <1>6
    <2>2. j \in 1 .. Len(wire) /\ Parses(wire[j].frame) /\ Fit(j + 1)
      <3>1. j \in 1 .. Len(wire) /\ Parses(wire[j].frame)
        BY <1>3
      <3>2. \A i \in 1 .. (j + 1) - 1 : i \in 1 .. (last + 1) - 1
        BY <1>0
      <3> QED
        BY <1>4, <3>1, <3>2 DEF Fit
    <2>3. Before(j) < Len(said) /\ said[Before(j) + 1] = Parsed(wire[j].frame)
      BY <2>2 DEF SaidInOrder
    <2>4. Before(j) = Before(next) + (j - next)
      <3>1. j - 1 \in Nat /\ j - 1 >= next - 1 /\ \A i \in next .. j - 1 : i \in next .. last
        BY <1>0
      <3>2. Before((j - 1) + 1) = Before(next) + ((j - 1) - next + 1)
        BY <1>0, <1>3, <3>1, BeforeRun
      <3>3. (j - 1) + 1 = j /\ (j - 1) - next + 1 = j - next
        BY <1>0
      <3> QED
        BY <3>2, <3>3
    <2>5. Before(j) + 1 = m /\ m \in Int
      <3>1. m \in Int /\ j \in Int /\ next \in Int /\ Len(handled) \in Int
        BY <1>0, <1>7, <2>1
      <3>2. Before(j) = Len(handled) + (j - next)
        BY <2>4 DEF HandledInOrder
      <3>3. j = next + (m - Len(handled)) - 1
        BY <2>1
      <3> QED
        BY ONLY <3>1, <3>2, <3>3
    <2>6. Before(j) \in Nat
      <3>1. j \in Nat \ {0}
        BY <1>0, <2>1
      <3> QED
        BY <3>1, BeforeCounts DEF BeforeCounted
    <2> QED
      BY <1>0, <2>1, <2>3, <2>5, <2>6
  <1>9. /\ Len(handled') <= Len(said)
        /\ \A m \in 1 .. Len(handled') : handled'[m] = said[m]
    <2>1. \A m \in 1 .. Len(handled) : handled[m] = said[m]
      BY DEF HandledInOrder
    <2>2. Len(handled) <= Len(said) /\ Len(handled') \in Nat
      BY <1>7 DEF HandledInOrder
    <2>3. Len(handled') <= Len(said)
      <3>1. CASE Len(handled') = Len(handled)
        BY <2>2, <3>1
      <3>2. CASE Len(handled') \in Len(handled) + 1 .. Len(handled')
        BY <1>8, <3>2
      <3>3. last - next + 1 >= 0 /\ Len(handled') >= Len(handled)
        BY <1>0, <1>6
      <3>4. Len(handled') = Len(handled) \/ Len(handled') \in Len(handled) + 1 .. Len(handled')
        BY <1>0, <2>2, <3>3
      <3> QED
        BY <3>1, <3>2, <3>4, Zenon
    <2>4. \A m \in 1 .. Len(handled') :
             m \in 1 .. Len(handled) \/ m \in Len(handled) + 1 .. Len(handled')
      BY <1>0, <2>2
    <2> QED
      BY <1>6, <1>8, <2>1, <2>3, <2>4
  <1>a. PICK k \in 1 .. Len(wire) + 1 : k = next' /\ Fit(k) /\ Len(handled') = Before(k)
    <2>1. CASE outcome' = "Rejected"
      <3>1. /\ last + 1 \in 1 .. Len(wire) /\ next' = last + 2 /\ last + 2 \in 1 .. Len(wire) + 1
            /\ ~Parses(wire[last + 1].frame) /\ wire[last + 1].frame.len <= MaxFrameSize
        BY <1>0, <2>1, ReadPlaces
      <3>2. Before((last + 1) + 1) = Before(last + 1) /\ (last + 1) + 1 = last + 2
        BY <1>0, <3>1, BeforeCounts DEF BeforeCounted
      <3>3. Fit(last + 2)
        BY <1>0, <1>4, <3>1 DEF Fit
      <3> QED
        BY <1>7, <3>1, <3>2, <3>3
    <2>2. CASE outcome' # "Rejected"
      <3>1. next' = last + 1 /\ last + 1 \in 1 .. Len(wire) + 1
        BY <2>2, ReadPlaces
      <3> QED
        BY <1>4, <1>7, <3>1
    <2> QED
      BY <2>1, <2>2
  <1>b. Fit(next)' /\ Len(handled') = Before(next)'
    <2>1. Fit(k)' /\ Len(handled') = Before(k)'
      BY <1>1, <1>a
    <2> QED
      BY <1>a, <2>1
  <1>c. HandledInOrder'
    BY <1>9, <1>b DEF HandledInOrder
  <1> QED
    BY <1>2, <1>c

\* Nothing said, nothing handled.
LEMMA InitOrder == Init => SaidInOrder /\ HandledInOrder
  <1> SUFFICES ASSUME Init PROVE SaidInOrder /\ HandledInOrder
    OBVIOUS
  <1>1. Len(wire) = 0 /\ Len(said) = 0 /\ Len(handled) = 0 /\ next = 1
    BY DEF Init
  <1>2. Before(1) = 0
    BY BeforeCounts DEF BeforeCounted
  <1>3. Fit(1)
    BY DEF Fit
  <1> QED
    BY <1>1, <1>2, <1>3 DEF SaidInOrder, HandledInOrder

\* Every step keeps both orders.
LEMMA NextOrder ==
    ASSUME NothingOnlyPadded
    PROVE  TypeOK /\ SaidInOrder /\ HandledInOrder /\ [Next]_vars
              => SaidInOrder' /\ HandledInOrder'
  <1> SUFFICES ASSUME TypeOK, SaidInOrder, HandledInOrder, [Next]_vars
               PROVE  SaidInOrder' /\ HandledInOrder'
    OBVIOUS
  <1>1. CASE (\E f \in OwnFrames : WriteOwn(f)) \/ (\E w \in ForeignFrames : WriteForeign(w))
    BY <1>1, WritesMeaning, WriteOrder
  <1>2. CASE /\ fed' \in Nat /\ fed <= fed' /\ fed' <= Written
             /\ UNCHANGED <<wire, said>>
             /\ \E last \in next - 1 .. Len(wire) : ReadUpTo(last)
    BY <1>2, ReadOrder
  <1>3. CASE UNCHANGED vars
    BY <1>3 DEF vars, SaidInOrder, HandledInOrder, Before, Fit
  <1> QED
    BY <1>1, <1>2, <1>3, Steps

\* What is handled is always the first part of what was meant.
THEOREM OrderHolds ==
    ASSUME NothingOnlyPadded PROVE Spec => [](SaidInOrder /\ HandledInOrder)
  <1>1. TypeOK /\ SaidInOrder /\ HandledInOrder /\ [Next]_vars => SaidInOrder' /\ HandledInOrder'
    BY NextOrder
  <1> QED
    BY <1>1, InitOrder, TypeCorrect, PTL DEF Spec

\* A step of the reader is a step of the channel, or none.
LEMMA StepRefines ==
    ASSUME TypeOK, TypeOK', HandledInOrder', [Next]_vars
    PROVE  [Channel!Next]_<<said, handled>>
  <1>0. /\ said \in Seq(FrameRecord) /\ handled \in Seq(FrameRecord)
        /\ said' \in Seq(FrameRecord) /\ handled' \in Seq(FrameRecord)
        /\ Len(said) \in Nat /\ Len(handled) \in Nat /\ Len(handled') \in Nat
    BY DEF TypeOK
  <1>1. CASE (\E f \in OwnFrames : WriteOwn(f)) \/ (\E w \in ForeignFrames : WriteForeign(w))
    <2>1. PICK w \in WireRecord, meant \in Seq(FrameRecord) : Write(w, meant)
      BY <1>1, WriteSteps
    <2>2. said' = said \o meant /\ handled' = handled
      BY <2>1 DEF Write
    <2>3. /\ Len(said') = Len(said) + Len(meant) /\ Len(meant) \in Nat
          /\ \A m \in 1 .. Len(said) : said'[m] = said[m]
      BY <1>0, <2>2, ConcatProperties, LenProperties
    <2>4. CASE Len(meant) = 0
      <3>1. said' = said
        BY <1>0, <2>3, <2>4, SeqEqual
      <3> QED
        BY <2>2, <3>1
    <2>5. CASE Len(meant) # 0
      <3>1. Len(said') > Len(said)
        BY <1>0, <2>3, <2>5
      <3>2. SubSeq(said', 1, Len(said)) = said
        <4>1. /\ SubSeq(said', 1, Len(said)) \in Seq(FrameRecord)
              /\ Len(SubSeq(said', 1, Len(said))) = Len(said)
              /\ \A m \in 1 .. Len(said) : SubSeq(said', 1, Len(said))[m] = said'[m]
          BY <1>0, <3>1, SubSeqProperties
        <4> QED
          BY <1>0, <2>3, <4>1, SeqEqual
      <3> QED
        BY <2>2, <3>1, <3>2 DEF Channel!Next, Channel!Send
    <2> QED
      BY <2>4, <2>5
  <1>2. CASE UNCHANGED <<wire, said>> /\ \E last \in next - 1 .. Len(wire) : ReadUpTo(last)
    <2>1. PICK last : ReadUpTo(last) /\ last \in next - 1 .. Len(wire)
      BY <1>2
    <2>2. /\ Len(handled') >= Len(handled)
          /\ \A m \in 1 .. Len(handled) : handled'[m] = handled[m]
      <3>1. fed' \in Nat
        BY DEF TypeOK
      <3>2. /\ Len(handled') = Len(handled) + (last - next + 1)
            /\ \A m \in 1 .. Len(handled) : handled'[m] = handled[m]
        BY <2>1, <3>1, HandedOver
      <3> QED
        BY <1>0, <2>1, <3>2 DEF TypeOK
    <2>3. CASE Len(handled') = Len(handled)
      <3>1. handled' = handled
        BY <1>0, <2>2, <2>3, SeqEqual
      <3> QED
        BY <1>2, <3>1
    <2>4. CASE Len(handled') > Len(handled)
      <3>1. /\ Len(handled') <= Len(said)
            /\ \A m \in 1 .. Len(handled') : handled'[m] = said[m]
        BY <1>2 DEF HandledInOrder
      <3>2. handled' = SubSeq(said, 1, Len(handled'))
        <4>1. /\ SubSeq(said, 1, Len(handled')) \in Seq(FrameRecord)
              /\ Len(SubSeq(said, 1, Len(handled'))) = Len(handled')
              /\ \A m \in 1 .. Len(handled') : SubSeq(said, 1, Len(handled'))[m] = said[m]
          BY <1>0, <3>1, SubSeqProperties
        <4> QED
          BY <1>0, <3>1, <4>1, SeqEqual
      <3> QED
        BY <1>2, <2>4, <3>1, <3>2 DEF Channel!Next, Channel!Receive
    <2> QED
      BY <1>0, <2>2, <2>3, <2>4
  <1>3. CASE UNCHANGED vars
    BY <1>3 DEF vars
  <1> QED
    BY <1>1, <1>2, <1>3, Steps

\* The frames handled are those the peer wrote, each once and in order, for
\* every split of the byte stream into reads, for every padding but one that is
\* all there is, for malformed frames between them and handlers that fail: the
\* reader implements the channel of Fifo.
THEOREM HandlesWhatWasSaidHolds == ASSUME NothingOnlyPadded PROVE Spec => HandlesWhatWasSaid
  <1>1. Init => Channel!Init
    BY DEF Init, Channel!Init
  <1> QED
    BY <1>1, StepRefines, TypeCorrect, OrderHolds, PTL DEF Spec, HandlesWhatWasSaid, Channel!Spec
-------------------------------------------------------------------------------
(***************************************************************************)
(* The header of a frame: its nine bytes say what was written, for every   *)
(* length, type, flags and stream id.                                      *)
(***************************************************************************)

\* Three bytes hold the 24 low bits of a number.
LEMMA ThreeBytes ==
    ASSUME NEW n \in Nat
    PROVE  /\ (n \div 65536) % 256 \in Byte
           /\ (n \div 256) % 256 \in Byte
           /\ n % 256 \in Byte
           /\ ((n \div 65536) % 256) * 65536 + ((n \div 256) % 256) * 256 + (n % 256)
                 = n % 16777216
  BY SMTT(60) DEF Byte

\* Four bytes hold a number of 31 bits, the first one with its top bit clear.
LEMMA FourBytes ==
    ASSUME NEW n \in Nat, n < 128 * 16777216
    PROVE  /\ n \div 16777216 \in 0 .. 127
           /\ (n \div 16777216) * 16777216 + ((n \div 65536) % 256) * 65536
                 + ((n \div 256) % 256) * 256 + (n % 256) = n
<1>1. n \div 16777216 \in 0 .. 127
  BY SMT
<1>2. (n \div 16777216) * 16777216 + (n % 16777216) = n
  BY SMT
<1>3. ((n \div 65536) % 256) * 65536 + ((n \div 256) % 256) * 256 + (n % 256) = n % 16777216
  BY ThreeBytes, SMT
<1>. QED  BY <1>1, <1>2, <1>3, SMT

\* What is behind the four bytes of a stream id, its top bit set or not.
LEMMA StreamIdRead ==
    ASSUME NEW n \in Nat, n < 128 * 16777216, NEW reserved \in {0, 128}
    PROVE  Get31(Put31(n)[1] + reserved, Put31(n)[2], Put31(n)[3], Put31(n)[4]) = n
<1>1. (n \div 16777216 + reserved) % 128 = n \div 16777216
  BY FourBytes, SMT
<1>2. Get31(Put31(n)[1] + reserved, Put31(n)[2], Put31(n)[3], Put31(n)[4])
         = ((n \div 16777216 + reserved) % 128) * 16777216 + ((n \div 65536) % 256) * 65536
              + ((n \div 256) % 256) * 256 + (n % 256)
  BY SMT DEF Get31, Put31
<1>. QED  BY <1>1, <1>2, FourBytes, SMT

\* write_header and peek_header: what is read is what was written, the length
\* modulo 2^24, whether or not the reserved bit of the stream id was set on the
\* way.
THEOREM HeaderRoundTrip ==
    ASSUME NEW length \in Nat, NEW code \in Byte, NEW flags \in Byte,
           NEW id \in Nat, id < 128 * 16777216, NEW reserved \in {0, 128}, NEW b,
           \A k \in (1 .. 9) \ {6} : b[k] = WriteHeader(length, code, flags, id)[k],
           b[6] = WriteHeader(length, code, flags, id)[6] + reserved
    PROVE  PeekHeader(b)
              = [length |-> length % 16777216, code |-> code, flags |-> flags, id |-> id]
<1>1. /\ b[1] = (length \div 65536) % 256 /\ b[2] = (length \div 256) % 256 /\ b[3] = length % 256
      /\ b[4] = code /\ b[5] = flags
      /\ b[6] = Put31(id)[1] + reserved
      /\ b[7] = Put31(id)[2] /\ b[8] = Put31(id)[3] /\ b[9] = Put31(id)[4]
  BY SMT DEF WriteHeader
<1>2. b[1] * 65536 + b[2] * 256 + b[3] = length % 16777216
  BY <1>1, ThreeBytes, SMT
<1>3. Get31(b[6], b[7], b[8], b[9]) = id
  BY <1>1, StreamIdRead, SMT
<1>. QED  BY <1>1, <1>2, <1>3, SMT DEF PeekHeader

-------------------------------------------------------------------------------
(***************************************************************************)
(* Byte strings end to end, and the numbers in them.                       *)
(***************************************************************************)

\* Two byte strings end to end: what is in front and what is behind.
LEMMA EndToEnd ==
    ASSUME NEW a \in Seq(Byte), NEW b \in Seq(Byte)
    PROVE  SubSeq(a \o b, 1, Len(a)) = a /\ Drop(a \o b, Len(a)) = b
  <1>1. PICK m \in Nat, n \in Nat : m = Len(a) /\ n = Len(b)
    BY LenProperties
  <1>2. PICK ab : ab = a \o b
    OBVIOUS
  <1>3. /\ Len(ab) = m + n
        /\ \A i \in 1 .. m + n : ab[i] = IF i <= m THEN a[i] ELSE b[i - m]
    BY <1>1, <1>2, ConcatProperties
  <1>4. /\ \A i \in 1 .. m : ab[i] = a[i] /\ a[i] \in Byte
        /\ \A i \in m + 1 .. m + n : ab[i] = b[i - m] /\ b[i - m] \in Byte
    <2>1. ASSUME NEW i \in 1 .. m PROVE ab[i] = a[i] /\ a[i] \in Byte
      BY <1>1, <1>3, ElementOfSeq
    <2>2. ASSUME NEW i \in m + 1 .. m + n PROVE ab[i] = b[i - m] /\ b[i - m] \in Byte
      <3>1. i - m \in 1 .. Len(b) /\ i \in 1 .. m + n /\ ~(i <= m)
        BY <1>1
      <3> QED
        BY <1>3, <3>1, ElementOfSeq
    <2> QED
      BY <2>1, <2>2
  <1>5. SubSeq(ab, 1, m) = a
    <2>1. PICK s : s = SubSeq(ab, 1, m)
      OBVIOUS
    <2>2. s \in Seq(Byte) /\ Len(s) = m /\ \A i \in 1 .. m : s[i] = ab[i]
      <3>1. /\ SubSeq(ab, 1, m) \in Seq(Byte)
            /\ Len(SubSeq(ab, 1, m)) = IF 1 <= m THEN m - 1 + 1 ELSE 0
            /\ \A i \in 1 .. m - 1 + 1 : SubSeq(ab, 1, m)[i] = ab[1 + i - 1]
        BY <1>4, SubSeqProperties
      <3>2. \A i \in 1 .. m : i \in 1 .. m - 1 + 1 /\ 1 + i - 1 = i
        OBVIOUS
      <3> QED
        BY <2>1, <3>1, <3>2
    <2> QED
      BY <1>1, <1>4, <2>1, <2>2, SeqEqual
  <1>6. SubSeq(ab, m + 1, m + n) = b
    <2>1. PICK s : s = SubSeq(ab, m + 1, m + n)
      OBVIOUS
    <2>2. s \in Seq(Byte) /\ Len(s) = n /\ \A i \in 1 .. n : s[i] = ab[m + i]
      <3>1. /\ SubSeq(ab, m + 1, m + n) \in Seq(Byte)
            /\ Len(SubSeq(ab, m + 1, m + n)) = IF m + 1 <= m + n THEN m + n - (m + 1) + 1 ELSE 0
            /\ \A i \in 1 .. m + n - (m + 1) + 1 : SubSeq(ab, m + 1, m + n)[i] = ab[m + 1 + i - 1]
        BY <1>4, SubSeqProperties
      <3>2. \A i \in 1 .. n : i \in 1 .. m + n - (m + 1) + 1 /\ m + 1 + i - 1 = m + i
        OBVIOUS
      <3> QED
        BY <2>1, <3>1, <3>2
    <2>3. \A i \in 1 .. n : s[i] = b[i]
      <3>1. \A i \in 1 .. n : m + i \in m + 1 .. m + n /\ m + i - m = i
        OBVIOUS
      <3> QED
        BY <1>4, <2>2, <3>1
    <2> QED
      BY <1>1, <2>1, <2>2, <2>3, SeqEqual
  <1> QED
    BY <1>1, <1>2, <1>3, <1>5, <1>6 DEF Drop

\* The header in front of a payload reads as what was written.
LEMMA HeaderRead ==
    ASSUME NEW length \in Word24, NEW code \in Byte, NEW flags \in Byte, NEW id \in Word31,
           NEW behind \in Seq(Byte)
    PROVE  /\ WriteHeader(length, code, flags, id) \in Seq(Byte)
           /\ Len(WriteHeader(length, code, flags, id)) = 9
           /\ PeekHeader(WriteHeader(length, code, flags, id) \o behind)
                 = [length |-> length, code |-> code, flags |-> flags, id |-> id]
  <1>1. length \in Nat /\ id \in Nat
    BY SMT DEF Word24, Word31
  <1>2. PICK h : h = WriteHeader(length, code, flags, id)
    OBVIOUS
  <1>3. PICK x1, x2, x3, y1, y2, y3, y4 :
           /\ x1 = (length \div 65536) % 256 /\ x2 = (length \div 256) % 256 /\ x3 = length % 256
           /\ y1 = Put31(id)[1] /\ y2 = Put31(id)[2] /\ y3 = Put31(id)[3] /\ y4 = Put31(id)[4]
    OBVIOUS
  <1>4. h = <<x1, x2, x3, code, flags, y1, y2, y3, y4>>
    BY <1>2, <1>3 DEF WriteHeader
  <1>5. {x1, x2, x3} \subseteq Byte /\ x1 * 65536 + x2 * 256 + x3 = length
    <2>1. length % 16777216 = length
      BY SMT DEF Word24
    <2> QED
      BY <1>1, <1>3, <2>1, ThreeBytes, SMT
  <1>6. {y1, y2, y3, y4} \subseteq Byte
    <2>1. y1 = id \div 16777216 /\ y2 = (id \div 65536) % 256 /\ y3 = (id \div 256) % 256 /\ y4 = id % 256
      BY <1>3 DEF Put31
    <2>2. y1 \in 0 .. 127
      BY <1>1, <2>1, FourBytes, SMT DEF Word31
    <2>3. y2 \in Byte /\ y3 \in Byte /\ y4 \in Byte
      BY <1>1, <2>1, ThreeBytes, SMT
    <2> QED
      BY <2>2, <2>3 DEF Byte
  <1>7. Get31(y1, y2, y3, y4) = id
    <2>1. Get31(Put31(id)[1] + 0, Put31(id)[2], Put31(id)[3], Put31(id)[4]) = id
      BY <1>1, StreamIdRead, SMT DEF Word31
    <2>2. y1 \in 0 .. 255
      BY <1>6 DEF Byte
    <2>3. y1 + 0 = y1
      BY <2>2
    <2> QED
      BY <1>3, <2>1, <2>3
  <1>8. h \in Seq(Byte) /\ Len(h) = 9
    BY <1>4, <1>5, <1>6
  <1>9. PICK b : b = h \o behind
    OBVIOUS
  <1>10. \A k \in 1 .. 9 : b[k] = h[k]
    <2>1. Len(behind) \in Nat
      BY LenProperties
    <2>2. \A k \in 1 .. Len(h) + Len(behind) :
             b[k] = IF k <= Len(h) THEN h[k] ELSE behind[k - Len(h)]
      BY <1>8, <1>9, ConcatProperties
    <2> QED
      BY <1>8, <2>1, <2>2
  <1>11. /\ b[1] = x1 /\ b[2] = x2 /\ b[3] = x3 /\ b[4] = code /\ b[5] = flags
         /\ b[6] = y1 /\ b[7] = y2 /\ b[8] = y3 /\ b[9] = y4
    BY <1>4, <1>10
  <1>12. PeekHeader(b) = [length |-> length, code |-> code, flags |-> flags, id |-> id]
    BY <1>5, <1>7, <1>11 DEF PeekHeader
  <1> QED
    BY <1>2, <1>8, <1>9, <1>12

\* decode takes the header and as many bytes as it announces, and leaves the rest.
LEMMA FrameCut ==
    ASSUME NEW payload \in Seq(Byte), Len(payload) \in Word24, NEW rest \in Seq(Byte),
           NEW code \in Byte, NEW flags \in Byte, NEW id \in Word31
    PROVE  DecodeFrame(WriteHeader(Len(payload), code, flags, id) \o payload \o rest)
              = [frame |-> ParseFrame([length |-> Len(payload), code |-> code, flags |-> flags,
                                       id |-> id], payload),
                 rest  |-> rest]
  <1>1. PICK n \in Nat : n = Len(payload)
    BY LenProperties
  <1>2. PICK h : h = WriteHeader(n, code, flags, id)
    OBVIOUS
  <1>3. PICK head : head = [length |-> n, code |-> code, flags |-> flags, id |-> id]
    OBVIOUS
  <1>4. PICK tail : tail = payload \o rest
    OBVIOUS
  <1>5. tail \in Seq(Byte)
    BY <1>4, ConcatProperties
  <1>6. n \in Word24
    BY <1>1
  <1>7. h \in Seq(Byte) /\ Len(h) = 9 /\ PeekHeader(h \o tail) = head
    BY <1>2, <1>3, <1>5, <1>6, HeaderRead
  <1>8. h \o payload \o rest = h \o tail
    BY <1>4, <1>7, ConcatAssociative
  <1>9. PICK buf : buf = h \o tail
    OBVIOUS
  <1>10. PICK front : front = h \o payload
    OBVIOUS
  <1>11. front \in Seq(Byte) /\ Len(front) = 9 + n /\ buf = front \o rest
    <2>1. front \in Seq(Byte) /\ Len(front) = Len(h) + Len(payload)
      BY <1>7, <1>10, ConcatProperties
    <2> QED
      BY <1>1, <1>7, <1>8, <1>9, <1>10, <2>1
  <1>12. Drop(buf, 9 + n) = rest /\ SubSeq(buf, 1, 9 + n) = front
    BY <1>11, EndToEnd
  <1>13. SubSeq(buf, 10, 9 + n) = payload
    <2>1. Drop(front, 9) = payload
      BY <1>7, <1>10, EndToEnd
    <2>2. SubSeq(front, 10, 9 + n) = payload
      BY <1>11, <2>1 DEF Drop
    <2>3. CASE n = 0
      <3>1. payload = <<>>
        BY <1>1, <2>3, EmptySeq
      <3>2. SubSeq(buf, 10, 9 + n) = <<>>
        BY <2>3, SubSeqEmpty
      <3> QED
        BY <3>1, <3>2
    <2>4. CASE n > 0
      <3>1. 10 \in 1 .. Len(front) /\ 9 + n \in 1 .. Len(front)
        BY <1>11, <2>4
      <3>2. SubSeq(front \o rest, 10, 9 + n) = SubSeq(front, 10, 9 + n)
        BY <1>11, <3>1, SubSeqOfConcat1
      <3> QED
        BY <1>11, <2>2, <3>2
    <2> QED
      BY <2>3, <2>4
  <1>14. head.length = n
    BY <1>3
  <1>15. DecodeFrame(buf) = [frame |-> ParseFrame(head, payload), rest |-> rest]
    <2>1. FrameHeaderSize + head.length = 9 + n /\ FrameHeaderSize + 1 = 10
      BY <1>14 DEF FrameHeaderSize
    <2> QED
      BY <1>7, <1>9, <1>12, <1>13, <2>1 DEF DecodeFrame
  <1> QED
    BY <1>1, <1>2, <1>3, <1>8, <1>9, <1>15

\* What is in front can be read as if nothing were behind it.
LEMMA InFront ==
    ASSUME NEW a \in Seq(Byte), NEW b \in Seq(Byte)
    PROVE  /\ a \o b \in Seq(Byte) /\ Len(a \o b) = Len(a) + Len(b) /\ Len(b) \in Nat
           /\ \A k \in 1 .. Len(a) : (a \o b)[k] = a[k]
           /\ Drop(a \o b, Len(a)) = b
  <1>1. Len(a) \in Nat /\ Len(b) \in Nat
    BY LenProperties
  <1>2. /\ a \o b \in Seq(Byte) /\ Len(a \o b) = Len(a) + Len(b)
        /\ \A i \in 1 .. Len(a) + Len(b) : (a \o b)[i] = IF i <= Len(a) THEN a[i] ELSE b[i - Len(a)]
    BY ConcatProperties
  <1>3. \A k \in 1 .. Len(a) : k \in 1 .. Len(a) + Len(b) /\ k <= Len(a)
    BY <1>1
  <1> QED
    BY <1>1, <1>2, <1>3, EndToEnd

\* A flag can be read whatever the other flags are.
LEMMA FlagsRead ==
    ASSUME NEW a \in BOOLEAN, NEW b \in BOOLEAN, NEW c \in BOOLEAN, NEW flags,
           flags = Flag(a, END_STREAM) + Flag(b, END_HEADERS) + Flag(c, PRIORITY)
    PROVE  /\ flags \in Byte /\ ~HasFlag(flags, PADDED)
           /\ HasFlag(flags, END_STREAM) = a /\ HasFlag(flags, ACK) = a
           /\ HasFlag(flags, END_HEADERS) = b /\ HasFlag(flags, PRIORITY) = c
  <1>1. flags = (IF a THEN 1 ELSE 0) + (IF b THEN 4 ELSE 0) + (IF c THEN 32 ELSE 0)
    BY DEF Flag, END_STREAM, END_HEADERS, PRIORITY
  <1>2. flags \in 0 .. 255
    BY <1>1
  <1>3. /\ (flags \div 8) % 2 # 1
        /\ (flags \div 1) % 2 = 1 <=> a
        /\ (flags \div 4) % 2 = 1 <=> b
        /\ (flags \div 32) % 2 = 1 <=> c
    BY <1>1
  <1> QED
    BY <1>2, <1>3 DEF HasFlag, Byte, ACK, END_STREAM, END_HEADERS, PRIORITY, PADDED

\* Every type of frame but UNKNOWN has its code.
LEMMA TypeCodes ==
    ASSUME NEW f, f.type \in OnStream \cup OnConnection \cup {"WINDOW_UPDATE"}
    PROVE  CodeOfType(f) \in 0 .. 9 /\ TypeOfCode(CodeOfType(f)) = f.type
  <1>1. PICK type : type = f.type
    OBVIOUS
  <1>2. /\ TypeOfCode(0) = "DATA" /\ TypeOfCode(1) = "HEADERS" /\ TypeOfCode(2) = "PRIORITY"
        /\ TypeOfCode(3) = "RST_STREAM" /\ TypeOfCode(4) = "SETTINGS"
        /\ TypeOfCode(5) = "PUSH_PROMISE" /\ TypeOfCode(6) = "PING" /\ TypeOfCode(7) = "GOAWAY"
        /\ TypeOfCode(8) = "WINDOW_UPDATE" /\ TypeOfCode(9) = "CONTINUATION"
    BY DEF TypeOfCode, TypeNames, KnownCode
  <1>3. \E code \in 0 .. 9 : TypeOfCode(code) = type
    BY <1>1, <1>2 DEF OnStream, OnConnection
  <1>4. type # "UNKNOWN"
    BY <1>1 DEF OnStream, OnConnection
  <1> QED
    BY <1>1, <1>3, <1>4 DEF CodeOfType

\* Two bytes hold a number of 16 bits.
LEMMA TwoBytes ==
    ASSUME NEW n \in Word16
    PROVE  n \div 256 \in Byte /\ n % 256 \in Byte /\ Get16(n \div 256, n % 256) = n
  BY SMT DEF Byte, Get16, Word16

\* Four bytes of a u32.
LEMMA Word32Read ==
    ASSUME NEW u \in Word32
    PROVE  /\ PutU32(u) \in Seq(Byte) /\ Len(PutU32(u)) = 4
           /\ \A b, at : (\A k \in 1 .. 4 : b[at + k - 1] = PutU32(u)[k]) /\ at \in Nat
                            => GetU32(b, at) = u
  <1>1. PICK hi \in Word16, lo \in Word16 : u = <<hi, lo>>
    BY DEF Word32
  <1>2. u[1] = hi /\ u[2] = lo
    BY <1>1
  <1>3. PICK a, b, c, d : a = hi \div 256 /\ b = hi % 256 /\ c = lo \div 256 /\ d = lo % 256
    OBVIOUS
  <1>4. {a, b, c, d} \subseteq Byte /\ Get16(a, b) = hi /\ Get16(c, d) = lo
    BY <1>3, TwoBytes
  <1>5. PutU32(u) = <<a, b>> \o <<c, d>>
    BY <1>2, <1>3 DEF PutU32, Put16
  <1>6. PutU32(u) = <<a, b, c, d>>
    BY <1>4, <1>5, PairAndPair
  <1>7. PutU32(u) \in Seq(Byte) /\ Len(PutU32(u)) = 4
    BY <1>4, <1>6
  <1>8. ASSUME NEW s, NEW at \in Nat, \A k \in 1 .. 4 : s[at + k - 1] = PutU32(u)[k]
        PROVE  GetU32(s, at) = u
    <2>1. s[at] = a /\ s[at + 1] = b /\ s[at + 2] = c /\ s[at + 3] = d
      <3>1. s[at + 1 - 1] = a /\ s[at + 2 - 1] = b /\ s[at + 3 - 1] = c /\ s[at + 4 - 1] = d
        BY <1>6, <1>8
      <3>2. at + 1 - 1 = at /\ at + 2 - 1 = at + 1 /\ at + 3 - 1 = at + 2 /\ at + 4 - 1 = at + 3
        OBVIOUS
      <3> QED
        BY <3>1, <3>2
    <2> QED
      BY <1>1, <1>4, <2>1 DEF GetU32
  <1> QED
    BY <1>7, <1>8

\* Four bytes of a number of 31 bits.
LEMMA Word31Read ==
    ASSUME NEW n \in Word31
    PROVE  /\ Put31(n) \in Seq(Byte) /\ Len(Put31(n)) = 4
           /\ \A b : (\A k \in 1 .. 4 : b[k] = Put31(n)[k]) => GetId(b, 1) = n
  <1>1. n \in Nat
    BY DEF Word31
  <1>2. PICK y1, y2, y3, y4 : y1 = Put31(n)[1] /\ y2 = Put31(n)[2] /\ y3 = Put31(n)[3] /\ y4 = Put31(n)[4]
    OBVIOUS
  <1>3. y1 = n \div 16777216 /\ y2 = (n \div 65536) % 256 /\ y3 = (n \div 256) % 256 /\ y4 = n % 256
    BY <1>2, SMT DEF Put31
  <1>4. y1 \in 0 .. 127
    BY <1>1, <1>3, FourBytes, SMT DEF Word31
  <1>5. y2 \in Byte /\ y3 \in Byte /\ y4 \in Byte
    BY <1>1, <1>3, ThreeBytes, SMT
  <1>6. y1 \in Byte /\ y1 + 0 = y1
    BY <1>4 DEF Byte
  <1>7. Put31(n) = <<y1, y2, y3, y4>>
    BY <1>3, SMT DEF Put31
  <1>8. Get31(y1, y2, y3, y4) = n
    <2>1. Get31(Put31(n)[1] + 0, Put31(n)[2], Put31(n)[3], Put31(n)[4]) = n
      BY <1>1, StreamIdRead, SMT DEF Word31
    <2> QED
      BY <1>2, <1>6, <2>1
  <1>9. Put31(n) \in Seq(Byte) /\ Len(Put31(n)) = 4
    BY <1>5, <1>6, <1>7
  <1>10. ASSUME NEW b, \A k \in 1 .. 4 : b[k] = Put31(n)[k] PROVE GetId(b, 1) = n
    <2>1. b[1] = y1 /\ b[2] = y2 /\ b[3] = y3 /\ b[4] = y4
      BY <1>2, <1>10
    <2>2. 1 + 1 = 2 /\ 1 + 2 = 3 /\ 1 + 3 = 4
      OBVIOUS
    <2> QED
      BY <1>8, <2>1, <2>2 DEF GetId
  <1> QED
    BY <1>9, <1>10

\* Five bytes of a priority.
LEMMA PriorityRead ==
    ASSUME NEW p \in Priority
    PROVE  /\ PutPriority(p) \in Seq(Byte) /\ Len(PutPriority(p)) = 5
           /\ \A b : (\A k \in 1 .. 5 : b[k] = PutPriority(p)[k]) => GetPriority(b) = p
  <1>1. PICK e \in BOOLEAN, n \in Word31, w \in Byte :
           e = p.exclusive /\ n = p.dependency /\ w = p.weight
    BY DEF Priority
  <1>2. p = [exclusive |-> e, dependency |-> n, weight |-> w]
    BY <1>1 DEF Priority
  <1>3. n \in Nat
    BY DEF Word31
  <1>4. PICK y1, y2, y3, y4 : y1 = Put31(n)[1] /\ y2 = Put31(n)[2] /\ y3 = Put31(n)[3] /\ y4 = Put31(n)[4]
    OBVIOUS
  <1>5. y1 = n \div 16777216 /\ y2 = (n \div 65536) % 256 /\ y3 = (n \div 256) % 256 /\ y4 = n % 256
    BY <1>4, SMT DEF Put31
  <1>6. y1 \in 0 .. 127
    BY <1>3, <1>5, FourBytes, SMT DEF Word31
  <1>7. y2 \in Byte /\ y3 \in Byte /\ y4 \in Byte
    BY <1>3, <1>5, ThreeBytes, SMT
  <1>8. PICK z : z = y1 + (IF e THEN 128 ELSE 0)
    OBVIOUS
  <1>9. z \in Byte /\ (z >= 128 <=> e)
    BY <1>6, <1>8 DEF Byte
  <1>10. PutPriority(p) = <<z, y2, y3, y4, w>>
    BY <1>1, <1>4, <1>8 DEF PutPriority, Flag
  <1>11. Get31(z, y2, y3, y4) = n
    <2>1. \A reserved \in {0, 128} :
             Get31(Put31(n)[1] + reserved, Put31(n)[2], Put31(n)[3], Put31(n)[4]) = n
      BY <1>3, StreamIdRead, SMT DEF Word31
    <2> QED
      BY <1>4, <1>8, <2>1
  <1>12. PutPriority(p) \in Seq(Byte) /\ Len(PutPriority(p)) = 5
    BY <1>7, <1>9, <1>10
  <1>13. ASSUME NEW b, \A k \in 1 .. 5 : b[k] = PutPriority(p)[k] PROVE GetPriority(b) = p
    <2>1. b[1] = z /\ b[2] = y2 /\ b[3] = y3 /\ b[4] = y4 /\ b[5] = w
      BY <1>10, <1>13
    <2>2. GetId(b, 1) = n
      <3>1. 1 + 1 = 2 /\ 1 + 2 = 3 /\ 1 + 3 = 4
        OBVIOUS
      <3> QED
        BY <1>11, <2>1, <3>1 DEF GetId
    <2> QED
      BY <1>2, <1>9, <2>1, <2>2 DEF GetPriority
  <1> QED
    BY <1>12, <1>13

-------------------------------------------------------------------------------
(***************************************************************************)
(* Recursive functions and FlattenSeq: the settings of a frame.            *)
(***************************************************************************)

\* FlattenSeq puts one sequence behind the other.
LEMMA Flattened ==
    ASSUME NEW S, NEW seqs \in Seq(Seq(S))
    PROVE  \E f \in [0 .. Len(seqs) -> Seq(S)] :
              /\ f[0] = <<>> /\ f[Len(seqs)] = FlattenSeq(seqs)
              /\ \A k \in 1 .. Len(seqs) : f[k] = f[k - 1] \o seqs[k]
  <1>1. PICK n \in Nat : n = Len(seqs)
    BY LenProperties
  <1>2. \A k \in 1 .. n : seqs[k] \in Seq(S)
    BY <1>1, ElementOfSeq
  <1>3. PICK T : T = Seq(S)
    OBVIOUS
  <1>4. PICK step : step = [k \in 1 .. n |-> [s \in T |-> s \o seqs[k]]]
    OBVIOUS
  <1>5. step \in [1 .. n -> [T -> T]]
    <2>1. ASSUME NEW k \in 1 .. n, NEW s \in T PROVE s \o seqs[k] \in T
      BY <1>2, <1>3, <2>1, ConcatProperties
    <2> QED
      BY <1>4, <2>1
  <1>6. PICK e \in T : e = <<>>
    BY <1>3, EmptySeq
  <1>7. PICK f \in [0 .. n -> T] : f[0] = <<>> /\ \A k \in 1 .. n : f[k] = step[k][f[k - 1]]
    <2>1. \E f \in [0 .. n -> T] : f[0] = e /\ \A k \in 1 .. n : f[k] = step[k][f[k - 1]]
      <3>1. Chained(T, n, e, step)
        BY <1>5, Recursion DEF Successors
      <3> QED
        BY <3>1 DEF Chained
    <2> QED
      BY <1>6, <2>1
  <1>8. ASSUME NEW k \in 1 .. n PROVE f[k] = f[k - 1] \o seqs[k]
    <2>1. k - 1 \in 0 .. n
      OBVIOUS
    <2> QED
      BY <1>4, <1>7, <2>1
  <1>9. f[n] = FlattenSeq(seqs)
    <2>1. CASE n = 0
      <3>1. seqs = <<>>
        BY <1>1, <2>1, EmptySeq
      <3> QED
        BY <1>1, <1>7, <2>1, <3>1 DEF FlattenSeq
    <2>2. CASE n # 0
      <3> DEFINE Is(g) == g = [i \in 1 .. n |-> IF i = 1 THEN seqs[i] ELSE g[i - 1] \o seqs[i]]
      <3> DEFINE flat == CHOOSE g : Is(g)
      <3>1. FlattenSeq(seqs) = flat[n]
        BY <1>1, <2>2 DEF FlattenSeq
      <3>2. PICK h : h = [i \in 1 .. n |-> f[i]]
        OBVIOUS
      <3>3. Is(h)
        <4>1. ASSUME NEW i \in 1 .. n
              PROVE  f[i] = IF i = 1 THEN seqs[i] ELSE h[i - 1] \o seqs[i]
          <5>1. CASE i = 1
            <6>1. f[1] = <<>> \o seqs[1] /\ seqs[1] \in Seq(S)
              <7>1. 1 - 1 = 0
                OBVIOUS
              <7> QED
                BY <1>2, <1>7, <1>8, <5>1, <7>1
            <6> QED
              BY <5>1, <6>1, ConcatEmptySeq
          <5>2. CASE i # 1
            <6>1. i - 1 \in 1 .. n
              BY <5>2
            <6> QED
              BY <1>8, <3>2, <5>2, <6>1
          <5> QED
            BY <5>1, <5>2
        <4> QED
          BY <3>2, <4>1
      <3>4. Is(flat)
        <4> HIDE DEF Is
        <4> QED
          BY <3>3
      <3>5. flat = [i \in 1 .. n |-> IF i = 1 THEN seqs[i] ELSE flat[i - 1] \o seqs[i]]
        BY <3>4
      <3> HIDE DEF flat
      <3>6. \A i \in 1 .. n : flat[i] = IF i = 1 THEN seqs[i] ELSE flat[i - 1] \o seqs[i]
        BY <3>5
      <3> DEFINE P == {i \in 0 .. n : i # 0 => flat[i] = f[i]}
      <3>7. 0 \in P
        OBVIOUS
      <3>8. ASSUME NEW i \in 1 .. n, i - 1 \in P PROVE i \in P
        <4>1. CASE i = 1
          <5>1. h[1] = f[1] /\ h[1] = seqs[1]
            <6>1. 1 \in 1 .. n
              BY <4>1
            <6>2. h[1] = IF 1 = 1 THEN seqs[1] ELSE h[1 - 1] \o seqs[1]
              BY <3>3, <6>1
            <6> QED
              BY <3>2, <6>1, <6>2
          <5>2. 1 \in 1 .. n /\ i \in 0 .. n
            BY <4>1
          <5>3. flat[1] = seqs[1] /\ h[1] = f[1]
            BY <3>2, <3>6, <5>2
          <5>4. flat[i] = f[i]
            BY <4>1, <5>1, <5>3
          <5> QED
            BY <5>2, <5>4
        <4>2. CASE i # 1
          <5>1. i - 1 # 0 /\ flat[i - 1] = f[i - 1]
            BY <3>8, <4>2
          <5>2. flat[i] = f[i - 1] \o seqs[i]
            BY <3>6, <4>2, <5>1
          <5>3. f[i] = f[i - 1] \o seqs[i]
            BY <1>8
          <5>4. flat[i] = f[i]
            BY <5>2, <5>3
          <5>5. i \in 0 .. n
            OBVIOUS
          <5> QED
            BY <5>4, <5>5
        <4> QED
          BY <4>1, <4>2
      <3>9. \A i \in 0 .. n : i \in P
        <4> HIDE DEF P
        <4>1. \A i \in 1 .. n : i - 1 \in P => i \in P
          BY <3>8
        <4> QED
          BY <3>7, <4>1, UpTo
      <3> QED
        BY <2>2, <3>1, <3>9
    <2> QED
      BY <2>1, <2>2
  <1> QED
    BY <1>1, <1>3, <1>7, <1>8, <1>9

\* Sequences of one length, and the places of a sequence in which they are one
\* after the other.
InPieces(S, w) == {seqs \in Seq(Seq(S)) : \A k \in 1 .. Len(seqs) : Len(seqs[k]) = w}
MadeOf(whole, seqs, w) ==
    /\ Len(whole) = w * Len(seqs)
    /\ \A k \in 1 .. Len(seqs), i \in 1 .. w : whole[w * (k - 1) + i] = seqs[k][i]

\* FlattenSeq of pieces of equal length: where each of them stands.
LEMMA EqualPieces ==
    ASSUME NEW S, NEW w \in Nat, NEW seqs \in InPieces(S, w)
    PROVE  FlattenSeq(seqs) \in Seq(S) /\ MadeOf(FlattenSeq(seqs), seqs, w)
  <1> USE DEF InPieces
  <1>1. PICK n \in Nat : n = Len(seqs)
    BY LenProperties
  <1>2. PICK T : T = Seq(S)
    OBVIOUS
  <1>3. PICK f \in [0 .. n -> T] :
           /\ f[0] = <<>> /\ f[n] = FlattenSeq(seqs)
           /\ \A k \in 1 .. n : f[k] = f[k - 1] \o seqs[k]
    BY <1>1, <1>2, Flattened
  <1>4. \A k \in 1 .. n : seqs[k] \in Seq(S) /\ Len(seqs[k]) = w
    BY <1>1, ElementOfSeq
  <1> DEFINE Holds(m) == /\ Len(f[m]) = w * m
                         /\ \A k \in 1 .. m, i \in 1 .. w : f[m][w * (k - 1) + i] = seqs[k][i]
  <1> DEFINE P == {m \in 0 .. n : Holds(m)}
  <1>5. 0 \in P
    <2>1. Len(f[0]) = 0 /\ w * 0 = 0 /\ 1 .. 0 = {}
      BY <1>3, EmptySeq
    <2>2. Holds(0)
      BY <2>1
    <2> HIDE DEF Holds
    <2> QED
      BY <2>2
  <1>6. ASSUME NEW m \in 1 .. n, m - 1 \in P PROVE m \in P
    <2>1. m - 1 \in 0 .. n /\ m \in 0 .. n /\ m \in Nat /\ m - 1 \in Nat
      OBVIOUS
    <2>2. PICK a \in Seq(S) : a = f[m - 1]
      BY <1>2, <1>3, <2>1
    <2>3. PICK b \in Seq(S) : b = seqs[m] /\ Len(b) = w
      BY <1>4
    <2>4. PICK c \in Seq(S) : c = f[m]
      BY <1>2, <1>3, <2>1
    <2>5. c = a \o b
      BY <1>3, <2>2, <2>3, <2>4
    <2>6. /\ Len(a) = w * (m - 1)
          /\ \A k \in 1 .. m - 1, i \in 1 .. w : a[w * (k - 1) + i] = seqs[k][i]
      <3>1. Holds(m - 1)
        BY <1>6
      <3> QED
        BY <2>2, <3>1
    <2>7. PICK l \in Nat : l = w * (m - 1) /\ l + w = w * m
      <3>1. w * (m - 1) \in Nat /\ w * (m - 1) + w = w * m
        BY <2>1, SMT
      <3> QED
        BY <3>1
    <2>8. /\ Len(c) = l + w
          /\ \A i \in 1 .. l + w : c[i] = IF i <= l THEN a[i] ELSE b[i - l]
      <3>1. /\ Len(a \o b) = Len(a) + Len(b)
            /\ \A i \in 1 .. Len(a) + Len(b) : (a \o b)[i] =
                     IF i <= Len(a) THEN a[i] ELSE b[i - Len(a)]
        BY ConcatProperties
      <3> QED
        BY <2>3, <2>5, <2>6, <2>7, <3>1
    <2>9. ASSUME NEW k \in 1 .. m, NEW i \in 1 .. w
          PROVE  c[w * (k - 1) + i] = seqs[k][i]
      <3>1. CASE k = m
        <4>1. w * (k - 1) + i = l + i
          BY <2>7, <3>1
        <4>2. l + i \in 1 .. l + w /\ ~(l + i <= l) /\ l + i - l = i
          OBVIOUS
        <4>3. c[l + i] = b[i]
          BY <2>8, <4>2
        <4> QED
          BY <2>3, <3>1, <4>1, <4>3
      <3>2. CASE k # m
        <4>1. k \in 1 .. m - 1 /\ k \in Nat /\ k - 1 \in Nat /\ k <= m - 1
          BY <3>2
        <4>2. PICK at : at = w * (k - 1) + i
          OBVIOUS
        <4>3. PICK u \in Nat, v \in Nat : u = w * (k - 1) /\ v = w * k /\ v = u + w /\ v <= l
          <5>1. w * (k - 1) \in Nat /\ w * k \in Nat /\ w * (k - 1) + w = w * k
            BY <4>1, SMT
          <5>2. w * k <= w * (m - 1)
            <6>1. PICK x \in Nat, y \in Nat : x = k /\ y = m - 1 /\ x <= y
              BY <2>1, <4>1
            <6>2. w * x <= w * y
              BY <6>1, Multiples
            <6> QED
              BY <6>1, <6>2
          <5> QED
            BY <2>7, <5>1, <5>2
        <4>4. at = u + i /\ at \in 1 .. l + w /\ at <= l
          <5>1. at = u + i /\ u + w <= l
            BY <4>2, <4>3
          <5> QED
            BY <5>1
        <4>5. c[at] = a[at]
          BY <2>8, <4>4
        <4>6. a[at] = seqs[k][i]
          BY <2>6, <4>1, <4>2
        <4> QED
          BY <4>2, <4>5, <4>6
      <3> QED
        BY <3>1, <3>2
    <2>10. Len(f[m]) = w * m
      BY <2>4, <2>7, <2>8
    <2>11. Holds(m)
      BY <2>4, <2>9, <2>10
    <2> HIDE DEF Holds
    <2> QED
      BY <2>1, <2>11
  <1>7. \A m \in 0 .. n : m \in P
    <2> HIDE DEF P
    <2>1. \A m \in 1 .. n : m - 1 \in P => m \in P
      BY <1>6
    <2> QED
      BY <1>5, <2>1, UpTo
  <1>8. Holds(n)
    <2>1. n \in 0 .. n
      OBVIOUS
    <2> HIDE DEF Holds
    <2> QED
      BY <1>7, <2>1
  <1>9. f[n] \in Seq(S)
    BY <1>2, <1>3
  <1> QED
    BY <1>1, <1>3, <1>8, <1>9 DEF MadeOf

\* The bytes s stand in b, behind the first at.
Stands(b, at, s) == at \in Nat /\ \A i \in 1 .. Len(s) : b[at + i] = s[i]

\* Six bytes of a setting.
LEMMA OneSettingRead ==
    ASSUME NEW code \in Word16, NEW value \in Word32
    PROVE  /\ Put16(code) \o PutU32(value) \in Seq(Byte)
           /\ Len(Put16(code) \o PutU32(value)) = 6
           /\ \A b, at : Stands(b, at, Put16(code) \o PutU32(value))
                            => Get16(b[at + 1], b[at + 2]) = code /\ GetU32(b, at + 3) = value
  <1>1. PICK x, y : x = code \div 256 /\ y = code % 256
    OBVIOUS
  <1>2. x \in Byte /\ y \in Byte /\ Get16(x, y) = code
    BY <1>1, TwoBytes
  <1>3. PICK p : p = <<x, y>>
    OBVIOUS
  <1>4. p = Put16(code) /\ p \in Seq(Byte) /\ Len(p) = 2 /\ p[1] = x /\ p[2] = y
    BY <1>1, <1>2, <1>3 DEF Put16
  <1>5. PICK q \in Seq(Byte) : q = PutU32(value) /\ Len(q) = 4
    BY Word32Read
  <1>6. PICK s : s = p \o q
    OBVIOUS
  <1>7. s \in Seq(Byte) /\ Len(s) = 6
        /\ \A i \in 1 .. 6 : s[i] = IF i <= 2 THEN p[i] ELSE q[i - 2]
    <2>1. p \o q \in Seq(Byte) /\ Len(p \o q) = Len(p) + Len(q)
          /\ \A i \in 1 .. Len(p) + Len(q) : (p \o q)[i] = IF i <= Len(p) THEN p[i] ELSE q[i - Len(p)]
      BY <1>4, ConcatProperties
    <2> QED
      BY <1>4, <1>5, <1>6, <2>1
  <1>8. s[1] = x /\ s[2] = y /\ \A k \in 1 .. 4 : s[2 + k] = q[k]
    <2>1. s[1] = p[1] /\ s[2] = p[2]
      BY <1>7
    <2>2. ASSUME NEW k \in 1 .. 4 PROVE s[2 + k] = q[k]
      <3>1. 2 + k \in 1 .. 6 /\ ~(2 + k <= 2) /\ 2 + k - 2 = k
        OBVIOUS
      <3> QED
        BY <1>7, <3>1
    <2> QED
      BY <1>4, <2>1, <2>2
  <1>9. ASSUME NEW b, NEW at, Stands(b, at, s)
        PROVE  Get16(b[at + 1], b[at + 2]) = code /\ GetU32(b, at + 3) = value
    <2>0. at \in Nat /\ \A i \in 1 .. 6 : b[at + i] = s[i]
      BY <1>7, <1>9 DEF Stands
    <2>1. b[at + 1] = x /\ b[at + 2] = y
      BY <1>8, <2>0
    <2>2. PICK from \in Nat : from = at + 3
      BY <2>0
    <2>3. ASSUME NEW k \in 1 .. 4 PROVE b[from + k - 1] = q[k]
      <3>1. from + k - 1 = at + (2 + k) /\ 2 + k \in 1 .. 6
        BY <2>0, <2>2
      <3> QED
        BY <1>8, <2>0, <3>1
    <2>4. GetU32(b, from) = value
      BY <1>5, <2>3, Word32Read
    <2> QED
      BY <1>2, <2>1, <2>2, <2>4
  <1> QED
    BY <1>4, <1>5, <1>6, <1>7, <1>9

\* The settings that get_settings finds are the settings that were put.
LEMMA SettingsRead ==
    ASSUME NEW settings \in Seq(Setting)
    PROVE  /\ PutSettings(settings) \in Seq(Byte)
           /\ Len(PutSettings(settings)) = 6 * Len(settings)
           /\ GetSettings(PutSettings(settings)) = settings
  <1>1. PICK n \in Nat : n = Len(settings) /\ DOMAIN settings = 1 .. n
    BY LenProperties
  <1>2. PICK pieces : pieces = [k \in 1 .. n |-> Put16(settings[k].code) \o PutU32(settings[k].value)]
    OBVIOUS
  <1>3. \A k \in 1 .. n : settings[k] \in Setting
    BY <1>1, ElementOfSeq
  <1>4. \A k \in 1 .. n : settings[k].code \in Word16 /\ settings[k].value \in Word32
                          /\ settings[k] = [code |-> settings[k].code, value |-> settings[k].value]
    BY <1>3 DEF Setting
  <1>5. \A k \in 1 .. n : pieces[k] \in Seq(Byte) /\ Len(pieces[k]) = 6
    BY <1>2, <1>4, OneSettingRead
  <1>6. pieces \in Seq(Seq(Byte)) /\ Len(pieces) = n
    <2>1. pieces \in [1 .. n -> Seq(Byte)]
      BY <1>2, <1>5
    <2> QED
      BY <2>1
  <1>7. PICK b : b = FlattenSeq(pieces)
    OBVIOUS
  <1>8. /\ b \in Seq(Byte) /\ Len(b) = 6 * n
        /\ \A k \in 1 .. n, i \in 1 .. 6 : b[6 * (k - 1) + i] = pieces[k][i]
    <2>1. PICK w \in Nat : w = 6 /\ \A k \in 1 .. Len(pieces) : Len(pieces[k]) = w
      BY <1>5, <1>6
    <2>2. pieces \in InPieces(Byte, w)
      BY <1>6, <2>1 DEF InPieces
    <2>3. b \in Seq(Byte) /\ MadeOf(b, pieces, w)
      BY <1>7, <2>2, EqualPieces
    <2> QED
      BY <1>6, <2>1, <2>3 DEF MadeOf
  <1>9. PutSettings(settings) = b
    BY <1>1, <1>2, <1>7 DEF PutSettings
  <1>10. ASSUME NEW k \in 1 .. n
         PROVE  /\ Get16(b[6 * k - 5], b[6 * k - 4]) = settings[k].code
                /\ GetU32(b, 6 * k - 3) = settings[k].value
    <2>1. PICK at \in Nat : at = 6 * (k - 1)
      BY SMT
    <2>2. at + 1 = 6 * k - 5 /\ at + 2 = 6 * k - 4 /\ at + 3 = 6 * k - 3
      BY <2>1, SMT
    <2>3. \A i \in 1 .. 6 : b[at + i] = (Put16(settings[k].code) \o PutU32(settings[k].value))[i]
      BY <1>2, <1>8, <2>1
    <2>4. Get16(b[at + 1], b[at + 2]) = settings[k].code /\ GetU32(b, at + 3) = settings[k].value
      <3>1. PICK code \in Word16, value \in Word32 : code = settings[k].code /\ value = settings[k].value
        BY <1>4
      <3>2. PICK s : s = Put16(code) \o PutU32(value)
        OBVIOUS
      <3>3. Stands(b, at, s)
        <4>1. Len(s) = 6
          BY <3>1, <3>2, OneSettingRead
        <4> QED
          BY <2>3, <3>1, <3>2, <4>1 DEF Stands
      <3>4. Get16(b[at + 1], b[at + 2]) = code /\ GetU32(b, at + 3) = value
        BY <3>2, <3>3, OneSettingRead
      <3> QED
        BY <3>1, <3>4
    <2> QED
      BY <2>2, <2>4
  <1>11. Len(b) \div 6 = n
    BY <1>8, SMT
  <1>12. GetSettings(b) = [k \in 1 .. n |-> settings[k]]
    <2>1. GetSettings(b) = [k \in 1 .. n |-> [code  |-> Get16(b[6 * k - 5], b[6 * k - 4]),
                                             value |-> GetU32(b, 6 * k - 3)]]
      BY <1>11 DEF GetSettings
    <2>2. \A k \in 1 .. n : [code  |-> Get16(b[6 * k - 5], b[6 * k - 4]),
                             value |-> GetU32(b, 6 * k - 3)] = settings[k]
      BY <1>4, <1>10
    <2> QED
      BY <2>1, <2>2
  <1>13. settings = [k \in 1 .. n |-> settings[k]]
    BY <1>1
  <1> QED
    BY <1>1, <1>8, <1>9, <1>12, <1>13

-------------------------------------------------------------------------------
(***************************************************************************)
(* What the encoder writes the decoder reads.                              *)
(***************************************************************************)

\* What the encoder makes of a frame: a payload as long as the header says, with
\* code, flags and stream that fit into the header, and from these the parsers
\* make the frame again.
ComesBack(f) ==
    LET payload == PayloadOf(f)
        head    == [length |-> Len(payload), code |-> CodeOfType(f), flags |-> FlagsOf(f),
                    id |-> IdOf(f)]
    IN /\ payload \in Seq(Byte) /\ Len(payload) = PayloadLen(Outline(f))
       /\ CodeOfType(f) \in Byte /\ FlagsOf(f) \in Byte /\ IdOf(f) \in Word31
       /\ ParseFrame(head, payload) = f

\* Whatever the length in the header, these say f.
SayTogether(code, flags, id, payload, f) ==
    \A h : h.code = code /\ h.flags = flags /\ h.id = id => ParseFrame(h, payload) = f

\* The parts of the above, one by one.
LEMMA FromParts ==
    ASSUME NEW f, NEW payload \in Seq(Byte), NEW code \in Byte, NEW flags \in Byte, NEW id \in Word31,
           payload = PayloadOf(f), Len(payload) = PayloadLen(Outline(f)),
           code = CodeOfType(f), flags = FlagsOf(f), id = IdOf(f),
           SayTogether(code, flags, id, payload, f)
    PROVE  ComesBack(f)
  <1>1. PICK head : head = [length |-> Len(payload), code |-> code, flags |-> flags, id |-> id]
    OBVIOUS
  <1>2. ParseFrame(head, payload) = f
    BY <1>1 DEF SayTogether
  <1> QED
    BY <1>1, <1>2 DEF ComesBack

\* A type written is the type read.
LEMMA NamedCode ==
    ASSUME NEW f, f.type \in OnStream \cup OnConnection \cup {"WINDOW_UPDATE"}
    PROVE  CodeOfType(f) \in Byte /\ TypeOfCode(CodeOfType(f)) = f.type
  <1>1. CodeOfType(f) \in 0 .. 9
    BY TypeCodes
  <1> QED
    BY <1>1, TypeCodes DEF Byte

\* The lengths of the payloads that have a fixed one.
LEMMA LengthOfFixed ==
    /\ DOMAIN FixedLen = {"PRIORITY", "RST_STREAM", "PING", "WINDOW_UPDATE"}
    /\ FixedLen["PRIORITY"] = 5 /\ FixedLen["RST_STREAM"] = 4
    /\ FixedLen["PING"] = 8 /\ FixedLen["WINDOW_UPDATE"] = 4
  BY DEF FixedLen

\* One flag in the flags byte, or none.
LEMMA OneFlag ==
    ASSUME NEW a \in BOOLEAN
    PROVE  /\ Flag(a, END_STREAM) \in Byte /\ ~HasFlag(Flag(a, END_STREAM), PADDED)
           /\ HasFlag(Flag(a, END_STREAM), END_STREAM) = a
           /\ Flag(a, ACK) \in Byte /\ HasFlag(Flag(a, ACK), ACK) = a
           /\ Flag(a, END_HEADERS) \in Byte /\ ~HasFlag(Flag(a, END_HEADERS), PADDED)
           /\ HasFlag(Flag(a, END_HEADERS), END_HEADERS) = a
  <1>1. PICK n, m : n = Flag(a, END_STREAM) /\ m = Flag(a, END_HEADERS)
    OBVIOUS
  <1>2. n = (IF a THEN 1 ELSE 0) /\ m = (IF a THEN 4 ELSE 0) /\ n = Flag(a, ACK)
    BY <1>1 DEF Flag, END_STREAM, ACK, END_HEADERS
  <1>3. n \in 0 .. 255 /\ m \in 0 .. 255
    BY <1>2
  <1>4. /\ (n \div 8) % 2 # 1 /\ (m \div 8) % 2 # 1
        /\ (n \div 1) % 2 = 1 <=> a
        /\ (m \div 4) % 2 = 1 <=> a
    BY <1>2
  <1> QED
    BY <1>1, <1>2, <1>3, <1>4 DEF HasFlag, Byte, END_STREAM, ACK, END_HEADERS, PADDED

\* The frames come back, type by type.
LEMMA DataBack ==
    ASSUME NEW id \in StreamId, NEW endStream \in BOOLEAN, NEW data \in ByteString
    PROVE  ComesBack([type |-> "DATA", id |-> id, endStream |-> endStream, data |-> data])
  <1>1. PICK f : f = [type |-> "DATA", id |-> id, endStream |-> endStream, data |-> data]
    OBVIOUS
  <1>2. f.type = "DATA" /\ f.id = id /\ f.endStream = endStream /\ f.data = data
    BY <1>1
  <1>3. PICK code \in Byte : code = CodeOfType(f) /\ TypeOfCode(code) = "DATA"
    <2>1. f.type \in OnStream
      BY <1>2 DEF OnStream
    <2> QED
      BY <1>2, <2>1, NamedCode
  <1>4. PICK flags \in Byte : /\ flags = FlagsOf(f) /\ ~HasFlag(flags, PADDED)
                              /\ HasFlag(flags, END_STREAM) = endStream
    <2>1. FlagsOf(f) = Flag(endStream, END_STREAM)
      BY <1>2 DEF FlagsOf
    <2> QED
      BY <2>1, OneFlag
  <1>5. IdOf(f) = id /\ id \in Word31 /\ id # 0
    BY <1>2 DEF IdOf, OnConnection, StreamId
  <1>6. PayloadOf(f) = data /\ data \in Seq(Byte)
    BY <1>2 DEF PayloadOf, ByteString
  <1>7. PayloadLen(Outline(f)) = Len(data)
    <2>1. Outline(f).type = "DATA" /\ Outline(f).n = Len(data)
      BY <1>2 DEF Outline
    <2>2. Fixed("DATA", Outline(f).prio) = 0
      BY DEF Fixed
    <2>3. Len(data) \in Nat
      BY <1>6, LenProperties
    <2> QED
      BY <2>1, <2>2, <2>3, LengthOfFixed DEF PayloadLen
  <1>8. SayTogether(code, flags, id, data, f)
    <2> SUFFICES ASSUME NEW h, h.code = code, h.flags = flags, h.id = id
                 PROVE  ParseFrame(h, data) = f
      BY DEF SayTogether
    <2>1. ParseFrame(h, data) = ParseData(h, data)
      BY <1>3 DEF ParseFrame
    <2>2. ParseData(h, data) = [type |-> "DATA", id |-> id, endStream |-> endStream, data |-> data]
      BY <1>4, <1>5 DEF ParseData, Padded
    <2> QED
      BY <1>1, <2>1, <2>2
  <1>9. ComesBack(f)
    BY <1>3, <1>4, <1>5, <1>6, <1>7, <1>8, FromParts
  <1> QED
    BY <1>1, <1>9

\* What was written first is read first.
LEMMA PriorityInFront ==
    ASSUME NEW p \in Priority, NEW block \in Seq(Byte)
    PROVE  /\ PutPriority(p) \o block \in Seq(Byte)
           /\ Len(PutPriority(p) \o block) = 5 + Len(block) /\ Len(block) \in Nat
           /\ GetPriority(PutPriority(p) \o block) = p
           /\ Drop(PutPriority(p) \o block, 5) = block
  <1>1. PICK s \in Seq(Byte) : s = PutPriority(p) /\ Len(s) = 5
    BY PriorityRead
  <1>2. PICK b : b = s \o block
    OBVIOUS
  <1>3. /\ b \in Seq(Byte) /\ Len(b) = Len(s) + Len(block) /\ Len(block) \in Nat
        /\ \A k \in 1 .. Len(s) : b[k] = s[k]
        /\ Drop(b, Len(s)) = block
    BY <1>2, InFront
  <1>4. GetPriority(b) = p
    <2>1. \A k \in 1 .. 5 : b[k] = PutPriority(p)[k]
      BY <1>1, <1>3
    <2> QED
      BY <2>1, PriorityRead
  <1> QED
    BY <1>1, <1>2, <1>3, <1>4

\* HEADERS without a priority.
LEMMA PlainHeadersBack ==
    ASSUME NEW id \in StreamId, NEW endStream \in BOOLEAN, NEW endHeaders \in BOOLEAN,
           NEW block \in ByteString
    PROVE  ComesBack([type |-> "HEADERS", id |-> id, endStream |-> endStream,
                      endHeaders |-> endHeaders, priority |-> <<>>, block |-> block])
  <1>1. PICK f : f = [type |-> "HEADERS", id |-> id, endStream |-> endStream,
                      endHeaders |-> endHeaders, priority |-> <<>>, block |-> block]
    OBVIOUS
  <1>2. /\ f.type = "HEADERS" /\ f.id = id /\ f.endStream = endStream
        /\ f.endHeaders = endHeaders /\ f.priority = <<>> /\ f.block = block
    BY <1>1
  <1>3. PICK code \in Byte : code = CodeOfType(f) /\ TypeOfCode(code) = "HEADERS"
    <2>1. f.type \in OnStream
      BY <1>2 DEF OnStream
    <2> QED
      BY <1>2, <2>1, NamedCode
  <1>4. PICK flags \in Byte :
           /\ flags = FlagsOf(f) /\ ~HasFlag(flags, PADDED)
           /\ HasFlag(flags, END_STREAM) = endStream /\ HasFlag(flags, END_HEADERS) = endHeaders
           /\ HasFlag(flags, PRIORITY) = FALSE
    <2>1. PICK prio \in BOOLEAN : prio = FALSE /\ (f.priority # <<>> <=> prio)
      BY <1>2
    <2>2. PICK flags : flags = Flag(endStream, END_STREAM) + Flag(endHeaders, END_HEADERS)
                               + Flag(prio, PRIORITY)
      OBVIOUS
    <2>3. flags = FlagsOf(f)
      BY <1>2, <2>1, <2>2 DEF FlagsOf, Flag
    <2>4. /\ flags \in Byte /\ ~HasFlag(flags, PADDED)
          /\ HasFlag(flags, END_STREAM) = endStream /\ HasFlag(flags, END_HEADERS) = endHeaders
          /\ HasFlag(flags, PRIORITY) = prio
      BY <2>2, FlagsRead
    <2> QED
      BY <2>1, <2>3, <2>4
  <1>5. IdOf(f) = id /\ id \in Word31 /\ id # 0
    BY <1>2 DEF IdOf, OnConnection, StreamId
  <1>6. PayloadOf(f) = block /\ block \in Seq(Byte)
    BY <1>2 DEF PayloadOf, ByteString
  <1>7. PayloadLen(Outline(f)) = Len(block)
    <2>1. PICK o : o = Outline(f)
      OBVIOUS
    <2>2. o.type = "HEADERS" /\ ~o.prio /\ o.n = Len(block)
      BY <1>2, <2>1 DEF Outline
    <2>3. Fixed(o.type, o.prio) = 0
      BY <2>2 DEF Fixed
    <2>4. PayloadLen(o) = o.n + Fixed(o.type, o.prio)
      BY <2>2, LengthOfFixed DEF PayloadLen
    <2>5. Len(block) \in Nat
      BY <1>6, LenProperties
    <2> QED
      BY <2>1, <2>2, <2>3, <2>4, <2>5
  <1>8. SayTogether(code, flags, id, block, f)
    <2> SUFFICES ASSUME NEW h, h.code = code, h.flags = flags, h.id = id
                 PROVE  ParseFrame(h, block) = f
      BY DEF SayTogether
    <2>1. ParseFrame(h, block) = ParseHeaders(h, block)
      BY <1>3 DEF ParseFrame
    <2>2. ParseHeaders(h, block) = [type |-> "HEADERS", id |-> id, endStream |-> endStream,
                      endHeaders |-> endHeaders, priority |-> <<>>, block |-> block]
      BY <1>4, <1>5 DEF ParseHeaders, Padded
    <2> QED
      BY <1>1, <2>1, <2>2
  <1>9. ComesBack(f)
    BY <1>3, <1>4, <1>5, <1>6, <1>7, <1>8, FromParts
  <1> QED
    BY <1>1, <1>9

\* HEADERS with a priority.
LEMMA HeadersBack ==
    ASSUME NEW id \in StreamId, NEW endStream \in BOOLEAN, NEW endHeaders \in BOOLEAN,
           NEW p \in Priority, NEW block \in ByteString
    PROVE  ComesBack([type |-> "HEADERS", id |-> id, endStream |-> endStream,
                      endHeaders |-> endHeaders, priority |-> <<p>>, block |-> block])
  <1>1. PICK f : f = [type |-> "HEADERS", id |-> id, endStream |-> endStream,
                      endHeaders |-> endHeaders, priority |-> <<p>>, block |-> block]
    OBVIOUS
  <1>2. /\ f.type = "HEADERS" /\ f.id = id /\ f.endStream = endStream
        /\ f.endHeaders = endHeaders /\ f.priority = <<p>> /\ f.block = block
        /\ f.priority # <<>> /\ f.priority[1] = p
    BY <1>1
  <1>3. PICK code \in Byte : code = CodeOfType(f) /\ TypeOfCode(code) = "HEADERS"
    <2>1. f.type \in OnStream
      BY <1>2 DEF OnStream
    <2> QED
      BY <1>2, <2>1, NamedCode
  <1>4. PICK flags \in Byte :
           /\ flags = FlagsOf(f) /\ ~HasFlag(flags, PADDED)
           /\ HasFlag(flags, END_STREAM) = endStream /\ HasFlag(flags, END_HEADERS) = endHeaders
           /\ HasFlag(flags, PRIORITY) = TRUE
    <2>1. PICK prio \in BOOLEAN : prio = TRUE /\ (f.priority # <<>> <=> prio)
      BY <1>2
    <2>2. PICK flags : flags = Flag(endStream, END_STREAM) + Flag(endHeaders, END_HEADERS)
                               + Flag(prio, PRIORITY)
      OBVIOUS
    <2>3. flags = FlagsOf(f)
      BY <1>2, <2>1, <2>2 DEF FlagsOf, Flag
    <2>4. /\ flags \in Byte /\ ~HasFlag(flags, PADDED)
          /\ HasFlag(flags, END_STREAM) = endStream /\ HasFlag(flags, END_HEADERS) = endHeaders
          /\ HasFlag(flags, PRIORITY) = prio
      BY <2>2, FlagsRead
    <2> QED
      BY <2>1, <2>3, <2>4
  <1>5. IdOf(f) = id /\ id \in Word31 /\ id # 0
    BY <1>2 DEF IdOf, OnConnection, StreamId
  <1>6. PICK payload : payload = PutPriority(p) \o block
    OBVIOUS
  <1>7. /\ payload = PayloadOf(f) /\ payload \in Seq(Byte)
        /\ Len(payload) = 5 + Len(block) /\ Len(block) \in Nat
        /\ GetPriority(payload) = p /\ Drop(payload, 5) = block
    <2>1. payload = PayloadOf(f)
      BY <1>2, <1>6 DEF PayloadOf
    <2>2. block \in Seq(Byte)
      BY DEF ByteString
    <2> QED
      BY <1>6, <2>1, <2>2, PriorityInFront
  <1>8. PayloadLen(Outline(f)) = Len(payload)
    <2>1. PICK o : o = Outline(f)
      OBVIOUS
    <2>2. o.type = "HEADERS" /\ o.prio /\ o.n = Len(block)
      BY <1>2, <2>1 DEF Outline
    <2>3. Fixed(o.type, o.prio) = 5
      BY <2>2 DEF Fixed
    <2>4. PayloadLen(o) = o.n + Fixed(o.type, o.prio)
      BY <2>2, LengthOfFixed DEF PayloadLen
    <2> QED
      BY <1>7, <2>1, <2>2, <2>3, <2>4
  <1>9. SayTogether(code, flags, id, payload, f)
    <2> SUFFICES ASSUME NEW h, h.code = code, h.flags = flags, h.id = id
                 PROVE  ParseFrame(h, payload) = f
      BY DEF SayTogether
    <2>1. ParseFrame(h, payload) = ParseHeaders(h, payload)
      BY <1>3 DEF ParseFrame
    <2>2. ~(Len(payload) < 5)
      BY <1>7
    <2>3. ParseHeaders(h, payload) = [type |-> "HEADERS", id |-> id, endStream |-> endStream,
                      endHeaders |-> endHeaders, priority |-> <<p>>, block |-> block]
      BY <1>4, <1>5, <1>7, <2>2 DEF ParseHeaders, Padded
    <2> QED
      BY <1>1, <2>1, <2>3
  <1>10. ComesBack(f)
    BY <1>3, <1>4, <1>5, <1>7, <1>8, <1>9, FromParts
  <1> QED
    BY <1>1, <1>10

\* PRIORITY.
LEMMA PriorityBack ==
    ASSUME NEW id \in StreamId, NEW p \in Priority
    PROVE  ComesBack([type |-> "PRIORITY", id |-> id, priority |-> p])
  <1>1. PICK f : f = [type |-> "PRIORITY", id |-> id, priority |-> p]
    OBVIOUS
  <1>2. f.type = "PRIORITY" /\ f.id = id /\ f.priority = p
    BY <1>1
  <1>3. PICK code \in Byte : code = CodeOfType(f) /\ TypeOfCode(code) = "PRIORITY"
    <2>1. f.type \in OnStream
      BY <1>2 DEF OnStream
    <2> QED
      BY <1>2, <2>1, NamedCode
  <1>4. PICK flags \in Byte : flags = FlagsOf(f)
    BY <1>2 DEF FlagsOf, Byte
  <1>5. IdOf(f) = id /\ id \in Word31 /\ id # 0
    BY <1>2 DEF IdOf, OnConnection, StreamId
  <1>6. PICK payload \in Seq(Byte) :
           payload = PayloadOf(f) /\ Len(payload) = 5 /\ GetPriority(payload) = p
    <2>1. PutPriority(p) = PayloadOf(f)
      BY <1>2 DEF PayloadOf
    <2>2. \A k \in 1 .. 5 : PutPriority(p)[k] = PutPriority(p)[k]
      OBVIOUS
    <2> QED
      BY <2>1, <2>2, PriorityRead
  <1>7. PayloadLen(Outline(f)) = Len(payload)
    <2>1. Outline(f).type = "PRIORITY"
      BY <1>2 DEF Outline
    <2> QED
      BY <1>6, <2>1, LengthOfFixed DEF PayloadLen
  <1>8. SayTogether(code, flags, id, payload, f)
    <2> SUFFICES ASSUME NEW h, h.code = code, h.flags = flags, h.id = id
                 PROVE  ParseFrame(h, payload) = f
      BY DEF SayTogether
    <2>1. ParseFrame(h, payload) = ParsePriority(h, payload)
      BY <1>3 DEF ParseFrame
    <2>2. ParsePriority(h, payload) = [type |-> "PRIORITY", id |-> id, priority |-> p]
      BY <1>5, <1>6 DEF ParsePriority
    <2> QED
      BY <1>1, <2>1, <2>2
  <1>9. ComesBack(f)
    BY <1>3, <1>4, <1>5, <1>6, <1>7, <1>8, FromParts
  <1> QED
    BY <1>1, <1>9

\* RST_STREAM.
LEMMA RstStreamBack ==
    ASSUME NEW id \in StreamId, NEW error \in Word32
    PROVE  ComesBack([type |-> "RST_STREAM", id |-> id, error |-> error])
  <1>1. PICK f : f = [type |-> "RST_STREAM", id |-> id, error |-> error]
    OBVIOUS
  <1>2. f.type = "RST_STREAM" /\ f.id = id /\ f.error = error
    BY <1>1
  <1>3. PICK code \in Byte : code = CodeOfType(f) /\ TypeOfCode(code) = "RST_STREAM"
    <2>1. f.type \in OnStream
      BY <1>2 DEF OnStream
    <2> QED
      BY <1>2, <2>1, NamedCode
  <1>4. PICK flags \in Byte : flags = FlagsOf(f)
    BY <1>2 DEF FlagsOf, Byte
  <1>5. IdOf(f) = id /\ id \in Word31 /\ id # 0
    BY <1>2 DEF IdOf, OnConnection, StreamId
  <1>6. PICK payload \in Seq(Byte) :
           payload = PayloadOf(f) /\ Len(payload) = 4 /\ GetU32(payload, 1) = error
    <2>1. PICK payload \in Seq(Byte) : payload = PutU32(error) /\ Len(payload) = 4
      BY Word32Read
    <2>2. payload = PayloadOf(f)
      BY <1>2, <2>1 DEF PayloadOf
    <2>3. PICK at \in Nat : at = 1
      OBVIOUS
    <2>4. \A k \in 1 .. 4 : payload[at + k - 1] = PutU32(error)[k]
      <3>1. \A k \in 1 .. 4 : at + k - 1 = k
        BY <2>3
      <3> QED
        BY <2>1, <3>1
    <2>5. GetU32(payload, at) = error
      BY <2>4, Word32Read
    <2> QED
      BY <2>1, <2>2, <2>3, <2>5
  <1>7. PayloadLen(Outline(f)) = Len(payload)
    <2>1. Outline(f).type = "RST_STREAM"
      BY <1>2 DEF Outline
    <2> QED
      BY <1>6, <2>1, LengthOfFixed DEF PayloadLen
  <1>8. SayTogether(code, flags, id, payload, f)
    <2> SUFFICES ASSUME NEW h, h.code = code, h.flags = flags, h.id = id
                 PROVE  ParseFrame(h, payload) = f
      BY DEF SayTogether
    <2>1. ParseFrame(h, payload) = ParseRstStream(h, payload)
      BY <1>3 DEF ParseFrame
    <2>2. ParseRstStream(h, payload) = [type |-> "RST_STREAM", id |-> id, error |-> error]
      BY <1>5, <1>6 DEF ParseRstStream
    <2> QED
      BY <1>1, <2>1, <2>2
  <1>9. ComesBack(f)
    BY <1>3, <1>4, <1>5, <1>6, <1>7, <1>8, FromParts
  <1> QED
    BY <1>1, <1>9

\* The stream id of a frame of the connection.
LEMMA ConnectionId == 0 \in Word31 /\ 0 \in Byte
  BY SMT DEF Word31, Byte

\* SETTINGS.
LEMMA SettingsBack ==
    ASSUME NEW settings \in Seq(Setting)
    PROVE  ComesBack([type |-> "SETTINGS", ack |-> FALSE, settings |-> settings])
  <1>1. PICK f : f = [type |-> "SETTINGS", ack |-> FALSE, settings |-> settings]
    OBVIOUS
  <1>2. f.type = "SETTINGS" /\ ~f.ack /\ f.settings = settings
    BY <1>1
  <1>3. PICK code \in Byte : code = CodeOfType(f) /\ TypeOfCode(code) = "SETTINGS"
    <2>1. f.type \in OnConnection
      BY <1>2 DEF OnConnection
    <2> QED
      BY <1>2, <2>1, NamedCode
  <1>4. PICK flags \in Byte : flags = FlagsOf(f) /\ HasFlag(flags, ACK) = FALSE
    <2>1. PICK ack \in BOOLEAN : ack = FALSE
      OBVIOUS
    <2>2. FlagsOf(f) = Flag(ack, ACK)
      BY <1>2, <2>1 DEF FlagsOf, Flag
    <2> QED
      BY <2>1, <2>2, OneFlag
  <1>5. PICK id \in Word31 : id = IdOf(f) /\ id = 0
    BY <1>2, ConnectionId DEF IdOf, OnConnection
  <1>6. PICK payload \in Seq(Byte) :
           /\ payload = PayloadOf(f) /\ Len(payload) = 6 * Len(settings)
           /\ GetSettings(payload) = settings
    <2>1. PutSettings(settings) = PayloadOf(f)
      BY <1>2 DEF PayloadOf
    <2> QED
      BY <2>1, SettingsRead
  <1>7. PICK n \in Nat : n = Len(settings) /\ DOMAIN settings = 1 .. n
    BY LenProperties
  <1>8. PayloadLen(Outline(f)) = Len(payload)
    <2>1. PICK o : o = Outline(f)
      OBVIOUS
    <2>2. o.type = "SETTINGS" /\ ~o.flag /\ o.n = n
      BY <1>2, <1>7, <2>1 DEF Outline
    <2>3. PayloadLen(o) = 6 * o.n
      BY <2>2, LengthOfFixed DEF PayloadLen
    <2> QED
      BY <1>6, <1>7, <2>1, <2>2, <2>3
  <1>9. \A k \in DOMAIN settings : ValidSetting(settings[k])
    <2>1. \A k \in DOMAIN settings : settings[k] \in Setting
      BY <1>7, ElementOfSeq
    <2> QED
      BY <2>1 DEF Setting
  <1>10. Len(payload) % 6 = 0
    <2>1. \A m \in Nat : (6 * m) % 6 = 0
      BY SMT
    <2> QED
      BY <1>6, <1>7, <2>1
  <1>11. SayTogether(code, flags, id, payload, f)
    <2> SUFFICES ASSUME NEW h, h.code = code, h.flags = flags, h.id = id
                 PROVE  ParseFrame(h, payload) = f
      BY DEF SayTogether
    <2>1. ParseFrame(h, payload) = ParseSettings(h, payload)
      BY <1>3 DEF ParseFrame
    <2>2. ParseSettings(h, payload) = [type |-> "SETTINGS", ack |-> FALSE, settings |-> settings]
      BY <1>4, <1>5, <1>6, <1>9, <1>10 DEF ParseSettings
    <2> QED
      BY <1>1, <2>1, <2>2
  <1>12. ComesBack(f)
    BY <1>3, <1>4, <1>5, <1>6, <1>8, <1>11, FromParts
  <1> QED
    BY <1>1, <1>12

\* The acknowledgement of SETTINGS.
LEMMA SettingsAckBack ==
    ComesBack([type |-> "SETTINGS", ack |-> TRUE, settings |-> <<>>])
  <1>1. PICK f : f = [type |-> "SETTINGS", ack |-> TRUE, settings |-> <<>>]
    OBVIOUS
  <1>2. f.type = "SETTINGS" /\ f.ack /\ f.settings = <<>>
    BY <1>1
  <1>3. PICK code \in Byte : code = CodeOfType(f) /\ TypeOfCode(code) = "SETTINGS"
    <2>1. f.type \in OnConnection
      BY <1>2 DEF OnConnection
    <2> QED
      BY <1>2, <2>1, NamedCode
  <1>4. PICK flags \in Byte : flags = FlagsOf(f) /\ HasFlag(flags, ACK) = TRUE
    <2>1. PICK ack \in BOOLEAN : ack = TRUE
      OBVIOUS
    <2>2. FlagsOf(f) = Flag(ack, ACK)
      BY <1>2, <2>1 DEF FlagsOf, Flag
    <2> QED
      BY <2>1, <2>2, OneFlag
  <1>5. PICK id \in Word31 : id = IdOf(f) /\ id = 0
    BY <1>2, ConnectionId DEF IdOf, OnConnection
  <1>6. PICK payload \in Seq(Byte) : payload = PayloadOf(f) /\ payload = <<>> /\ Len(payload) = 0
    <2>1. PayloadOf(f) = <<>>
      BY <1>2 DEF PayloadOf
    <2> QED
      BY <2>1, EmptySeq
  <1>7. PayloadLen(Outline(f)) = Len(payload)
    <2>1. PICK o : o = Outline(f)
      OBVIOUS
    <2>2. o.type = "SETTINGS" /\ o.flag
      BY <1>2, <2>1 DEF Outline
    <2>3. PayloadLen(o) = 0
      BY <2>2, LengthOfFixed DEF PayloadLen
    <2> QED
      BY <1>6, <2>1, <2>3
  <1>8. GetSettings(payload) = <<>>
    <2>1. Len(payload) \div 6 = 0
      BY <1>6
    <2>2. 1 .. Len(payload) \div 6 = 1 .. 0
      BY <2>1
    <2>3. PICK g : g = GetSettings(payload)
      OBVIOUS
    <2>4. g = [k \in 1 .. 0 |-> [code  |-> Get16(payload[6 * k - 5], payload[6 * k - 4]),
                                 value |-> GetU32(payload, 6 * k - 3)]]
      BY <2>2, <2>3 DEF GetSettings
    <2>5. g \in Seq(Byte) /\ Len(g) = 0
      BY <2>4
    <2> QED
      BY <2>3, <2>5, EmptySeq
  <1>9. SayTogether(code, flags, id, payload, f)
    <2> SUFFICES ASSUME NEW h, h.code = code, h.flags = flags, h.id = id
                 PROVE  ParseFrame(h, payload) = f
      BY DEF SayTogether
    <2>1. ParseFrame(h, payload) = ParseSettings(h, payload)
      BY <1>3 DEF ParseFrame
    <2>2. Len(payload) % 6 = 0
      BY <1>6
    <2>3. \A k \in DOMAIN <<>> : FALSE
      OBVIOUS
    <2>4. ParseSettings(h, payload) = [type |-> "SETTINGS", ack |-> TRUE, settings |-> <<>>]
      BY <1>4, <1>5, <1>6, <1>8, <2>2, <2>3 DEF ParseSettings
    <2> QED
      BY <1>1, <2>1, <2>4
  <1>10. ComesBack(f)
    BY <1>3, <1>4, <1>5, <1>6, <1>7, <1>9, FromParts
  <1> QED
    BY <1>1, <1>10

\* A stream id in front of other bytes.
LEMMA IdInFront ==
    ASSUME NEW n \in Word31, NEW b \in Seq(Byte)
    PROVE  /\ Put31(n) \o b \in Seq(Byte)
           /\ Len(Put31(n) \o b) = 4 + Len(b) /\ Len(b) \in Nat
           /\ GetId(Put31(n) \o b, 1) = n
           /\ Drop(Put31(n) \o b, 4) = b
  <1>1. PICK s \in Seq(Byte) : s = Put31(n) /\ Len(s) = 4
    BY Word31Read
  <1>2. PICK w : w = s \o b
    OBVIOUS
  <1>3. /\ w \in Seq(Byte) /\ Len(w) = Len(s) + Len(b) /\ Len(b) \in Nat
        /\ \A k \in 1 .. Len(s) : w[k] = s[k]
        /\ Drop(w, Len(s)) = b
    BY <1>2, InFront
  <1>4. GetId(w, 1) = n
    <2>1. \A k \in 1 .. 4 : w[k] = Put31(n)[k]
      BY <1>1, <1>3
    <2> QED
      BY <2>1, Word31Read
  <1> QED
    BY <1>1, <1>2, <1>3, <1>4

\* PUSH_PROMISE.
LEMMA PushPromiseBack ==
    ASSUME NEW id \in StreamId, NEW endHeaders \in BOOLEAN, NEW promised \in Word31,
           NEW block \in ByteString
    PROVE  ComesBack([type |-> "PUSH_PROMISE", id |-> id, endHeaders |-> endHeaders,
                      promised |-> promised, block |-> block])
  <1>1. PICK f : f = [type |-> "PUSH_PROMISE", id |-> id, endHeaders |-> endHeaders,
                      promised |-> promised, block |-> block]
    OBVIOUS
  <1>2. /\ f.type = "PUSH_PROMISE" /\ f.id = id /\ f.endHeaders = endHeaders
        /\ f.promised = promised /\ f.block = block
    BY <1>1
  <1>3. PICK code \in Byte : code = CodeOfType(f) /\ TypeOfCode(code) = "PUSH_PROMISE"
    <2>1. f.type \in OnStream
      BY <1>2 DEF OnStream
    <2> QED
      BY <1>2, <2>1, NamedCode
  <1>4. PICK flags \in Byte : /\ flags = FlagsOf(f) /\ ~HasFlag(flags, PADDED)
                              /\ HasFlag(flags, END_HEADERS) = endHeaders
    <2>1. FlagsOf(f) = Flag(endHeaders, END_HEADERS)
      BY <1>2 DEF FlagsOf
    <2> QED
      BY <2>1, OneFlag
  <1>5. IdOf(f) = id /\ id \in Word31 /\ id # 0
    BY <1>2 DEF IdOf, OnConnection, StreamId
  <1>6. PICK payload : payload = Put31(promised) \o block
    OBVIOUS
  <1>7. /\ payload = PayloadOf(f) /\ payload \in Seq(Byte)
        /\ Len(payload) = 4 + Len(block) /\ Len(block) \in Nat
        /\ GetId(payload, 1) = promised /\ Drop(payload, 4) = block
    <2>1. payload = PayloadOf(f)
      BY <1>2, <1>6 DEF PayloadOf
    <2>2. block \in Seq(Byte)
      BY DEF ByteString
    <2> QED
      BY <1>6, <2>1, <2>2, IdInFront
  <1>8. PayloadLen(Outline(f)) = Len(payload)
    <2>1. PICK o : o = Outline(f)
      OBVIOUS
    <2>2. o.type = "PUSH_PROMISE" /\ o.n = Len(block)
      BY <1>2, <2>1 DEF Outline
    <2>3. Fixed(o.type, o.prio) = 4
      BY <2>2 DEF Fixed
    <2>4. PayloadLen(o) = o.n + Fixed(o.type, o.prio)
      BY <2>2, LengthOfFixed DEF PayloadLen
    <2> QED
      BY <1>7, <2>1, <2>2, <2>3, <2>4
  <1>9. SayTogether(code, flags, id, payload, f)
    <2> SUFFICES ASSUME NEW h, h.code = code, h.flags = flags, h.id = id
                 PROVE  ParseFrame(h, payload) = f
      BY DEF SayTogether
    <2>1. ParseFrame(h, payload) = ParsePushPromise(h, payload)
      BY <1>3 DEF ParseFrame
    <2>2. ~(Len(payload) < 4)
      BY <1>7
    <2>3. ParsePushPromise(h, payload) = [type |-> "PUSH_PROMISE", id |-> id,
             endHeaders |-> endHeaders, promised |-> promised, block |-> block]
      BY <1>4, <1>5, <1>7, <2>2 DEF ParsePushPromise, Padded
    <2> QED
      BY <1>1, <2>1, <2>3
  <1>10. ComesBack(f)
    BY <1>3, <1>4, <1>5, <1>7, <1>8, <1>9, FromParts
  <1> QED
    BY <1>1, <1>10

\* PING.
LEMMA PingBack ==
    ASSUME NEW ack \in BOOLEAN, NEW data \in ByteString, Len(data) = 8
    PROVE  ComesBack([type |-> "PING", ack |-> ack, data |-> data])
  <1>1. PICK f : f = [type |-> "PING", ack |-> ack, data |-> data]
    OBVIOUS
  <1>2. f.type = "PING" /\ f.ack = ack /\ f.data = data
    BY <1>1
  <1>3. PICK code \in Byte : code = CodeOfType(f) /\ TypeOfCode(code) = "PING"
    <2>1. f.type \in OnConnection
      BY <1>2 DEF OnConnection
    <2> QED
      BY <1>2, <2>1, NamedCode
  <1>4. PICK flags \in Byte : flags = FlagsOf(f) /\ HasFlag(flags, ACK) = ack
    <2>1. FlagsOf(f) = Flag(ack, ACK)
      BY <1>2 DEF FlagsOf
    <2> QED
      BY <2>1, OneFlag
  <1>5. PICK id \in Word31 : id = IdOf(f) /\ id = 0
    BY <1>2, ConnectionId DEF IdOf, OnConnection
  <1>6. PayloadOf(f) = data /\ data \in Seq(Byte)
    BY <1>2 DEF PayloadOf, ByteString
  <1>7. PayloadLen(Outline(f)) = Len(data)
    <2>1. Outline(f).type = "PING"
      BY <1>2 DEF Outline
    <2> QED
      BY <2>1, LengthOfFixed DEF PayloadLen
  <1>8. SayTogether(code, flags, id, data, f)
    <2> SUFFICES ASSUME NEW h, h.code = code, h.flags = flags, h.id = id
                 PROVE  ParseFrame(h, data) = f
      BY DEF SayTogether
    <2>1. ParseFrame(h, data) = ParsePing(h, data)
      BY <1>3 DEF ParseFrame
    <2>2. ParsePing(h, data) = [type |-> "PING", ack |-> ack, data |-> data]
      BY <1>4, <1>5 DEF ParsePing
    <2> QED
      BY <1>1, <2>1, <2>2
  <1>9. ComesBack(f)
    BY <1>3, <1>4, <1>5, <1>6, <1>7, <1>8, FromParts
  <1> QED
    BY <1>1, <1>9

\* GOAWAY.
LEMMA GoAwayBack ==
    ASSUME NEW last \in Word31, NEW error \in Word32, NEW data \in ByteString
    PROVE  ComesBack([type |-> "GOAWAY", last |-> last, error |-> error, data |-> data])
  <1>1. PICK f : f = [type |-> "GOAWAY", last |-> last, error |-> error, data |-> data]
    OBVIOUS
  <1>2. f.type = "GOAWAY" /\ f.last = last /\ f.error = error /\ f.data = data
    BY <1>1
  <1>3. PICK code \in Byte : code = CodeOfType(f) /\ TypeOfCode(code) = "GOAWAY"
    <2>1. f.type \in OnConnection
      BY <1>2 DEF OnConnection
    <2> QED
      BY <1>2, <2>1, NamedCode
  <1>4. PICK flags \in Byte : flags = FlagsOf(f)
    BY <1>2, ConnectionId DEF FlagsOf
  <1>5. PICK id \in Word31 : id = IdOf(f) /\ id = 0
    BY <1>2, ConnectionId DEF IdOf, OnConnection
  <1>6. PICK u \in Seq(Byte) : u = PutU32(error) /\ Len(u) = 4
    BY Word32Read
  <1>7. PICK head : head = Put31(last) \o u
    OBVIOUS
  <1>8. /\ head \in Seq(Byte) /\ Len(head) = 8
        /\ \A k \in 1 .. 4 : head[k] = Put31(last)[k] /\ head[4 + k] = u[k]
    <2>1. PICK s \in Seq(Byte) : s = Put31(last) /\ Len(s) = 4
      BY Word31Read
    <2>2. /\ s \o u \in Seq(Byte) /\ Len(s \o u) = Len(s) + Len(u)
          /\ \A i \in 1 .. Len(s) + Len(u) : (s \o u)[i] = IF i <= Len(s) THEN s[i] ELSE u[i - Len(s)]
      BY ConcatProperties
    <2>3. /\ head \in Seq(Byte) /\ Len(head) = 8
          /\ \A i \in 1 .. 8 : head[i] = IF i <= 4 THEN s[i] ELSE u[i - 4]
      BY <1>6, <1>7, <2>1, <2>2
    <2>4. \A k \in 1 .. 4 : k \in 1 .. 8 /\ k <= 4 /\ 4 + k \in 1 .. 8 /\ ~(4 + k <= 4) /\ 4 + k - 4 = k
      OBVIOUS
    <2> QED
      BY <2>1, <2>3, <2>4
  <1>9. PICK payload : payload = head \o data
    OBVIOUS
  <1>10. /\ payload \in Seq(Byte) /\ Len(payload) = 8 + Len(data) /\ Len(data) \in Nat
         /\ \A k \in 1 .. 8 : payload[k] = head[k]
         /\ Drop(payload, 8) = data
    <2>1. data \in Seq(Byte)
      BY DEF ByteString
    <2>2. /\ payload \in Seq(Byte) /\ Len(payload) = Len(head) + Len(data) /\ Len(data) \in Nat
          /\ \A k \in 1 .. Len(head) : payload[k] = head[k]
          /\ Drop(payload, Len(head)) = data
      BY <1>8, <1>9, <2>1, InFront
    <2> QED
      BY <1>8, <2>2
  <1>11. payload = PayloadOf(f)
    BY <1>2, <1>6, <1>7, <1>9 DEF PayloadOf
  <1>12. GetId(payload, 1) = last
    <2>1. \A k \in 1 .. 4 : payload[k] = Put31(last)[k]
      BY <1>8, <1>10
    <2> QED
      BY <2>1, Word31Read
  <1>13. GetU32(payload, 5) = error
    <2>1. PICK at \in Nat : at = 5
      OBVIOUS
    <2>2. ASSUME NEW k \in 1 .. 4 PROVE payload[at + k - 1] = u[k]
      <3>1. at + k - 1 = 4 + k /\ 4 + k \in 1 .. 8
        BY <2>1
      <3> QED
        BY <1>8, <1>10, <3>1
    <2>3. GetU32(payload, at) = error
      BY <1>6, <2>2, Word32Read
    <2> QED
      BY <2>1, <2>3
  <1>14. PayloadLen(Outline(f)) = Len(payload)
    <2>1. PICK o : o = Outline(f)
      OBVIOUS
    <2>2. o.type = "GOAWAY" /\ o.n = Len(data)
      BY <1>2, <2>1 DEF Outline
    <2>3. Fixed(o.type, o.prio) = 8
      BY <2>2 DEF Fixed
    <2>4. PayloadLen(o) = o.n + Fixed(o.type, o.prio)
      BY <2>2, LengthOfFixed DEF PayloadLen
    <2> QED
      BY <1>10, <2>1, <2>2, <2>3, <2>4
  <1>15. SayTogether(code, flags, id, payload, f)
    <2> SUFFICES ASSUME NEW h, h.code = code, h.flags = flags, h.id = id
                 PROVE  ParseFrame(h, payload) = f
      BY DEF SayTogether
    <2>1. ParseFrame(h, payload) = ParseGoAway(h, payload)
      BY <1>3 DEF ParseFrame
    <2>2. ~(Len(payload) < 8)
      BY <1>10
    <2>3. ParseGoAway(h, payload) = [type |-> "GOAWAY", last |-> last, error |-> error, data |-> data]
      BY <1>5, <1>10, <1>12, <1>13, <2>2 DEF ParseGoAway
    <2> QED
      BY <1>1, <2>1, <2>3
  <1>16. ComesBack(f)
    BY <1>3, <1>4, <1>5, <1>10, <1>11, <1>14, <1>15, FromParts
  <1> QED
    BY <1>1, <1>16

\* WINDOW_UPDATE.
LEMMA WindowUpdateBack ==
    ASSUME NEW id \in Word31, NEW increment \in Word31, increment # 0
    PROVE  ComesBack([type |-> "WINDOW_UPDATE", id |-> id, increment |-> increment])
  <1>1. PICK f : f = [type |-> "WINDOW_UPDATE", id |-> id, increment |-> increment]
    OBVIOUS
  <1>2. f.type = "WINDOW_UPDATE" /\ f.id = id /\ f.increment = increment
    BY <1>1
  <1>3. PICK code \in Byte : code = CodeOfType(f) /\ TypeOfCode(code) = "WINDOW_UPDATE"
    BY <1>2, NamedCode
  <1>4. PICK flags \in Byte : flags = FlagsOf(f)
    BY <1>2, ConnectionId DEF FlagsOf
  <1>5. IdOf(f) = id
    BY <1>2 DEF IdOf, OnConnection
  <1>6. PICK payload \in Seq(Byte) :
           payload = PayloadOf(f) /\ Len(payload) = 4 /\ GetId(payload, 1) = increment
    <2>1. PICK payload \in Seq(Byte) : payload = Put31(increment) /\ Len(payload) = 4
      BY Word31Read
    <2>2. GetId(payload, 1) = increment
      BY <2>1, Word31Read
    <2>3. payload = PayloadOf(f)
      BY <1>2, <2>1 DEF PayloadOf
    <2> QED
      BY <2>1, <2>2, <2>3
  <1>7. PayloadLen(Outline(f)) = Len(payload)
    <2>1. Outline(f).type = "WINDOW_UPDATE"
      BY <1>2 DEF Outline
    <2> QED
      BY <1>6, <2>1, LengthOfFixed DEF PayloadLen
  <1>8. SayTogether(code, flags, id, payload, f)
    <2> SUFFICES ASSUME NEW h, h.code = code, h.flags = flags, h.id = id
                 PROVE  ParseFrame(h, payload) = f
      BY DEF SayTogether
    <2>1. ParseFrame(h, payload) = ParseWindowUpdate(h, payload)
      BY <1>3 DEF ParseFrame
    <2>2. ParseWindowUpdate(h, payload) = [type |-> "WINDOW_UPDATE", id |-> id, increment |-> increment]
      BY <1>6 DEF ParseWindowUpdate
    <2> QED
      BY <1>1, <2>1, <2>2
  <1>9. ComesBack(f)
    BY <1>3, <1>4, <1>5, <1>6, <1>7, <1>8, FromParts
  <1> QED
    BY <1>1, <1>9

\* CONTINUATION.
LEMMA ContinuationBack ==
    ASSUME NEW id \in StreamId, NEW endHeaders \in BOOLEAN, NEW block \in ByteString
    PROVE  ComesBack([type |-> "CONTINUATION", id |-> id, endHeaders |-> endHeaders, block |-> block])
  <1>1. PICK f : f = [type |-> "CONTINUATION", id |-> id, endHeaders |-> endHeaders, block |-> block]
    OBVIOUS
  <1>2. f.type = "CONTINUATION" /\ f.id = id /\ f.endHeaders = endHeaders /\ f.block = block
    BY <1>1
  <1>3. PICK code \in Byte : code = CodeOfType(f) /\ TypeOfCode(code) = "CONTINUATION"
    <2>1. f.type \in OnStream
      BY <1>2 DEF OnStream
    <2> QED
      BY <1>2, <2>1, NamedCode
  <1>4. PICK flags \in Byte : flags = FlagsOf(f) /\ HasFlag(flags, END_HEADERS) = endHeaders
    <2>1. FlagsOf(f) = Flag(endHeaders, END_HEADERS)
      BY <1>2 DEF FlagsOf
    <2> QED
      BY <2>1, OneFlag
  <1>5. IdOf(f) = id /\ id \in Word31 /\ id # 0
    BY <1>2 DEF IdOf, OnConnection, StreamId
  <1>6. PayloadOf(f) = block /\ block \in Seq(Byte)
    BY <1>2 DEF PayloadOf, ByteString
  <1>7. PayloadLen(Outline(f)) = Len(block)
    <2>1. Outline(f).type = "CONTINUATION" /\ Outline(f).n = Len(block)
      BY <1>2 DEF Outline
    <2>2. Fixed("CONTINUATION", Outline(f).prio) = 0
      BY DEF Fixed
    <2>3. Len(block) \in Nat
      BY <1>6, LenProperties
    <2> QED
      BY <2>1, <2>2, <2>3, LengthOfFixed DEF PayloadLen
  <1>8. SayTogether(code, flags, id, block, f)
    <2> SUFFICES ASSUME NEW h, h.code = code, h.flags = flags, h.id = id
                 PROVE  ParseFrame(h, block) = f
      BY DEF SayTogether
    <2>1. ParseFrame(h, block) = ParseContinuation(h, block)
      BY <1>3 DEF ParseFrame
    <2>2. ParseContinuation(h, block) = [type |-> "CONTINUATION", id |-> id,
                                         endHeaders |-> endHeaders, block |-> block]
      BY <1>4, <1>5 DEF ParseContinuation
    <2> QED
      BY <1>1, <2>1, <2>2
  <1>9. ComesBack(f)
    BY <1>3, <1>4, <1>5, <1>6, <1>7, <1>8, FromParts
  <1> QED
    BY <1>1, <1>9

\* Frames of other types.
LEMMA UnknownBack ==
    ASSUME NEW code \in 10 .. 255, NEW flags \in Byte, NEW id \in Word31, NEW data \in ByteString
    PROVE  ComesBack([type |-> "UNKNOWN", code |-> code, flags |-> flags, id |-> id, data |-> data])
  <1>1. PICK f : f = [type |-> "UNKNOWN", code |-> code, flags |-> flags, id |-> id, data |-> data]
    OBVIOUS
  <1>2. f.type = "UNKNOWN" /\ f.code = code /\ f.flags = flags /\ f.id = id /\ f.data = data
    BY <1>1
  <1>3. code \in Byte /\ code = CodeOfType(f) /\ TypeOfCode(code) = "UNKNOWN"
    <2>1. ~KnownCode(code)
      BY DEF KnownCode, TypeNames
    <2> QED
      BY <1>2, <2>1 DEF CodeOfType, TypeOfCode, Byte
  <1>4. FlagsOf(f) = flags
    BY <1>2 DEF FlagsOf
  <1>5. IdOf(f) = id
    BY <1>2 DEF IdOf, OnConnection
  <1>6. PayloadOf(f) = data /\ data \in Seq(Byte)
    BY <1>2 DEF PayloadOf, ByteString
  <1>7. PayloadLen(Outline(f)) = Len(data)
    <2>1. Outline(f).type = "UNKNOWN" /\ Outline(f).n = Len(data)
      BY <1>2 DEF Outline
    <2>2. Fixed("UNKNOWN", Outline(f).prio) = 0
      BY DEF Fixed
    <2>3. Len(data) \in Nat
      BY <1>6, LenProperties
    <2> QED
      BY <2>1, <2>2, <2>3, LengthOfFixed DEF PayloadLen
  <1>8. SayTogether(code, flags, id, data, f)
    <2> SUFFICES ASSUME NEW h, h.code = code, h.flags = flags, h.id = id
                 PROVE  ParseFrame(h, data) = f
      BY DEF SayTogether
    <2> QED
      BY <1>1, <1>3 DEF ParseFrame
  <1>9. ComesBack(f)
    BY <1>3, <1>4, <1>5, <1>6, <1>7, <1>8, FromParts
  <1> QED
    BY <1>1, <1>9

\* Every frame that can be sent comes back.
LEMMA AllComeBack ==
    ASSUME NEW f \in Sendable
    PROVE  ComesBack(f)
  <1>1. CASE f \in [type: {"DATA"}, id: StreamId, endStream: BOOLEAN, data: ByteString]
    <2>1. /\ f.id \in StreamId /\ f.endStream \in BOOLEAN /\ f.data \in ByteString
          /\ f = [type |-> "DATA", id |-> f.id, endStream |-> f.endStream, data |-> f.data]
      BY <1>1
    <2> QED
      BY <2>1, DataBack
  <1>2. CASE f \in [type: {"HEADERS"}, id: StreamId, endStream: BOOLEAN, endHeaders: BOOLEAN,
                    priority: {p \in Seq(Priority) : Len(p) <= 1}, block: ByteString]
    <2>1. /\ f.id \in StreamId /\ f.endStream \in BOOLEAN /\ f.endHeaders \in BOOLEAN
          /\ f.priority \in Seq(Priority) /\ Len(f.priority) <= 1 /\ f.block \in ByteString
          /\ f = [type |-> "HEADERS", id |-> f.id, endStream |-> f.endStream,
                  endHeaders |-> f.endHeaders, priority |-> f.priority, block |-> f.block]
      BY <1>2
    <2>2. PICK n \in Nat : n = Len(f.priority)
      BY <2>1, LenProperties
    <2>3. CASE n = 0
      <3>1. f.priority = <<>>
        BY <2>1, <2>2, <2>3, EmptySeq
      <3> QED
        BY <2>1, <3>1, PlainHeadersBack
    <2>4. CASE n # 0
      <3>1. PICK p \in Priority : p = f.priority[1]
        <4>1. 1 \in 1 .. Len(f.priority)
          BY <2>2, <2>4
        <4> QED
          BY <2>1, <4>1, ElementOfSeq
      <3>2. f.priority = <<p>>
        <4>1. <<p>> \in Seq(Priority) /\ Len(<<p>>) = 1 /\ Len(f.priority) = 1
          <5>1. n <= 1
            BY <2>1, <2>2
          <5>2. n = 1
            BY <2>4, <5>1
          <5> QED
            BY <2>2, <5>2
        <4>2. \A i \in 1 .. Len(f.priority) : f.priority[i] = <<p>>[i]
          <5>1. <<p>>[1] = p /\ f.priority[1] = p
            BY <3>1
          <5>2. \A i \in 1 .. Len(f.priority) : i = 1
            BY <4>1
          <5> QED
            BY <5>1, <5>2
        <4> QED
          BY <2>1, <4>1, <4>2, SeqEqual
      <3> QED
        BY <2>1, <3>2, HeadersBack
    <2> QED
      BY <2>3, <2>4
  <1>3. CASE f \in [type: {"PRIORITY"}, id: StreamId, priority: Priority]
    <2>1. /\ f.id \in StreamId /\ f.priority \in Priority
          /\ f = [type |-> "PRIORITY", id |-> f.id, priority |-> f.priority]
      BY <1>3
    <2> QED
      BY <2>1, PriorityBack
  <1>4. CASE f \in [type: {"RST_STREAM"}, id: StreamId, error: Word32]
    <2>1. /\ f.id \in StreamId /\ f.error \in Word32
          /\ f = [type |-> "RST_STREAM", id |-> f.id, error |-> f.error]
      BY <1>4
    <2> QED
      BY <2>1, RstStreamBack
  <1>5. CASE f \in [type: {"SETTINGS"}, ack: {FALSE}, settings: Seq(Setting)]
    <2>1. /\ f.settings \in Seq(Setting)
          /\ f = [type |-> "SETTINGS", ack |-> FALSE, settings |-> f.settings]
      BY <1>5
    <2> QED
      BY <2>1, SettingsBack
  <1>6. CASE f \in [type: {"SETTINGS"}, ack: {TRUE}, settings: {<<>>}]
    <2>1. f = [type |-> "SETTINGS", ack |-> TRUE, settings |-> <<>>]
      BY <1>6
    <2> QED
      BY <2>1, SettingsAckBack
  <1>7. CASE f \in [type: {"PUSH_PROMISE"}, id: StreamId, endHeaders: BOOLEAN, promised: Word31,
                    block: ByteString]
    <2>1. /\ f.id \in StreamId /\ f.endHeaders \in BOOLEAN /\ f.promised \in Word31
          /\ f.block \in ByteString
          /\ f = [type |-> "PUSH_PROMISE", id |-> f.id, endHeaders |-> f.endHeaders,
                  promised |-> f.promised, block |-> f.block]
      BY <1>7
    <2> QED
      BY <2>1, PushPromiseBack
  <1>8. CASE f \in [type: {"PING"}, ack: BOOLEAN, data: {d \in ByteString : Len(d) = 8}]
    <2>1. /\ f.ack \in BOOLEAN /\ f.data \in ByteString /\ Len(f.data) = 8
          /\ f = [type |-> "PING", ack |-> f.ack, data |-> f.data]
      BY <1>8
    <2> QED
      BY <2>1, PingBack
  <1>9. CASE f \in [type: {"GOAWAY"}, last: Word31, error: Word32, data: ByteString]
    <2>1. /\ f.last \in Word31 /\ f.error \in Word32 /\ f.data \in ByteString
          /\ f = [type |-> "GOAWAY", last |-> f.last, error |-> f.error, data |-> f.data]
      BY <1>9
    <2> QED
      BY <2>1, GoAwayBack
  <1>10. CASE f \in [type: {"WINDOW_UPDATE"}, id: Word31, increment: Word31 \ {0}]
    <2>1. /\ f.id \in Word31 /\ f.increment \in Word31 /\ f.increment # 0
          /\ f = [type |-> "WINDOW_UPDATE", id |-> f.id, increment |-> f.increment]
      BY <1>10
    <2> QED
      BY <2>1, WindowUpdateBack
  <1>11. CASE f \in [type: {"CONTINUATION"}, id: StreamId, endHeaders: BOOLEAN, block: ByteString]
    <2>1. /\ f.id \in StreamId /\ f.endHeaders \in BOOLEAN /\ f.block \in ByteString
          /\ f = [type |-> "CONTINUATION", id |-> f.id, endHeaders |-> f.endHeaders, block |-> f.block]
      BY <1>11
    <2> QED
      BY <2>1, ContinuationBack
  <1>12. CASE f \in [type: {"UNKNOWN"}, code: 10 .. 255, flags: Byte, id: Word31, data: ByteString]
    <2>1. /\ f.code \in 10 .. 255 /\ f.flags \in Byte /\ f.id \in Word31 /\ f.data \in ByteString
          /\ f = [type |-> "UNKNOWN", code |-> f.code, flags |-> f.flags, id |-> f.id, data |-> f.data]
      BY <1>12
    <2> QED
      BY <2>1, UnknownBack
  <1> QED
    BY <1>1, <1>2, <1>3, <1>4, <1>5, <1>6, <1>7, <1>8, <1>9, <1>10, <1>11, <1>12 DEF Sendable

\* encode and decode: every frame that can be sent and whose payload fits into
\* a header comes back, and what follows it is left.
THEOREM FrameComesBack ==
    ASSUME NEW f \in Sendable, PayloadLen(Outline(f)) \in Word24, NEW rest \in ByteString
    PROVE  EncodeFrame(f) \in ByteString /\ DecodeFrame(EncodeFrame(f) \o rest) = [frame |-> f, rest |-> rest]
  <1>1. ComesBack(f)
    BY AllComeBack
  <1>2. PICK payload, code, flags, id, head :
           /\ payload = PayloadOf(f) /\ code = CodeOfType(f) /\ flags = FlagsOf(f) /\ id = IdOf(f)
           /\ head = [length |-> Len(payload), code |-> code, flags |-> flags, id |-> id]
    OBVIOUS
  <1>7. /\ payload \in Seq(Byte) /\ Len(payload) = PayloadLen(Outline(f))
        /\ code \in Byte /\ flags \in Byte /\ id \in Word31 /\ ParseFrame(head, payload) = f
    BY <1>1, <1>2 DEF ComesBack
  <1>3. Len(payload) \in Word24 /\ payload \in Seq(Byte) /\ rest \in Seq(Byte)
    BY <1>7 DEF ByteString
  <1>4. EncodeFrame(f) = WriteHeader(Len(payload), code, flags, id) \o payload
    BY <1>2, <1>7 DEF EncodeFrame
  <1>5. DecodeFrame(WriteHeader(Len(payload), code, flags, id) \o payload \o rest)
           = [frame |-> ParseFrame(head, payload), rest |-> rest]
    <2>1. DecodeFrame(WriteHeader(Len(payload), code, flags, id) \o payload \o rest)
             = [frame |-> ParseFrame([length |-> Len(payload), code |-> code, flags |-> flags,
                                      id |-> id], payload),
                rest  |-> rest]
      BY <1>3, <1>7, FrameCut
    <2> QED
      BY <1>2, <2>1
  <1>6. EncodeFrame(f) \in ByteString
    <2>1. PICK w : w = WriteHeader(Len(payload), code, flags, id)
      OBVIOUS
    <2>2. w \in Seq(Byte)
      BY <1>3, <1>7, <2>1, HeaderRead
    <2>3. w \o payload \in Seq(Byte)
      BY <1>3, <2>2, ConcatProperties
    <2> QED
      BY <1>4, <2>1, <2>3 DEF ByteString
  <1> QED
    BY <1>2, <1>4, <1>5, <1>6, <1>7

-------------------------------------------------------------------------------
(***************************************************************************)
(* The parsers and module Frames.                                          *)
(***************************************************************************)

\* A header that was read, and a payload that has its length.
ReadHeader == [length: Nat, code: Byte, flags: Byte, id: Nat]

\* Frames and the parsers agree on a frame.
Agree(h, payload) ==
    LET seen  == WireOutline(h, payload)
        frame == ParseFrame(h, payload)
    IN /\ Parses(seen) <=> frame # Rejected
       /\ Parses(seen) => Outline(frame) = Parsed(seen)

Body(h, payload) == IF Padded(h) THEN RemovePadding(payload) ELSE payload

\* What Frames is told of a frame whose type may be padded.
LEMMA PaddingRead ==
    ASSUME NEW h \in ReadHeader, NEW payload \in Seq(Byte), h.length = Len(payload),
           NEW type \in MayPad, TypeOfCode(h.code) = type,
           NEW w, w = WireOutline(h, payload)
    PROVE  /\ w.type = type /\ w.id = h.id /\ w.len = Len(payload) /\ Len(payload) \in Nat
           /\ (w.pad # NoPad => PaddingFits(w)) <=> (Padded(h) => ValidPadding(payload))
           /\ (w.pad # NoPad => PaddingFits(w)) =>
                 /\ Body(h, payload) \in Seq(Byte) /\ Len(Body(h, payload)) \in Nat
                 /\ Unpadded(w) = Len(Body(h, payload))
  <1>1. PICK n \in Nat : n = Len(payload) /\ n = h.length
    BY LenProperties
  <1>2. /\ w.type = type /\ w.id = h.id /\ w.len = n
        /\ w.pad = IF Padded(h) THEN IF payload = <<>> THEN 0 ELSE payload[1] ELSE NoPad
    BY <1>1 DEF WireOutline
  <1>3. CASE ~Padded(h)
    <2>1. w.pad = NoPad /\ Body(h, payload) = payload
      BY <1>2, <1>3 DEF Body
    <2>2. Unpadded(w) = n
      BY <1>2, <2>1 DEF Unpadded
    <2> QED
      BY <1>1, <1>2, <1>3, <2>1, <2>2
  <1>4. CASE Padded(h) /\ payload = <<>>
    <2>1. n = 0 /\ w.pad = 0
      BY <1>1, <1>2, <1>4, EmptySeq
    <2>2. ~PaddingFits(w) /\ w.pad # NoPad /\ ~ValidPadding(payload)
      BY <1>2, <1>4, <2>1 DEF PaddingFits, NoPad, ValidPadding
    <2> QED
      BY <1>1, <1>2, <1>4, <2>2
  <1>5. CASE Padded(h) /\ payload # <<>>
    <2>1. PICK p \in 0 .. 255 : p = payload[1] /\ n >= 1
      <3>1. n # 0
        BY <1>1, <1>5, EmptySeq
      <3>2. 1 \in 1 .. Len(payload)
        BY <1>1, <3>1
      <3>3. payload[1] \in Byte
        BY <3>2, ElementOfSeq
      <3> QED
        BY <1>1, <3>1, <3>3 DEF Byte
    <2>2. w.pad = p /\ w.pad # NoPad
      <3>1. w.pad = p
        BY <1>2, <1>5, <2>1
      <3>2. p # NoPad
        BY DEF NoPad
      <3> QED
        BY <3>1, <3>2
    <2>3. PaddingFits(w) <=> p < n - 1
      BY <1>2, <2>1, <2>2 DEF PaddingFits
    <2>4. ValidPadding(payload) <=> p < n - 1
      BY <1>1, <1>5, <2>1 DEF ValidPadding
    <2>5. ASSUME p < n - 1
          PROVE  /\ Body(h, payload) \in Seq(Byte) /\ Len(Body(h, payload)) = n - 1 - p
                 /\ Unpadded(w) = n - 1 - p
      <3>1. Body(h, payload) = SubSeq(payload, 2, n - p)
        BY <1>1, <1>5, <2>1 DEF Body, RemovePadding
      <3>2. PICK to \in Nat : to = n - p /\ 2 <= to /\ to <= n
        BY <2>5
      <3>3. \A i \in 2 .. to : payload[i] \in Byte
        <4>1. \A i \in 2 .. to : i \in 1 .. Len(payload)
          BY <1>1, <3>2
        <4> QED
          BY <4>1, ElementOfSeq
      <3>4. /\ SubSeq(payload, 2, to) \in Seq(Byte)
            /\ Len(SubSeq(payload, 2, to)) = IF 2 <= to THEN to - 2 + 1 ELSE 0
        BY <3>3, SubSeqProperties
      <3>5. Unpadded(w) = n - 1 - p
        BY <1>2, <2>2 DEF Unpadded
      <3>6. to - 2 + 1 = n - 1 - p
        BY <3>2
      <3> QED
        BY <3>1, <3>2, <3>4, <3>5, <3>6
    <2>6. p < n - 1 => n - 1 - p \in Nat
      OBVIOUS
    <2> QED
      BY <1>1, <1>2, <1>5, <2>2, <2>3, <2>4, <2>5, <2>6
  <1> QED
    BY <1>3, <1>4, <1>5

\* And of one whose type has no padding.
LEMMA PlainRead ==
    ASSUME NEW h \in ReadHeader, NEW payload \in Seq(Byte), h.length = Len(payload),
           TypeOfCode(h.code) \notin MayPad
    PROVE  LET w == WireOutline(h, payload)
           IN /\ w.type = TypeOfCode(h.code) /\ w.id = h.id
              /\ w.len = Len(payload) /\ Len(payload) \in Nat
              /\ w.pad = NoPad /\ w.prio = FALSE /\ Unpadded(w) = Len(payload)
  <1>1. PICK w : w = WireOutline(h, payload)
    OBVIOUS
  <1>2. Len(payload) \in Nat
    BY LenProperties
  <1>3. /\ w.type = TypeOfCode(h.code) /\ w.id = h.id /\ w.len = Len(payload)
        /\ w.pad = NoPad /\ w.prio = FALSE
    BY <1>1 DEF WireOutline, MayPad
  <1>4. Unpadded(w) = Len(payload)
    BY <1>3 DEF Unpadded
  <1> QED
    BY <1>1, <1>2, <1>3, <1>4

\* The parsers agree with Frames, type by type.
LEMMA DataAgrees ==
    ASSUME NEW h \in ReadHeader, NEW payload \in Seq(Byte), h.length = Len(payload),
           TypeOfCode(h.code) = "DATA"
    PROVE  Agree(h, payload)
  <1>1. PICK w : w = WireOutline(h, payload)
    OBVIOUS
  <1>2. PICK body : body = Body(h, payload)
    OBVIOUS
  <1>3. "DATA" \in MayPad
    BY DEF MayPad
  <1>4. /\ w.type = "DATA" /\ w.id = h.id /\ w.len = Len(payload) /\ Len(payload) \in Nat
        /\ (w.pad # NoPad => PaddingFits(w)) <=> (Padded(h) => ValidPadding(payload))
        /\ (w.pad # NoPad => PaddingFits(w)) =>
              body \in Seq(Byte) /\ Len(body) \in Nat /\ Unpadded(w) = Len(body)
    BY <1>1, <1>2, <1>3, PaddingRead
  <1>5. w.flag = HasFlag(h.flags, END_STREAM) /\ w.prio = FALSE
    BY <1>1 DEF WireOutline
  <1>6. Fixed(w.type, w.prio) = 0
    BY <1>4 DEF Fixed
  <1>7. Parses(w) <=> h.id # 0 /\ (Padded(h) => ValidPadding(payload))
    <2>1. RightStream(w) <=> h.id # 0
      BY <1>4 DEF RightStream, OnStream, OnConnection
    <2>2. w.type \notin DOMAIN FixedLen /\ w.type \in MayPad /\ Fixed(w.type, w.prio) = 0
      BY <1>3, <1>4, <1>6, LengthOfFixed
    <2>3. (w.pad # NoPad => PaddingFits(w)) => Unpadded(w) >= Fixed(w.type, w.prio)
      BY <1>4, <2>2
    <2>4. RightLength(w) <=> (w.pad # NoPad => PaddingFits(w))
      BY <2>2, <2>3 DEF RightLength
    <2> QED
      BY <1>4, <2>1, <2>4 DEF Parses
  <1>8. PICK frame : frame = ParseFrame(h, payload)
    OBVIOUS
  <1>9. frame = ParseData(h, payload)
    BY <1>8 DEF ParseFrame
  <1>10. CASE ~Parses(w)
    <2>1. frame = Rejected
      BY <1>7, <1>9, <1>10 DEF ParseData
    <2> QED
      BY <1>1, <1>8, <1>10, <2>1 DEF Agree
  <1>11. CASE Parses(w)
    <2>1. frame = [type |-> "DATA", id |-> h.id, endStream |-> HasFlag(h.flags, END_STREAM),
                   data |-> body]
      BY <1>2, <1>7, <1>9, <1>11 DEF ParseData, Body
    <2>2. frame # Rejected
      <3>1. frame.type = "DATA" /\ Rejected.type = "REJECTED"
        BY <2>1 DEF Rejected
      <3> QED
        BY <3>1
    <2>3. Outline(frame) = [type |-> "DATA", id |-> h.id, flag |-> HasFlag(h.flags, END_STREAM),
                            prio |-> FALSE, n |-> Len(body)]
      BY <2>1 DEF Outline, IdOf, OnConnection
    <2>4. Parsed(w) = [type |-> "DATA", id |-> h.id, flag |-> HasFlag(h.flags, END_STREAM),
                       prio |-> FALSE, n |-> Unpadded(w) - Fixed(w.type, w.prio)]
      BY <1>4, <1>5 DEF Parsed
    <2>5. Unpadded(w) - Fixed(w.type, w.prio) = Len(body)
      <3>1. Unpadded(w) = Len(body) /\ Len(body) \in Nat
        BY <1>4, <1>7, <1>11
      <3> QED
        BY <1>6, <3>1
    <2> QED
      BY <1>1, <1>8, <1>11, <2>2, <2>3, <2>4, <2>5 DEF Agree
  <1> QED
    BY <1>10, <1>11

\* What Drop leaves.
LEMMA DropLength ==
    ASSUME NEW s \in Seq(Byte), NEW m \in Nat, m <= Len(s)
    PROVE  Drop(s, m) \in Seq(Byte) /\ Len(Drop(s, m)) = Len(s) - m
  <1>1. PICK n \in Nat : n = Len(s)
    BY LenProperties
  <1>2. ASSUME NEW i \in m + 1 .. n PROVE s[i] \in Byte
    <2>1. i \in 1 .. Len(s)
      BY <1>1
    <2> QED
      BY <2>1, ElementOfSeq
  <1>3. PICK from \in Nat : from = m + 1
    OBVIOUS
  <1>4. /\ SubSeq(s, from, n) \in Seq(Byte)
        /\ Len(SubSeq(s, from, n)) = IF from <= n THEN n - from + 1 ELSE 0
    BY <1>2, <1>3, SubSeqProperties
  <1>5. (IF from <= n THEN n - from + 1 ELSE 0) = n - m
    BY <1>1, <1>3
  <1> QED
    BY <1>1, <1>3, <1>4, <1>5 DEF Drop

\* What was not refused is not the refusal.
LEMMA NotRejected ==
    ASSUME NEW frame, frame.type \in FrameTypes
    PROVE  frame # Rejected
  <1>1. Rejected.type = "REJECTED" /\ "REJECTED" \notin FrameTypes
    BY DEF Rejected, FrameTypes, OnStream, OnConnection
  <1> QED
    BY <1>1

\* HEADERS.
LEMMA HeadersAgrees ==
    ASSUME NEW h \in ReadHeader, NEW payload \in Seq(Byte), h.length = Len(payload),
           TypeOfCode(h.code) = "HEADERS"
    PROVE  Agree(h, payload)
  <1>1. PICK w : w = WireOutline(h, payload)
    OBVIOUS
  <1>2. PICK body : body = Body(h, payload)
    OBVIOUS
  <1>3. "HEADERS" \in MayPad
    BY DEF MayPad
  <1>4. /\ w.type = "HEADERS" /\ w.id = h.id /\ w.len = Len(payload) /\ Len(payload) \in Nat
        /\ (w.pad # NoPad => PaddingFits(w)) <=> (Padded(h) => ValidPadding(payload))
        /\ (w.pad # NoPad => PaddingFits(w)) =>
              body \in Seq(Byte) /\ Len(body) \in Nat /\ Unpadded(w) = Len(body)
    BY <1>1, <1>2, <1>3, PaddingRead
  <1>5. w.flag = HasFlag(h.flags, END_STREAM) /\ w.prio = HasFlag(h.flags, PRIORITY)
    BY <1>1 DEF WireOutline, HasFlag
  <1>6. PICK fixed \in Nat : fixed = Fixed(w.type, w.prio)
                             /\ fixed = IF HasFlag(h.flags, PRIORITY) THEN 5 ELSE 0
    <2>1. Fixed(w.type, w.prio) = IF w.prio THEN 5 ELSE 0
      BY <1>4 DEF Fixed
    <2>2. CASE w.prio
      <3>1. HasFlag(h.flags, PRIORITY) /\ Fixed(w.type, w.prio) = 5
        BY <1>5, <2>1, <2>2
      <3> QED
        BY <3>1
    <2>3. CASE ~w.prio
      <3>1. ~HasFlag(h.flags, PRIORITY) /\ Fixed(w.type, w.prio) = 0
        BY <1>5, <2>1, <2>3
      <3> QED
        BY <3>1
    <2> QED
      BY <2>2, <2>3
  <1>7. RightStream(w) <=> h.id # 0
    BY <1>4 DEF RightStream, OnStream, OnConnection
  <1>8. RightLength(w) <=> /\ Padded(h) => ValidPadding(payload)
                           /\ Len(body) >= fixed
    <2>1. w.type \notin DOMAIN FixedLen /\ w.type \in MayPad
      BY <1>3, <1>4, LengthOfFixed
    <2>2. RightLength(w) <=> (w.pad # NoPad => PaddingFits(w)) /\ Unpadded(w) >= fixed
      BY <1>6, <2>1 DEF RightLength
    <2> QED
      BY <1>4, <2>2
  <1>9. Parses(w) <=> /\ h.id # 0
                      /\ Padded(h) => ValidPadding(payload)
                      /\ Len(body) >= fixed
    BY <1>4, <1>7, <1>8 DEF Parses
  <1>10. PICK frame : frame = ParseFrame(h, payload)
    OBVIOUS
  <1>11. frame = ParseHeaders(h, payload)
    BY <1>10 DEF ParseFrame
  <1>12. CASE ~Parses(w)
    <2>1. CASE h.id = 0 \/ (Padded(h) /\ ~ValidPadding(payload))
      <3>1. frame = Rejected
        BY <1>11, <2>1 DEF ParseHeaders
      <3> QED
        BY <1>1, <1>10, <1>12, <3>1 DEF Agree
    <2>2. CASE ~(h.id = 0 \/ (Padded(h) /\ ~ValidPadding(payload)))
      <3>1. ~(Len(body) >= fixed) /\ Len(body) \in Nat
        BY <1>4, <1>9, <1>12, <2>2
      <3>2. HasFlag(h.flags, PRIORITY) /\ Len(body) < 5
        BY <1>6, <3>1
      <3>3. frame = Rejected
        BY <1>2, <1>11, <3>2 DEF ParseHeaders, Body
      <3> QED
        BY <1>1, <1>10, <1>12, <3>3 DEF Agree
    <2> QED
      BY <2>1, <2>2
  <1>13. CASE Parses(w)
    <2>1. body \in Seq(Byte) /\ Len(body) \in Nat /\ Unpadded(w) = Len(body) /\ Len(body) >= fixed
      BY <1>4, <1>9, <1>13
    <2>2. ~(HasFlag(h.flags, PRIORITY) /\ Len(body) < 5)
      BY <1>6, <2>1
    <2>3. PICK block, priority :
             /\ block = IF HasFlag(h.flags, PRIORITY) THEN Drop(body, 5) ELSE body
             /\ priority = IF HasFlag(h.flags, PRIORITY) THEN <<GetPriority(body)>> ELSE <<>>
      OBVIOUS
    <2>4. frame = [type |-> "HEADERS", id |-> h.id,
                   endStream  |-> HasFlag(h.flags, END_STREAM),
                   endHeaders |-> HasFlag(h.flags, END_HEADERS),
                   priority   |-> priority, block |-> block]
      BY <1>2, <1>9, <1>11, <1>13, <2>2, <2>3 DEF ParseHeaders, Body
    <2>5. frame # Rejected
      <3>1. frame.type \in FrameTypes
        BY <2>4 DEF FrameTypes, OnStream
      <3> QED
        BY <3>1, NotRejected
    <2>6. (priority # <<>>) = HasFlag(h.flags, PRIORITY)
      <3>1. <<GetPriority(body)>> # <<>>
        OBVIOUS
      <3> QED
        BY <2>3, <3>1 DEF HasFlag
    <2>7. Outline(frame) = [type |-> "HEADERS", id |-> h.id, flag |-> HasFlag(h.flags, END_STREAM),
                            prio |-> priority # <<>>, n |-> Len(block)]
      BY <2>4 DEF Outline, IdOf, OnConnection
    <2>8. Parsed(w) = [type |-> "HEADERS", id |-> h.id, flag |-> HasFlag(h.flags, END_STREAM),
                       prio |-> HasFlag(h.flags, PRIORITY), n |-> Unpadded(w) - fixed]
      BY <1>4, <1>5, <1>6 DEF Parsed
    <2>9. Unpadded(w) - fixed = Len(block)
      <3>1. CASE HasFlag(h.flags, PRIORITY)
        <4>1. fixed = 5 /\ block = Drop(body, 5) /\ 5 <= Len(body)
          BY <1>6, <2>1, <2>3, <3>1
        <4>2. Len(block) = Len(body) - 5
          BY <2>1, <4>1, DropLength
        <4> QED
          BY <2>1, <4>1, <4>2
      <3>2. CASE ~HasFlag(h.flags, PRIORITY)
        BY <1>6, <2>1, <2>3, <3>2
      <3> QED
        BY <3>1, <3>2
    <2>10. Outline(frame) = Parsed(w)
      BY <2>6, <2>7, <2>8, <2>9
    <2> QED
      BY <1>1, <1>10, <1>13, <2>5, <2>10 DEF Agree
  <1> QED
    BY <1>12, <1>13

\* PUSH_PROMISE.
LEMMA PushPromiseAgrees ==
    ASSUME NEW h \in ReadHeader, NEW payload \in Seq(Byte), h.length = Len(payload),
           TypeOfCode(h.code) = "PUSH_PROMISE"
    PROVE  Agree(h, payload)
  <1>1. PICK w : w = WireOutline(h, payload)
    OBVIOUS
  <1>2. PICK body : body = Body(h, payload)
    OBVIOUS
  <1>3. "PUSH_PROMISE" \in MayPad
    BY DEF MayPad
  <1>4. /\ w.type = "PUSH_PROMISE" /\ w.id = h.id /\ w.len = Len(payload) /\ Len(payload) \in Nat
        /\ (w.pad # NoPad => PaddingFits(w)) <=> (Padded(h) => ValidPadding(payload))
        /\ (w.pad # NoPad => PaddingFits(w)) =>
              body \in Seq(Byte) /\ Len(body) \in Nat /\ Unpadded(w) = Len(body)
    BY <1>1, <1>2, <1>3, PaddingRead
  <1>5. w.flag = HasFlag(h.flags, END_HEADERS) /\ w.prio = FALSE
    BY <1>1 DEF WireOutline
  <1>6. Fixed(w.type, w.prio) = 4
    BY <1>4 DEF Fixed
  <1>7. RightStream(w) <=> h.id # 0
    BY <1>4 DEF RightStream, OnStream, OnConnection
  <1>8. RightLength(w) <=> /\ Padded(h) => ValidPadding(payload)
                           /\ Len(body) >= 4
    <2>1. w.type \notin DOMAIN FixedLen /\ w.type \in MayPad
      BY <1>3, <1>4, LengthOfFixed
    <2>2. RightLength(w) <=> (w.pad # NoPad => PaddingFits(w)) /\ Unpadded(w) >= 4
      BY <1>6, <2>1 DEF RightLength
    <2> QED
      BY <1>4, <2>2
  <1>9. Parses(w) <=> /\ h.id # 0
                      /\ Padded(h) => ValidPadding(payload)
                      /\ Len(body) >= 4
    BY <1>4, <1>7, <1>8 DEF Parses
  <1>10. PICK frame : frame = ParseFrame(h, payload)
    OBVIOUS
  <1>11. frame = ParsePushPromise(h, payload)
    BY <1>10 DEF ParseFrame
  <1>12. CASE ~Parses(w)
    <2>1. CASE h.id = 0 \/ (Padded(h) /\ ~ValidPadding(payload))
      <3>1. frame = Rejected
        BY <1>11, <2>1 DEF ParsePushPromise
      <3> QED
        BY <1>1, <1>10, <1>12, <3>1 DEF Agree
    <2>2. CASE ~(h.id = 0 \/ (Padded(h) /\ ~ValidPadding(payload)))
      <3>1. ~(Len(body) >= 4) /\ Len(body) \in Nat
        BY <1>4, <1>9, <1>12, <2>2
      <3>2. Len(body) < 4
        BY <3>1
      <3>3. frame = Rejected
        BY <1>2, <1>11, <3>2 DEF ParsePushPromise, Body
      <3> QED
        BY <1>1, <1>10, <1>12, <3>3 DEF Agree
    <2> QED
      BY <2>1, <2>2
  <1>13. CASE Parses(w)
    <2>1. body \in Seq(Byte) /\ Len(body) \in Nat /\ Unpadded(w) = Len(body) /\ Len(body) >= 4
      BY <1>4, <1>9, <1>13
    <2>2. ~(Len(body) < 4)
      BY <2>1
    <2>3. frame = [type |-> "PUSH_PROMISE", id |-> h.id,
                   endHeaders |-> HasFlag(h.flags, END_HEADERS),
                   promised |-> GetId(body, 1), block |-> Drop(body, 4)]
      BY <1>2, <1>9, <1>11, <1>13, <2>2 DEF ParsePushPromise, Body
    <2>4. frame # Rejected
      <3>1. frame.type \in FrameTypes
        BY <2>3 DEF FrameTypes, OnStream
      <3> QED
        BY <3>1, NotRejected
    <2>5. Outline(frame) = [type |-> "PUSH_PROMISE", id |-> h.id,
             flag |-> HasFlag(h.flags, END_HEADERS), prio |-> FALSE, n |-> Len(Drop(body, 4))]
      BY <2>3 DEF Outline, IdOf, OnConnection
    <2>6. Parsed(w) = [type |-> "PUSH_PROMISE", id |-> h.id, flag |-> HasFlag(h.flags, END_HEADERS),
                       prio |-> FALSE, n |-> Unpadded(w) - Fixed(w.type, w.prio)]
      BY <1>4, <1>5 DEF Parsed
    <2>7. Unpadded(w) - Fixed(w.type, w.prio) = Len(Drop(body, 4))
      <3>1. Len(Drop(body, 4)) = Len(body) - 4
        BY <2>1, DropLength
      <3> QED
        BY <1>6, <2>1, <3>1
    <2>8. Outline(frame) = Parsed(w)
      BY <2>5, <2>6, <2>7
    <2> QED
      BY <1>1, <1>10, <1>13, <2>4, <2>8 DEF Agree
  <1> QED
    BY <1>12, <1>13

\* SETTINGS.
LEMMA SettingsAgrees ==
    ASSUME NEW h \in ReadHeader, NEW payload \in Seq(Byte), h.length = Len(payload),
           TypeOfCode(h.code) = "SETTINGS"
    PROVE  Agree(h, payload)
  <1>1. PICK w : w = WireOutline(h, payload)
    OBVIOUS
  <1>2. /\ w.type = "SETTINGS" /\ w.id = h.id /\ w.len = Len(payload) /\ Len(payload) \in Nat
        /\ w.pad = NoPad /\ w.prio = FALSE /\ Unpadded(w) = Len(payload)
    <2>1. TypeOfCode(h.code) \notin MayPad
      BY DEF MayPad
    <2> QED
      BY <1>1, <2>1, PlainRead
  <1>3. PICK settings : settings = GetSettings(payload)
    OBVIOUS
  <1>4. /\ w.flag = HasFlag(h.flags, END_STREAM)
        /\ w.value # 0 <=> \A k \in DOMAIN settings : ValidSetting(settings[k])
    BY <1>1, <1>3 DEF WireOutline
  <1>5. HasFlag(h.flags, ACK) = HasFlag(h.flags, END_STREAM)
    BY DEF ACK, END_STREAM
  <1>6. Fixed(w.type, w.prio) = 0
    BY <1>2 DEF Fixed
  <1>7. Parses(w) <=> /\ h.id = 0 /\ Len(payload) % 6 = 0
                      /\ w.flag => payload = <<>>
                      /\ \A k \in DOMAIN settings : ValidSetting(settings[k])
    <2>1. RightStream(w) <=> h.id = 0
      BY <1>2 DEF RightStream, OnStream, OnConnection
    <2>2. RightLength(w)
      BY <1>2, <1>6, LengthOfFixed DEF RightLength
    <2>3. Len(payload) = 0 <=> payload = <<>>
      BY EmptySeq
    <2> QED
      BY <1>2, <1>4, <2>1, <2>2, <2>3 DEF Parses, RightSettings
  <1>8. PICK frame : frame = ParseFrame(h, payload)
    OBVIOUS
  <1>9. frame = ParseSettings(h, payload)
    BY <1>8 DEF ParseFrame
  <1>10. CASE ~Parses(w)
    <2>1. frame = Rejected
      BY <1>3, <1>4, <1>5, <1>7, <1>9, <1>10 DEF ParseSettings
    <2> QED
      BY <1>1, <1>8, <1>10, <2>1 DEF Agree
  <1>11. CASE Parses(w)
    <2>1. frame = [type |-> "SETTINGS", ack |-> HasFlag(h.flags, ACK), settings |-> settings]
      BY <1>3, <1>4, <1>5, <1>7, <1>9, <1>11 DEF ParseSettings
    <2>2. frame # Rejected
      <3>1. frame.type \in FrameTypes
        BY <2>1 DEF FrameTypes, OnConnection
      <3> QED
        BY <3>1, NotRejected
    <2>3. Outline(frame) = [type |-> "SETTINGS", id |-> 0, flag |-> HasFlag(h.flags, ACK),
                            prio |-> FALSE, n |-> Len(settings)]
      BY <2>1 DEF Outline, IdOf, OnConnection
    <2>4. Parsed(w) = [type |-> "SETTINGS", id |-> h.id, flag |-> HasFlag(h.flags, END_STREAM),
                       prio |-> FALSE, n |-> Len(payload) \div 6]
      BY <1>2, <1>4 DEF Parsed
    <2>5. Len(settings) = Len(payload) \div 6
      <3>1. PICK m \in Nat : m = Len(payload) \div 6
        BY <1>2
      <3>2. PICK S : S = {settings[k] : k \in 1 .. m}
        OBVIOUS
      <3>3. settings \in [1 .. m -> S]
        BY <1>3, <3>1, <3>2 DEF GetSettings
      <3>4. settings \in Seq(S) /\ Len(settings) = m
        BY <3>3
      <3> QED
        BY <3>1, <3>4
    <2>6. Outline(frame) = Parsed(w)
      BY <1>5, <1>7, <1>11, <2>3, <2>4, <2>5
    <2> QED
      BY <1>1, <1>8, <1>11, <2>2, <2>6 DEF Agree
  <1> QED
    BY <1>10, <1>11

\* PRIORITY.
LEMMA PriorityAgrees ==
    ASSUME NEW h \in ReadHeader, NEW payload \in Seq(Byte), h.length = Len(payload),
           TypeOfCode(h.code) = "PRIORITY"
    PROVE  Agree(h, payload)
  <1>1. PICK w : w = WireOutline(h, payload)
    OBVIOUS
  <1>2. /\ w.type = "PRIORITY" /\ w.id = h.id /\ w.len = Len(payload) /\ Len(payload) \in Nat
        /\ w.pad = NoPad /\ w.prio = FALSE /\ Unpadded(w) = Len(payload)
    <2>1. TypeOfCode(h.code) \notin MayPad
      BY DEF MayPad
    <2> QED
      BY <1>1, <2>1, PlainRead
  <1>3. w.flag = FALSE
    BY <1>1 DEF WireOutline
  <1>4. Fixed(w.type, w.prio) = 0
    BY <1>2 DEF Fixed
  <1>5. Parses(w) <=> h.id # 0 /\ Len(payload) = 5
    <2>1. RightStream(w) <=> h.id # 0
      BY <1>2 DEF RightStream, OnStream, OnConnection
    <2>2. RightLength(w) <=> Len(payload) = 5
      BY <1>2, <1>4, LengthOfFixed DEF RightLength
    <2> QED
      BY <1>2, <2>1, <2>2 DEF Parses
  <1>6. PICK frame : frame = ParseFrame(h, payload)
    OBVIOUS
  <1>7. frame = ParsePriority(h, payload)
    BY <1>6 DEF ParseFrame
  <1>8. CASE ~Parses(w)
    <2>1. frame = Rejected
      BY <1>5, <1>7, <1>8 DEF ParsePriority
    <2> QED
      BY <1>1, <1>6, <1>8, <2>1 DEF Agree
  <1>9. CASE Parses(w)
    <2>1. frame = [type |-> "PRIORITY", id |-> h.id, priority |-> GetPriority(payload)]
      BY <1>5, <1>7, <1>9 DEF ParsePriority
    <2>2. frame # Rejected
      <3>1. frame.type \in FrameTypes
        BY <2>1 DEF FrameTypes, OnStream
      <3> QED
        BY <3>1, NotRejected
    <2>3. Outline(frame) = [type |-> "PRIORITY", id |-> h.id, flag |-> FALSE, prio |-> FALSE, n |-> 0]
      BY <2>1 DEF Outline, IdOf, OnConnection
    <2>4. Parsed(w) = [type |-> "PRIORITY", id |-> h.id, flag |-> FALSE, prio |-> FALSE, n |-> 0]
      BY <1>2, <1>3 DEF Parsed
    <2> QED
      BY <1>1, <1>6, <1>9, <2>2, <2>3, <2>4 DEF Agree
  <1> QED
    BY <1>8, <1>9

\* RST_STREAM.
LEMMA RstStreamAgrees ==
    ASSUME NEW h \in ReadHeader, NEW payload \in Seq(Byte), h.length = Len(payload),
           TypeOfCode(h.code) = "RST_STREAM"
    PROVE  Agree(h, payload)
  <1>1. PICK w : w = WireOutline(h, payload)
    OBVIOUS
  <1>2. /\ w.type = "RST_STREAM" /\ w.id = h.id /\ w.len = Len(payload) /\ Len(payload) \in Nat
        /\ w.pad = NoPad /\ w.prio = FALSE /\ Unpadded(w) = Len(payload)
    <2>1. TypeOfCode(h.code) \notin MayPad
      BY DEF MayPad
    <2> QED
      BY <1>1, <2>1, PlainRead
  <1>3. w.flag = FALSE
    BY <1>1 DEF WireOutline
  <1>4. Fixed(w.type, w.prio) = 0
    BY <1>2 DEF Fixed
  <1>5. Parses(w) <=> h.id # 0 /\ Len(payload) = 4
    <2>1. RightStream(w) <=> h.id # 0
      BY <1>2 DEF RightStream, OnStream, OnConnection
    <2>2. RightLength(w) <=> Len(payload) = 4
      BY <1>2, <1>4, LengthOfFixed DEF RightLength
    <2> QED
      BY <1>2, <2>1, <2>2 DEF Parses
  <1>6. PICK frame : frame = ParseFrame(h, payload)
    OBVIOUS
  <1>7. frame = ParseRstStream(h, payload)
    BY <1>6 DEF ParseFrame
  <1>8. CASE ~Parses(w)
    <2>1. frame = Rejected
      BY <1>5, <1>7, <1>8 DEF ParseRstStream
    <2> QED
      BY <1>1, <1>6, <1>8, <2>1 DEF Agree
  <1>9. CASE Parses(w)
    <2>1. frame = [type |-> "RST_STREAM", id |-> h.id, error |-> GetU32(payload, 1)]
      BY <1>5, <1>7, <1>9 DEF ParseRstStream
    <2>2. frame # Rejected
      <3>1. frame.type \in FrameTypes
        BY <2>1 DEF FrameTypes, OnStream
      <3> QED
        BY <3>1, NotRejected
    <2>3. Outline(frame) = [type |-> "RST_STREAM", id |-> h.id, flag |-> FALSE, prio |-> FALSE, n |-> 0]
      BY <2>1 DEF Outline, IdOf, OnConnection
    <2>4. Parsed(w) = [type |-> "RST_STREAM", id |-> h.id, flag |-> FALSE, prio |-> FALSE, n |-> 0]
      BY <1>2, <1>3 DEF Parsed
    <2> QED
      BY <1>1, <1>6, <1>9, <2>2, <2>3, <2>4 DEF Agree
  <1> QED
    BY <1>8, <1>9

\* PING.
LEMMA PingAgrees ==
    ASSUME NEW h \in ReadHeader, NEW payload \in Seq(Byte), h.length = Len(payload),
           TypeOfCode(h.code) = "PING"
    PROVE  Agree(h, payload)
  <1>1. PICK w : w = WireOutline(h, payload)
    OBVIOUS
  <1>2. /\ w.type = "PING" /\ w.id = h.id /\ w.len = Len(payload) /\ Len(payload) \in Nat
        /\ w.pad = NoPad /\ w.prio = FALSE /\ Unpadded(w) = Len(payload)
    <2>1. TypeOfCode(h.code) \notin MayPad
      BY DEF MayPad
    <2> QED
      BY <1>1, <2>1, PlainRead
  <1>3. w.flag = HasFlag(h.flags, ACK)
    BY <1>1 DEF WireOutline, ACK, END_STREAM
  <1>4. Fixed(w.type, w.prio) = 0
    BY <1>2 DEF Fixed
  <1>5. Parses(w) <=> h.id = 0 /\ Len(payload) = 8
    <2>1. RightStream(w) <=> h.id = 0
      BY <1>2 DEF RightStream, OnStream, OnConnection
    <2>2. RightLength(w) <=> Len(payload) = 8
      BY <1>2, <1>4, LengthOfFixed DEF RightLength
    <2> QED
      BY <1>2, <2>1, <2>2 DEF Parses
  <1>6. PICK frame : frame = ParseFrame(h, payload)
    OBVIOUS
  <1>7. frame = ParsePing(h, payload)
    BY <1>6 DEF ParseFrame
  <1>8. CASE ~Parses(w)
    <2>1. frame = Rejected
      BY <1>5, <1>7, <1>8 DEF ParsePing
    <2> QED
      BY <1>1, <1>6, <1>8, <2>1 DEF Agree
  <1>9. CASE Parses(w)
    <2>1. frame = [type |-> "PING", ack |-> HasFlag(h.flags, ACK), data |-> payload]
      BY <1>5, <1>7, <1>9 DEF ParsePing
    <2>2. frame # Rejected
      <3>1. frame.type \in FrameTypes
        BY <2>1 DEF FrameTypes, OnConnection
      <3> QED
        BY <3>1, NotRejected
    <2>3. Outline(frame) = [type |-> "PING", id |-> 0, flag |-> HasFlag(h.flags, ACK), prio |-> FALSE, n |-> 0]
      BY <2>1 DEF Outline, IdOf, OnConnection
    <2>4. Parsed(w) = [type |-> "PING", id |-> h.id, flag |-> HasFlag(h.flags, ACK), prio |-> FALSE, n |-> 0]
      BY <1>2, <1>3 DEF Parsed
    <2> QED
      BY <1>1, <1>5, <1>6, <1>9, <2>2, <2>3, <2>4 DEF Agree
  <1> QED
    BY <1>8, <1>9

\* CONTINUATION.
LEMMA ContinuationAgrees ==
    ASSUME NEW h \in ReadHeader, NEW payload \in Seq(Byte), h.length = Len(payload),
           TypeOfCode(h.code) = "CONTINUATION"
    PROVE  Agree(h, payload)
  <1>1. PICK w : w = WireOutline(h, payload)
    OBVIOUS
  <1>2. /\ w.type = "CONTINUATION" /\ w.id = h.id /\ w.len = Len(payload) /\ Len(payload) \in Nat
        /\ w.pad = NoPad /\ w.prio = FALSE /\ Unpadded(w) = Len(payload)
    <2>1. TypeOfCode(h.code) \notin MayPad
      BY DEF MayPad
    <2> QED
      BY <1>1, <2>1, PlainRead
  <1>3. w.flag = HasFlag(h.flags, END_HEADERS)
    BY <1>1 DEF WireOutline
  <1>4. Fixed(w.type, w.prio) = 0
    BY <1>2 DEF Fixed
  <1>5. Parses(w) <=> h.id # 0
    <2>1. RightStream(w) <=> h.id # 0
      BY <1>2 DEF RightStream, OnStream, OnConnection
    <2>2. RightLength(w)
      BY <1>2, <1>4, LengthOfFixed DEF RightLength
    <2> QED
      BY <1>2, <2>1, <2>2 DEF Parses
  <1>6. PICK frame : frame = ParseFrame(h, payload)
    OBVIOUS
  <1>7. frame = ParseContinuation(h, payload)
    BY <1>6 DEF ParseFrame
  <1>8. CASE ~Parses(w)
    <2>1. frame = Rejected
      BY <1>5, <1>7, <1>8 DEF ParseContinuation
    <2> QED
      BY <1>1, <1>6, <1>8, <2>1 DEF Agree
  <1>9. CASE Parses(w)
    <2>1. frame = [type |-> "CONTINUATION", id |-> h.id,
                   endHeaders |-> HasFlag(h.flags, END_HEADERS), block |-> payload]
      BY <1>5, <1>7, <1>9 DEF ParseContinuation
    <2>2. frame # Rejected
      <3>1. frame.type \in FrameTypes
        BY <2>1 DEF FrameTypes, OnStream
      <3> QED
        BY <3>1, NotRejected
    <2>3. Outline(frame) = [type |-> "CONTINUATION", id |-> h.id,
             flag |-> HasFlag(h.flags, END_HEADERS), prio |-> FALSE, n |-> Len(payload)]
      BY <2>1 DEF Outline, IdOf, OnConnection
    <2>4. Parsed(w) = [type |-> "CONTINUATION", id |-> h.id,
             flag |-> HasFlag(h.flags, END_HEADERS), prio |-> FALSE, n |-> Len(payload)]
      <3>1. Unpadded(w) - Fixed(w.type, w.prio) = Len(payload)
        BY <1>2, <1>4
      <3> QED
        BY <1>2, <1>3, <3>1 DEF Parsed
    <2> QED
      BY <1>1, <1>6, <1>9, <2>2, <2>3, <2>4 DEF Agree
  <1> QED
    BY <1>8, <1>9

\* GOAWAY.
LEMMA GoAwayAgrees ==
    ASSUME NEW h \in ReadHeader, NEW payload \in Seq(Byte), h.length = Len(payload),
           TypeOfCode(h.code) = "GOAWAY"
    PROVE  Agree(h, payload)
  <1>1. PICK w : w = WireOutline(h, payload)
    OBVIOUS
  <1>2. /\ w.type = "GOAWAY" /\ w.id = h.id /\ w.len = Len(payload) /\ Len(payload) \in Nat
        /\ w.pad = NoPad /\ w.prio = FALSE /\ Unpadded(w) = Len(payload)
    <2>1. TypeOfCode(h.code) \notin MayPad
      BY DEF MayPad
    <2> QED
      BY <1>1, <2>1, PlainRead
  <1>3. w.flag = FALSE
    BY <1>1 DEF WireOutline
  <1>4. Fixed(w.type, w.prio) = 8
    BY <1>2 DEF Fixed
  <1>5. Parses(w) <=> h.id = 0 /\ Len(payload) >= 8
    <2>1. RightStream(w) <=> h.id = 0
      BY <1>2 DEF RightStream, OnStream, OnConnection
    <2>2. RightLength(w) <=> Len(payload) >= 8
      BY <1>2, <1>4, LengthOfFixed DEF RightLength
    <2> QED
      BY <1>2, <2>1, <2>2 DEF Parses
  <1>6. PICK frame : frame = ParseFrame(h, payload)
    OBVIOUS
  <1>7. frame = ParseGoAway(h, payload)
    BY <1>6 DEF ParseFrame
  <1>8. CASE ~Parses(w)
    <2>1. frame = Rejected
      <3>1. h.id # 0 \/ Len(payload) < 8
        BY <1>2, <1>5, <1>8
      <3> QED
        BY <1>7, <3>1 DEF ParseGoAway
    <2> QED
      BY <1>1, <1>6, <1>8, <2>1 DEF Agree
  <1>9. CASE Parses(w)
    <2>1. frame = [type |-> "GOAWAY", last |-> GetId(payload, 1), error |-> GetU32(payload, 5),
                   data |-> Drop(payload, 8)]
      <3>1. h.id = 0 /\ ~(Len(payload) < 8)
        BY <1>2, <1>5, <1>9
      <3> QED
        BY <1>7, <3>1 DEF ParseGoAway
    <2>2. frame # Rejected
      <3>1. frame.type \in FrameTypes
        BY <2>1 DEF FrameTypes, OnConnection
      <3> QED
        BY <3>1, NotRejected
    <2>3. Outline(frame) = [type |-> "GOAWAY", id |-> 0, flag |-> FALSE, prio |-> FALSE,
                            n |-> Len(Drop(payload, 8))]
      BY <2>1 DEF Outline, IdOf, OnConnection
    <2>4. Parsed(w) = [type |-> "GOAWAY", id |-> h.id, flag |-> FALSE, prio |-> FALSE,
                       n |-> Len(Drop(payload, 8))]
      <3>1. Len(Drop(payload, 8)) = Len(payload) - 8
        BY <1>2, <1>5, <1>9, DropLength
      <3>2. Unpadded(w) - Fixed(w.type, w.prio) = Len(Drop(payload, 8))
        BY <1>2, <1>4, <3>1
      <3> QED
        BY <1>2, <1>3, <3>2 DEF Parsed
    <2> QED
      BY <1>1, <1>5, <1>6, <1>9, <2>2, <2>3, <2>4 DEF Agree
  <1> QED
    BY <1>8, <1>9

\* WINDOW_UPDATE.
LEMMA WindowUpdateAgrees ==
    ASSUME NEW h \in ReadHeader, NEW payload \in Seq(Byte), h.length = Len(payload),
           TypeOfCode(h.code) = "WINDOW_UPDATE"
    PROVE  Agree(h, payload)
  <1>1. PICK w : w = WireOutline(h, payload)
    OBVIOUS
  <1>2. /\ w.type = "WINDOW_UPDATE" /\ w.id = h.id /\ w.len = Len(payload) /\ Len(payload) \in Nat
        /\ w.pad = NoPad /\ w.prio = FALSE /\ Unpadded(w) = Len(payload)
    <2>1. TypeOfCode(h.code) \notin MayPad
      BY DEF MayPad
    <2> QED
      BY <1>1, <2>1, PlainRead
  <1>3. w.flag = FALSE /\ w.value = IF Len(payload) = 4 THEN GetId(payload, 1) ELSE 0
    BY <1>1 DEF WireOutline
  <1>4. Fixed(w.type, w.prio) = 0
    BY <1>2 DEF Fixed
  <1>5. Parses(w) <=> Len(payload) = 4 /\ GetId(payload, 1) # 0
    <2>1. RightStream(w)
      BY <1>2 DEF RightStream, OnStream, OnConnection
    <2>2. RightLength(w) <=> Len(payload) = 4
      BY <1>2, <1>4, LengthOfFixed DEF RightLength
    <2> QED
      BY <1>2, <1>3, <2>1, <2>2 DEF Parses
  <1>6. PICK frame : frame = ParseFrame(h, payload)
    OBVIOUS
  <1>7. frame = ParseWindowUpdate(h, payload)
    BY <1>6 DEF ParseFrame
  <1>8. CASE ~Parses(w)
    <2>1. frame = Rejected
      BY <1>5, <1>7, <1>8 DEF ParseWindowUpdate
    <2> QED
      BY <1>1, <1>6, <1>8, <2>1 DEF Agree
  <1>9. CASE Parses(w)
    <2>1. frame = [type |-> "WINDOW_UPDATE", id |-> h.id, increment |-> GetId(payload, 1)]
      BY <1>5, <1>7, <1>9 DEF ParseWindowUpdate
    <2>2. frame # Rejected
      <3>1. frame.type \in FrameTypes
        BY <2>1 DEF FrameTypes
      <3> QED
        BY <3>1, NotRejected
    <2>3. Outline(frame) = [type |-> "WINDOW_UPDATE", id |-> h.id, flag |-> FALSE, prio |-> FALSE,
                            n |-> GetId(payload, 1)]
      BY <2>1 DEF Outline, IdOf, OnConnection
    <2>4. Parsed(w) = [type |-> "WINDOW_UPDATE", id |-> h.id, flag |-> FALSE, prio |-> FALSE,
                            n |-> GetId(payload, 1)]
      BY <1>2, <1>3, <1>5, <1>9 DEF Parsed
    <2> QED
      BY <1>1, <1>6, <1>9, <2>2, <2>3, <2>4 DEF Agree
  <1> QED
    BY <1>8, <1>9

\* Frames of other types.
LEMMA UnknownAgrees ==
    ASSUME NEW h \in ReadHeader, NEW payload \in Seq(Byte), h.length = Len(payload),
           TypeOfCode(h.code) = "UNKNOWN"
    PROVE  Agree(h, payload)
  <1>1. PICK w : w = WireOutline(h, payload)
    OBVIOUS
  <1>2. /\ w.type = "UNKNOWN" /\ w.id = h.id /\ w.len = Len(payload) /\ Len(payload) \in Nat
        /\ w.pad = NoPad /\ w.prio = FALSE /\ Unpadded(w) = Len(payload)
    <2>1. TypeOfCode(h.code) \notin MayPad
      BY DEF MayPad
    <2> QED
      BY <1>1, <2>1, PlainRead
  <1>3. w.flag = FALSE
    BY <1>1 DEF WireOutline
  <1>4. Fixed(w.type, w.prio) = 0
    BY <1>2 DEF Fixed
  <1>5. Parses(w)
    <2>1. RightStream(w)
      BY <1>2 DEF RightStream, OnStream, OnConnection
    <2>2. RightLength(w)
      BY <1>2, <1>4, LengthOfFixed DEF RightLength
    <2> QED
      BY <1>2, <2>1, <2>2 DEF Parses
  <1>6. PICK frame : frame = ParseFrame(h, payload)
    OBVIOUS
  <1>7. frame = [type |-> "UNKNOWN", code |-> h.code, flags |-> h.flags, id |-> h.id, data |-> payload]
    BY <1>6 DEF ParseFrame
  <1>8. frame # Rejected
    <2>1. frame.type \in FrameTypes
      BY <1>7 DEF FrameTypes
    <2> QED
      BY <2>1, NotRejected
  <1>9. Outline(frame) = [type |-> "UNKNOWN", id |-> h.id, flag |-> FALSE, prio |-> FALSE, n |-> Len(payload)]
    BY <1>7 DEF Outline, IdOf, OnConnection
  <1>10. Parsed(w) = [type |-> "UNKNOWN", id |-> h.id, flag |-> FALSE, prio |-> FALSE, n |-> Len(payload)]
    <2>1. Unpadded(w) - Fixed(w.type, w.prio) = Len(payload)
      BY <1>2, <1>4
    <2> QED
      BY <1>2, <1>3, <2>1 DEF Parsed
  <1> QED
    BY <1>1, <1>5, <1>6, <1>8, <1>9, <1>10 DEF Agree

\* Every code is that of a type.
LEMMA TypeRead ==
    ASSUME NEW code \in Byte
    PROVE  TypeOfCode(code) \in FrameTypes
  <1>1. CASE code < 10
    <2>1. code \in {0, 1, 2, 3, 4, 5, 6, 7, 8, 9}
      BY <1>1 DEF Byte
    <2>2. KnownCode(code) /\ TypeOfCode(code) = TypeNames[code + 1]
      BY <1>1 DEF TypeOfCode, KnownCode, TypeNames
    <2>3. TypeNames[code + 1] \in OnStream \cup OnConnection \cup {"WINDOW_UPDATE"}
      BY <2>1 DEF TypeNames, OnStream, OnConnection
    <2> QED
      BY <2>2, <2>3 DEF FrameTypes
  <1>2. CASE ~(code < 10)
    BY <1>2 DEF TypeOfCode, KnownCode, TypeNames, FrameTypes
  <1> QED
    BY <1>1, <1>2

\* parse_*: on every payload, under every header, the parsers refuse and accept
\* what Frames says, and of what they accept they make what Frames says.
THEOREM ParsersAsOutlined ==
    ASSUME NEW h \in ReadHeader, NEW payload \in Seq(Byte), h.length = Len(payload)
    PROVE  Agree(h, payload)
  <1>1. h.code \in Byte
    BY DEF ReadHeader
  <1>2. TypeOfCode(h.code) \in FrameTypes
    BY <1>1, TypeRead
  <1> QED
    BY <1>2, DataAgrees, HeadersAgrees, PriorityAgrees, RstStreamAgrees, SettingsAgrees,
       PushPromiseAgrees, PingAgrees, GoAwayAgrees, WindowUpdateAgrees, ContinuationAgrees,
       UnknownAgrees DEF FrameTypes, OnStream, OnConnection

-------------------------------------------------------------------------------
(***************************************************************************)
(* Integers with a prefix: powers, the loop of decode_integer, and the groups *)
(* of a number.                                                            *)
(***************************************************************************)

\* Pow2 is what its recursion says, and never 0.
LEMMA Doubling ==
    /\ Pow2 \in [Nat -> Nat \ {0}]
    /\ Pow2[0] = 1
    /\ \A k \in Nat \ {0} : Pow2[k] = 2 * Pow2[k - 1]
  <1> DEFINE Is(g) == g = [n \in Nat |-> IF n = 0 THEN 1 ELSE 2 * g[n - 1]]
             pow == CHOOSE g : Is(g)
  <1>1. Pow2 = pow
    BY DEF Pow2
  <1>2. PICK T : T = Nat \ {0}
    OBVIOUS
  <1>3. PICK one \in T : one = 1
    BY <1>2
  <1>4. PICK step : step = [k \in Nat \ {0} |-> [x \in T |-> 2 * x]]
    OBVIOUS
  <1>5. step \in [Nat \ {0} -> [T -> T]]
    <2>1. ASSUME NEW x \in T PROVE 2 * x \in T
      BY <1>2
    <2> QED
      BY <1>4, <2>1
  <1>6. PICK f \in [Nat -> T] : f[0] = one /\ \A k \in Nat \ {0} : f[k] = step[k][f[k - 1]]
    <2>1. Unending(T, one, step)
      BY <1>5, UnendingRecursion
    <2> QED
      BY <2>1 DEF Unending
  <1>7. \A k \in Nat \ {0} : f[k] = 2 * f[k - 1]
    <2> SUFFICES ASSUME NEW k \in Nat \ {0} PROVE f[k] = 2 * f[k - 1]
      OBVIOUS
    <2>1. k - 1 \in Nat
      OBVIOUS
    <2>2. f[k - 1] \in T
      BY <1>6, <2>1
    <2> QED
      BY <1>4, <1>6, <2>2
  <1>8. Is(f)
    <2>1. \A k \in Nat : f[k] = IF k = 0 THEN 1 ELSE 2 * f[k - 1]
      BY <1>3, <1>6, <1>7
    <2> QED
      BY <1>6, <2>1
  <1>9. Is(pow)
    <2> HIDE DEF Is
    <2> QED
      BY <1>8
  <1>10. \A k \in Nat : pow[k] = f[k]
    <2> SUFFICES ASSUME NEW n \in Nat PROVE pow[n] = f[n]
      OBVIOUS
    <2> HIDE DEF pow
    <2> DEFINE P == {k \in Nat : pow[k] = f[k]}
    <2>1. 0 \in P
      BY <1>3, <1>6, <1>9
    <2>2. ASSUME NEW k \in 1 .. n, k - 1 \in P PROVE k \in P
      <3>1. k \in Nat \ {0} /\ k - 1 \in Nat
        OBVIOUS
      <3>2. pow[k] = 2 * pow[k - 1] /\ f[k] = 2 * f[k - 1]
        BY <1>7, <1>9, <3>1
      <3> QED
        BY <2>2, <3>1, <3>2
    <2>3. n \in P
      <3> HIDE DEF P
      <3>1. \A k \in 0 .. n : k \in P
        BY <2>1, <2>2, UpTo
      <3> QED
        BY <3>1
    <2> QED
      BY <2>3
  <1>11. pow = f
    <2> HIDE DEF pow
    <2>1. DOMAIN pow = Nat /\ pow = [k \in Nat |-> pow[k]]
      BY <1>9
    <2>2. f = [k \in Nat |-> f[k]]
      BY <1>6
    <2> QED
      BY <1>10, <2>1, <2>2
  <1> QED
    BY <1>1, <1>2, <1>3, <1>6, <1>7, <1>11

\* The powers grow.
LEMMA PowersGrow ==
    ASSUME NEW i \in Nat, NEW j \in Nat, i <= j
    PROVE  Pow2[i] <= Pow2[j] /\ (i < j => Pow2[i] < Pow2[j])
  <1> DEFINE P == {d \in Nat : Pow2[i] <= Pow2[i + d] /\ (d > 0 => Pow2[i] < Pow2[i + d])}
  <1>1. PICK n \in Nat : j = i + n
    <2>1. j - i \in Nat /\ j = i + (j - i)
      OBVIOUS
    <2> QED
      BY <2>1
  <1>2. 0 \in P
    <2>1. Pow2[i] \in Nat /\ i + 0 = i
      BY Doubling
    <2> QED
      BY <2>1
  <1>3. ASSUME NEW d \in 1 .. n, d - 1 \in P PROVE d \in P
    <2>1. i + d \in Nat \ {0} /\ (i + d) - 1 = i + (d - 1) /\ i + (d - 1) \in Nat
      OBVIOUS
    <2>2. Pow2[i + d] = 2 * Pow2[i + (d - 1)]
      BY <2>1, Doubling
    <2>3. Pow2[i] \in Nat \ {0} /\ Pow2[i + (d - 1)] \in Nat \ {0} /\ Pow2[i + d] \in Nat \ {0}
      BY <2>1, Doubling
    <2>4. Pow2[i] <= Pow2[i + (d - 1)]
      BY <1>3
    <2> QED
      BY <2>2, <2>3, <2>4
  <1>4. n \in P
    <2> HIDE DEF P
    <2>1. \A d \in 0 .. n : d \in P
      BY <1>2, <1>3, UpTo
    <2> QED
      BY <2>1
  <1> QED
    BY <1>1, <1>4

\* Seven bits more.
LEMMA SevenMore ==
    ASSUME NEW n \in Nat
    PROVE  Pow2[n + 7] = 128 * Pow2[n]
  <1>1. \A k \in Nat : Pow2[k + 1] = 2 * Pow2[k] /\ Pow2[k] \in Nat
    <2> SUFFICES ASSUME NEW k \in Nat PROVE Pow2[k + 1] = 2 * Pow2[k] /\ Pow2[k] \in Nat
      OBVIOUS
    <2>1. k + 1 \in Nat \ {0} /\ (k + 1) - 1 = k
      OBVIOUS
    <2> QED
      BY <2>1, Doubling
  <1>2. Pow2[n + 2] = 4 * Pow2[n] /\ Pow2[n] \in Nat
    <2>1. n + 1 \in Nat /\ (n + 1) + 1 = n + 2
      OBVIOUS
    <2>2. Pow2[n + 2] = 2 * Pow2[n + 1]
      BY <1>1, <2>1
    <2> QED
      BY <1>1, <2>2
  <1>3. Pow2[n + 4] = 16 * Pow2[n]
    <2>1. n + 2 \in Nat /\ (n + 2) + 1 = n + 3 /\ n + 3 \in Nat /\ (n + 3) + 1 = n + 4
      OBVIOUS
    <2>2. Pow2[n + 3] = 2 * Pow2[n + 2] /\ Pow2[n + 4] = 2 * Pow2[n + 3]
      BY <1>1, <2>1
    <2> QED
      BY <1>2, <2>2
  <1>4. Pow2[n + 6] = 64 * Pow2[n]
    <2>1. n + 4 \in Nat /\ (n + 4) + 1 = n + 5 /\ n + 5 \in Nat /\ (n + 5) + 1 = n + 6
      OBVIOUS
    <2>2. Pow2[n + 5] = 2 * Pow2[n + 4] /\ Pow2[n + 6] = 2 * Pow2[n + 5]
      BY <1>1, <2>1
    <2> QED
      BY <1>2, <1>3, <2>2
  <1>5. n + 6 \in Nat /\ (n + 6) + 1 = n + 7
    OBVIOUS
  <1>6. Pow2[n + 7] = 2 * Pow2[n + 6]
    BY <1>1, <1>5
  <1> QED
    BY <1>2, <1>4, <1>6

\* What decode_integer knows between two bytes.
ReadingState == [is: {"Reading", "Done", "InvalidInteger"}, value: Nat, used: Nat]

\* One byte more: the sum is exact, or it is an error.
LEMMA TakeIsExact ==
    ASSUME NEW before \in ReadingState, NEW byte \in Byte, NEW shift \in Nat
    PROVE  /\ Take(before, byte, shift) \in ReadingState
           /\ LET exact == before.value + (byte % 128) * Pow2[shift]
              IN IF shift >= WordBits \/ exact > WordMax
                 THEN Take(before, byte, shift).is = "InvalidInteger"
                 ELSE Take(before, byte, shift)
                        = [is    |-> IF byte < 128 THEN "Done" ELSE "Reading",
                           value |-> exact,
                           used  |-> before.used + 1]
  <1>1. PICK p \in Nat \ {0} : p = Pow2[shift]
    BY Doubling
  <1>2. PICK w \in Nat \ {0} : w = Pow2[WordBits] /\ WordMax = w - 1
    BY Doubling, HpackIntegerAssumption DEF WordMax
  <1>3. PICK d \in Nat : d = byte % 128
    BY DEF Byte
  <1>4. d * p \in Nat
    BY SMT
  <1>5. PICK x \in Nat : x = (d * p) % w
    BY <1>4
  <1>6. before.value \in Nat /\ before.used \in Nat
    BY DEF ReadingState
  <1>7. Take(before, byte, shift) =
           IF Overflows(d, shift) \/ before.value + x > WordMax
           THEN [before EXCEPT !.is = "InvalidInteger"]
           ELSE [is    |-> IF byte < 128 THEN "Done" ELSE "Reading",
                 value |-> before.value + x,
                 used  |-> before.used + 1]
    BY <1>1, <1>2, <1>3, <1>5 DEF Take
  <1>8. [before EXCEPT !.is = "InvalidInteger"] \in ReadingState
        /\ [before EXCEPT !.is = "InvalidInteger"].is = "InvalidInteger"
    BY DEF ReadingState
  <1>9. [is    |-> IF byte < 128 THEN "Done" ELSE "Reading",
         value |-> before.value + x,
         used  |-> before.used + 1] \in ReadingState
    BY <1>6 DEF ReadingState
  <1>10. Overflows(d, shift) <=> shift >= WordBits \/ d * p > WordMax
    <2>1. d > WordMax \div p <=> d * p > WordMax
      <3>1. WordMax \in Nat
        BY <1>2
      <3> QED
        BY <3>1, DigitFits
    <2> QED
      BY <1>1, <2>1 DEF Overflows
  <1>11. ~Overflows(d, shift) => x = d * p
    <2> SUFFICES ASSUME d * p <= WordMax PROVE x = d * p
      BY <1>2, <1>4, <1>10
    <2>1. PICK y \in Nat : y = d * p /\ y < w
      BY <1>2, <1>4
    <2>2. y % w = y
      BY <2>1, SMT
    <2> QED
      BY <1>5, <2>1, <2>2
  <1>12. PICK exact \in Nat : exact = before.value + d * p
    BY <1>4, <1>6
  <1>13. shift >= WordBits \/ exact > WordMax <=> Overflows(d, shift) \/ before.value + x > WordMax
    <2>1. CASE Overflows(d, shift)
      <3>1. CASE shift >= WordBits
        BY <3>1, <2>1
      <3>2. CASE d * p > WordMax
        BY <1>2, <1>4, <1>6, <1>12, <2>1, <3>2
      <3> QED
        BY <1>10, <2>1, <3>1, <3>2
    <2>2. CASE ~Overflows(d, shift)
      BY <1>10, <1>11, <1>12, <2>2
    <2> QED
      BY <2>1, <2>2
  <1>14. Take(before, byte, shift) \in ReadingState
    BY <1>7, <1>8, <1>9
  <1>15. CASE shift >= WordBits \/ exact > WordMax
    BY <1>1, <1>3, <1>7, <1>8, <1>12, <1>13, <1>14, <1>15
  <1>16. CASE ~(shift >= WordBits \/ exact > WordMax)
    <2>1. ~Overflows(d, shift) /\ ~(before.value + x > WordMax)
      BY <1>13, <1>16
    <2>2. before.value + x = exact
      BY <1>11, <1>12, <2>1
    <2>3. Take(before, byte, shift)
                        = [is    |-> IF byte < 128 THEN "Done" ELSE "Reading",
                           value |-> exact,
                           used  |-> before.used + 1]
      BY <1>7, <2>1, <2>2
    <2> QED
      BY <1>1, <1>3, <1>12, <1>14, <1>16, <2>3
  <1> QED
    BY <1>15, <1>16

\* A byte is a number.
LEMMA BytesAreNumbers == Byte \subseteq Nat
  BY DEF Byte

\* The sums that Meant speaks of.
LEMMA MeantSums ==
    ASSUME NEW data \in Seq(Byte), data # <<>>, NEW prefix \in Nat
    PROVE  /\ Meant(data, prefix) \in [1 .. Len(data) -> Nat]
           /\ Meant(data, prefix)[1] = data[1] % Pow2[prefix]
           /\ \A k \in 2 .. Len(data) :
                 Meant(data, prefix)[k]
                    = Meant(data, prefix)[k - 1] + (data[k] % 128) * Pow2[7 * (k - 2)]
  <1>1. PICK n \in Nat \ {0} : n = Len(data)
    BY LenProperties, EmptySeq
  <1>2. \A k \in 1 .. n : data[k] \in Byte
    BY <1>1, ElementOfSeq
  <1> DEFINE Is(g) == g = [k \in 1 .. Len(data) |->
                              IF k = 1 THEN data[1] % Pow2[prefix]
                              ELSE g[k - 1] + (data[k] % 128) * Pow2[7 * (k - 2)]]
             chosen == CHOOSE g : Is(g)
  <1>3. Meant(data, prefix) = chosen
    BY DEF Meant
  <1>4. PICK first \in Nat : first = data[1] % Pow2[prefix]
    <2>1. PICK d \in Nat : d = data[1]
      <3>1. 1 \in 1 .. n
        OBVIOUS
      <3> QED
        BY <1>2, <3>1 DEF Byte
    <2>2. PICK p \in Nat \ {0} : p = Pow2[prefix]
      BY Doubling
    <2>3. d % p \in Nat
      BY SMT
    <2> QED
      BY <2>1, <2>2, <2>3
  <1>5. PICK term : term = [k \in 2 .. n |-> (data[k] % 128) * Pow2[7 * (k - 2)]]
    OBVIOUS
  <1>6. \A k \in 2 .. n : term[k] \in Nat /\ term[k] = (data[k] % 128) * Pow2[7 * (k - 2)]
    <2> SUFFICES ASSUME NEW k \in 2 .. n PROVE (data[k] % 128) * Pow2[7 * (k - 2)] \in Nat
      BY <1>5
    <2>1. k \in 1 .. n /\ 7 * (k - 2) \in Nat
      OBVIOUS
    <2>2. PICK b \in Nat : b = data[k]
      <3>1. data[k] \in Byte
        BY <1>2, <2>1
      <3>2. data[k] \in Nat
        BY <3>1, BytesAreNumbers
      <3> QED
        BY <3>2, Zenon
    <2>3. PICK d \in Nat : d = b % 128
      OBVIOUS
    <2>4. PICK p \in Nat : p = Pow2[7 * (k - 2)]
      BY <2>1, Doubling
    <2>5. d * p \in Nat
      BY SMT
    <2> QED
      BY <2>2, <2>3, <2>4, <2>5
  <1>7. PICK step : step = [k \in 2 .. n |-> [s \in Nat |-> s + term[k]]]
    OBVIOUS
  <1>8. step \in [2 .. n -> [Nat -> Nat]]
    <2>1. ASSUME NEW k \in 2 .. n, NEW s \in Nat PROVE s + term[k] \in Nat
      <3>1. term[k] \in Nat
        BY <1>6
      <3> QED
        BY <3>1
    <2> QED
      BY <1>7, <2>1
  <1>9. PICK f \in [1 .. n -> Nat] : f[1] = first /\ \A k \in 2 .. n : f[k] = step[k][f[k - 1]]
    <2>1. Successive(Nat, n, first, step)
      BY <1>8, RecursionFromOne
    <2> QED
      BY <2>1 DEF Successive
  <1>10. \A k \in 2 .. n : f[k] = f[k - 1] + (data[k] % 128) * Pow2[7 * (k - 2)]
    <2> SUFFICES ASSUME NEW k \in 2 .. n PROVE f[k] = f[k - 1] + term[k]
      BY <1>6
    <2>1. k - 1 \in 1 .. n
      OBVIOUS
    <2>2. f[k - 1] \in Nat
      BY <1>9, <2>1
    <2> QED
      BY <1>7, <1>9, <2>2
  <1>11. Is(f)
    <2>1. \A k \in 1 .. n : f[k] = IF k = 1 THEN data[1] % Pow2[prefix]
                                    ELSE f[k - 1] + (data[k] % 128) * Pow2[7 * (k - 2)]
      BY <1>4, <1>9, <1>10
    <2>2. f = [k \in 1 .. n |-> f[k]]
      BY <1>9
    <2> QED
      BY <1>1, <2>1, <2>2
  <1>12. Is(chosen)
    <2> HIDE DEF Is
    <2> QED
      BY <1>11
  <1>13. \A k \in 1 .. n : chosen[k] = f[k]
    <2> HIDE DEF chosen
    <2> DEFINE P == {k \in 0 .. n : k > 0 => chosen[k] = f[k]}
    <2>1. 0 \in P
      OBVIOUS
    <2>2. ASSUME NEW k \in 1 .. n, k - 1 \in P PROVE k \in P
      <3>1. CASE k = 1
        BY <1>1, <1>4, <1>9, <1>12, <3>1
      <3>2. CASE k # 1
        <4>1. k \in 2 .. n /\ k - 1 > 0
          BY <3>2
        <4>2. chosen[k - 1] = f[k - 1]
          BY <2>2, <4>1
        <4>3. chosen[k] = chosen[k - 1] + (data[k] % 128) * Pow2[7 * (k - 2)]
          BY <1>1, <1>12, <3>2
        <4>4. chosen[k] = f[k]
          BY <1>10, <4>1, <4>2, <4>3
        <4> QED
          BY <4>4
      <3> QED
        BY <3>1, <3>2
    <2>3. \A k \in 0 .. n : k \in P
      <3> HIDE DEF P
      <3> QED
        BY <2>1, <2>2, UpTo
    <2> QED
      BY <2>3
  <1>14. chosen = f
    <2> HIDE DEF chosen
    <2>1. chosen = [k \in 1 .. n |-> chosen[k]]
      BY <1>1, <1>12
    <2>2. f = [k \in 1 .. n |-> f[k]]
      BY <1>9
    <2> QED
      BY <1>13, <2>1, <2>2
  <1> HIDE DEF chosen
  <1> QED
    BY <1>1, <1>3, <1>4, <1>9, <1>10, <1>14

\* The states of the loop of decode_integer.
LEMMA ReadingSteps ==
    ASSUME NEW data \in Seq(Byte), data # <<>>, NEW prefix \in Nat
    PROVE  /\ Reading(data, prefix) \in [1 .. Len(data) -> ReadingState]
           /\ Reading(data, prefix)[1]
                 = [is |-> IF data[1] % Pow2[prefix] < Full(prefix) THEN "Done" ELSE "Reading",
                    value |-> data[1] % Pow2[prefix], used |-> 1]
           /\ \A k \in 2 .. Len(data) :
                 Reading(data, prefix)[k]
                    = IF Reading(data, prefix)[k - 1].is = "Reading"
                      THEN Take(Reading(data, prefix)[k - 1], data[k], 7 * (k - 2))
                      ELSE Reading(data, prefix)[k - 1]
  <1>1. PICK n \in Nat \ {0} : n = Len(data)
    BY LenProperties, EmptySeq
  <1>2. \A k \in 1 .. n : data[k] \in Byte
    BY <1>1, ElementOfSeq
  <1> DEFINE Is(g) == g = [k \in 1 .. Len(data) |->
                              IF k = 1
                              THEN [is |-> IF data[1] % Pow2[prefix] < Full(prefix) THEN "Done" ELSE "Reading",
                                    value |-> data[1] % Pow2[prefix], used |-> 1]
                              ELSE IF g[k - 1].is = "Reading"
                                   THEN Take(g[k - 1], data[k], 7 * (k - 2)) ELSE g[k - 1]]
             chosen == CHOOSE g : Is(g)
  <1>3. Reading(data, prefix) = chosen
    BY DEF Reading
  <1>4. PICK first \in ReadingState :
           first = [is |-> IF data[1] % Pow2[prefix] < Full(prefix) THEN "Done" ELSE "Reading",
                    value |-> data[1] % Pow2[prefix], used |-> 1]
    <2>1. PICK m : m = Meant(data, prefix)
      OBVIOUS
    <2>2. m \in [1 .. n -> Nat] /\ m[1] = data[1] % Pow2[prefix]
      BY <1>1, <2>1, MeantSums
    <2>3. PICK v \in Nat : v = data[1] % Pow2[prefix]
      <3>1. 1 \in 1 .. n
        OBVIOUS
      <3> QED
        BY <2>2, <3>1
    <2>4. PICK what \in {"Done", "Reading"} :
             what = IF data[1] % Pow2[prefix] < Full(prefix) THEN "Done" ELSE "Reading"
      OBVIOUS
    <2>5. [is |-> what, value |-> v, used |-> 1] \in ReadingState
      BY DEF ReadingState
    <2> QED
      BY <2>3, <2>4, <2>5
  <1>5. PICK step : step = [k \in 2 .. n |-> [s \in ReadingState |->
                              IF s.is = "Reading" THEN Take(s, data[k], 7 * (k - 2)) ELSE s]]
    OBVIOUS
  <1>6. step \in [2 .. n -> [ReadingState -> ReadingState]]
    <2>1. ASSUME NEW k \in 2 .. n, NEW s \in ReadingState
          PROVE  Take(s, data[k], 7 * (k - 2)) \in ReadingState
      <3>1. data[k] \in Byte /\ 7 * (k - 2) \in Nat
        BY <1>2
      <3> QED
        BY <3>1, TakeIsExact
    <2> QED
      BY <1>5, <2>1
  <1>7. PICK f \in [1 .. n -> ReadingState] :
           f[1] = first /\ \A k \in 2 .. n : f[k] = step[k][f[k - 1]]
    <2>1. Successive(ReadingState, n, first, step)
      BY <1>6, RecursionFromOne
    <2> QED
      BY <2>1 DEF Successive
  <1>8. \A k \in 2 .. n : f[k] = IF f[k - 1].is = "Reading"
                                 THEN Take(f[k - 1], data[k], 7 * (k - 2)) ELSE f[k - 1]
    <2> SUFFICES ASSUME NEW k \in 2 .. n
                 PROVE  f[k] = IF f[k - 1].is = "Reading"
                               THEN Take(f[k - 1], data[k], 7 * (k - 2)) ELSE f[k - 1]
      OBVIOUS
    <2>1. k - 1 \in 1 .. n
      OBVIOUS
    <2>2. f[k - 1] \in ReadingState
      BY <1>7, <2>1
    <2> QED
      BY <1>5, <1>7, <2>2
  <1>9. Is(f)
    <2>1. \A k \in 1 .. n : f[k] = IF k = 1
                              THEN [is |-> IF data[1] % Pow2[prefix] < Full(prefix) THEN "Done" ELSE "Reading",
                                    value |-> data[1] % Pow2[prefix], used |-> 1]
                              ELSE IF f[k - 1].is = "Reading"
                                   THEN Take(f[k - 1], data[k], 7 * (k - 2)) ELSE f[k - 1]
      BY <1>4, <1>7, <1>8
    <2>2. f = [k \in 1 .. n |-> f[k]]
      BY <1>7
    <2> QED
      BY <1>1, <2>1, <2>2
  <1>10. Is(chosen)
    <2> HIDE DEF Is
    <2> QED
      BY <1>9
  <1>11. \A k \in 1 .. n : chosen[k] = f[k]
    <2> HIDE DEF chosen
    <2> DEFINE P == {k \in 0 .. n : k > 0 => chosen[k] = f[k]}
    <2>1. 0 \in P
      OBVIOUS
    <2>2. ASSUME NEW k \in 1 .. n, k - 1 \in P PROVE k \in P
      <3>1. CASE k = 1
        <4>1. chosen[1] = first
          BY <1>1, <1>4, <1>10
        <4> QED
          BY <1>7, <3>1, <4>1
      <3>2. CASE k # 1
        <4>1. k \in 2 .. n /\ k - 1 > 0
          BY <3>2
        <4>2. chosen[k - 1] = f[k - 1]
          BY <2>2, <4>1
        <4>3. chosen[k] = IF chosen[k - 1].is = "Reading"
                          THEN Take(chosen[k - 1], data[k], 7 * (k - 2)) ELSE chosen[k - 1]
          BY <1>1, <1>10, <3>2
        <4>4. chosen[k] = f[k]
          BY <1>8, <4>1, <4>2, <4>3
        <4> QED
          BY <4>4
      <3> QED
        BY <3>1, <3>2
    <2>3. \A k \in 0 .. n : k \in P
      <3> HIDE DEF P
      <3> QED
        BY <2>1, <2>2, UpTo
    <2> QED
      BY <2>3
  <1>12. chosen = f
    <2> HIDE DEF chosen
    <2>1. chosen = [k \in 1 .. n |-> chosen[k]]
      BY <1>1, <1>10
    <2>2. f = [k \in 1 .. n |-> f[k]]
      BY <1>7
    <2> QED
      BY <1>11, <2>1, <2>2
  <1>13. /\ chosen \in [1 .. n -> ReadingState]
         /\ chosen[1] = [is |-> IF data[1] % Pow2[prefix] < Full(prefix) THEN "Done" ELSE "Reading",
                         value |-> data[1] % Pow2[prefix], used |-> 1]
         /\ \A k \in 2 .. n : chosen[k] = IF chosen[k - 1].is = "Reading"
                                          THEN Take(chosen[k - 1], data[k], 7 * (k - 2))
                                          ELSE chosen[k - 1]
    <2> HIDE DEF chosen
    <2> QED
      BY <1>4, <1>7, <1>8, <1>12
  <1> HIDE DEF chosen
  <1> QED
    BY <1>1, <1>3, <1>13

\* The bytes that end an integer, and those that make it too large.
EndsOf(data) == {k \in 2 .. Len(data) : data[k] < 128}
BeyondOf(data, prefix) ==
    {k \in 2 .. Len(data) : 7 * (k - 2) >= WordBits \/ Meant(data, prefix)[k] > WordMax}

\* What the loop knows after byte k, if no byte before ended it.
KnownAt(data, prefix, k) ==
    IF \E b \in BeyondOf(data, prefix) : b <= k
    THEN Reading(data, prefix)[k].is = "InvalidInteger"
    ELSE Reading(data, prefix)[k]
            = [is |-> IF k \in EndsOf(data) THEN "Done" ELSE "Reading",
               value |-> Meant(data, prefix)[k], used |-> k]

\* Up to its first end, the loop knows the exact number or that it is too large.
LEMMA ReadsOn ==
    ASSUME NEW data \in Seq(Byte), data # <<>>, NEW prefix \in Nat,
           ~(data[1] % Pow2[prefix] < Full(prefix)),
           NEW m \in 1 .. Len(data), \A j \in EndsOf(data) : j >= m
    PROVE  \A k \in 1 .. m : KnownAt(data, prefix, k)
  <1>1. PICK n \in Nat \ {0} : n = Len(data)
    BY LenProperties, EmptySeq
  <1>2. PICK r : r = Reading(data, prefix)
    OBVIOUS
  <1>3. PICK s : s = Meant(data, prefix)
    OBVIOUS
  <1>4. /\ r \in [1 .. n -> ReadingState]
        /\ r[1] = [is |-> "Reading", value |-> data[1] % Pow2[prefix], used |-> 1]
        /\ \A k \in 2 .. n : r[k] = IF r[k - 1].is = "Reading"
                                    THEN Take(r[k - 1], data[k], 7 * (k - 2)) ELSE r[k - 1]
    BY <1>1, <1>2, ReadingSteps
  <1>5. /\ s \in [1 .. n -> Nat] /\ s[1] = data[1] % Pow2[prefix]
        /\ \A k \in 2 .. n : s[k] = s[k - 1] + (data[k] % 128) * Pow2[7 * (k - 2)]
    BY <1>1, <1>3, MeantSums
  <1>6. m \in 1 .. n
    BY <1>1
  <1> DEFINE P == {k \in 0 .. m : k > 0 => KnownAt(data, prefix, k)}
  <1>7. 0 \in P
    OBVIOUS
  <1>8. ASSUME NEW k \in 1 .. m, k - 1 \in P PROVE k \in P
    <2>1. CASE k = 1
      <3>1. ~(\E b \in BeyondOf(data, prefix) : b <= 1) /\ 1 \notin EndsOf(data)
        BY DEF BeyondOf, EndsOf
      <3>2. KnownAt(data, prefix, 1)
        BY <1>2, <1>3, <1>4, <1>5, <3>1 DEF KnownAt
      <3> QED
        BY <2>1, <3>2
    <2>2. CASE k # 1
      <3>1. k \in 2 .. n /\ k - 1 \in 1 .. n /\ k - 1 > 0 /\ k - 1 < m /\ 7 * (k - 2) \in Nat
        BY <1>6, <2>2
      <3>2. KnownAt(data, prefix, k - 1)
        BY <1>8, <3>1
      <3>3. k - 1 \notin EndsOf(data)
        BY <3>1
      <3>4. (\E b \in BeyondOf(data, prefix) : b <= k)
               <=> (\E b \in BeyondOf(data, prefix) : b <= k - 1) \/ k \in BeyondOf(data, prefix)
        <4>1. \A b \in BeyondOf(data, prefix) : b \in Nat
          BY DEF BeyondOf
        <4>2. \A b \in BeyondOf(data, prefix) : b <= k <=> b <= k - 1 \/ b = k
          BY <3>1, <4>1
        <4> QED
          BY <4>2
      <3>5. CASE \E b \in BeyondOf(data, prefix) : b <= k - 1
        <4>1. r[k - 1].is = "InvalidInteger"
          BY <1>2, <3>2, <3>5 DEF KnownAt
        <4>2. r[k] = r[k - 1]
          BY <1>4, <3>1, <4>1
        <4>3. KnownAt(data, prefix, k)
          BY <1>2, <3>4, <3>5, <4>1, <4>2 DEF KnownAt
        <4> QED
          BY <4>3
      <3>6. CASE ~(\E b \in BeyondOf(data, prefix) : b <= k - 1)
        <4>1. r[k - 1] = [is |-> "Reading", value |-> s[k - 1], used |-> k - 1]
          BY <1>2, <1>3, <3>2, <3>3, <3>6 DEF KnownAt
        <4>2. r[k] = Take(r[k - 1], data[k], 7 * (k - 2))
          BY <1>4, <3>1, <4>1
        <4>3. data[k] \in Byte
          BY <1>1, <3>1, ElementOfSeq
        <4>4. r[k - 1] \in ReadingState
          BY <1>4, <3>1
        <4>5. PICK before \in ReadingState, byte \in Byte, shift \in Nat :
                 before = r[k - 1] /\ byte = data[k] /\ shift = 7 * (k - 2)
          BY <3>1, <4>3, <4>4
        <4>6. PICK exact : exact = before.value + (byte % 128) * Pow2[shift]
          OBVIOUS
        <4>7. exact = s[k]
          BY <1>5, <3>1, <4>1, <4>5, <4>6
        <4>8. IF shift >= WordBits \/ exact > WordMax
              THEN Take(before, byte, shift).is = "InvalidInteger"
              ELSE Take(before, byte, shift)
                        = [is    |-> IF byte < 128 THEN "Done" ELSE "Reading",
                           value |-> exact,
                           used  |-> before.used + 1]
          BY <4>6, TakeIsExact
        <4>9. shift >= WordBits \/ exact > WordMax <=> k \in BeyondOf(data, prefix)
          BY <1>1, <1>3, <3>1, <4>5, <4>7 DEF BeyondOf
        <4>10. byte < 128 <=> k \in EndsOf(data)
          BY <1>1, <3>1, <4>5 DEF EndsOf
        <4>11. before.used + 1 = k
          BY <3>1, <4>1, <4>5
        <4>12. KnownAt(data, prefix, k)
          BY <1>2, <1>3, <3>4, <3>6, <4>2, <4>5, <4>7, <4>8, <4>9, <4>10, <4>11 DEF KnownAt
        <4> QED
          BY <4>12
      <3> QED
        BY <3>5, <3>6
    <2> QED
      BY <2>1, <2>2
  <1>9. \A k \in 0 .. m : k \in P
    <2> HIDE DEF P
    <2>1. m \in Nat
      BY <1>6
    <2>2. \A k \in 1 .. m : k - 1 \in P => k \in P
      BY <1>8
    <2> QED
      BY <1>7, <2>1, <2>2, UpTo
  <1> QED
    BY <1>9

\* What is no longer read stays as it is.
LEMMA StaysRead ==
    ASSUME NEW data \in Seq(Byte), data # <<>>, NEW prefix \in Nat,
           NEW m \in 1 .. Len(data), Reading(data, prefix)[m].is # "Reading"
    PROVE  Reading(data, prefix)[Len(data)] = Reading(data, prefix)[m]
  <1>1. PICK n \in Nat \ {0} : n = Len(data)
    BY LenProperties, EmptySeq
  <1>2. PICK r : r = Reading(data, prefix)
    OBVIOUS
  <1>3. \A k \in 2 .. n : r[k] = IF r[k - 1].is = "Reading"
                                 THEN Take(r[k - 1], data[k], 7 * (k - 2)) ELSE r[k - 1]
    BY <1>1, <1>2, ReadingSteps
  <1>4. PICK d \in Nat : n = m + d
    <2>1. n - m \in Nat /\ n = m + (n - m)
      BY <1>1
    <2> QED
      BY <2>1
  <1> DEFINE P == {k \in 0 .. d : r[m + k] = r[m]}
  <1>5. 0 \in P
    <2>1. m + 0 = m
      OBVIOUS
    <2> QED
      BY <2>1
  <1>6. ASSUME NEW k \in 1 .. d, k - 1 \in P PROVE k \in P
    <2>1. m + k \in 2 .. n /\ (m + k) - 1 = m + (k - 1)
      BY <1>1, <1>4
    <2>2. r[m + (k - 1)] = r[m]
      BY <1>6
    <2>3. r[m + k] = r[m]
      BY <1>2, <1>3, <2>1, <2>2
    <2> QED
      BY <2>3
  <1>7. d \in P
    <2> HIDE DEF P
    <2>1. \A k \in 0 .. d : k \in P
      BY <1>5, <1>6, UpTo
    <2> QED
      BY <2>1
  <1> QED
    BY <1>1, <1>2, <1>4, <1>7

\* The loop may as well go on to the last byte.
LEMMA ReadToTheEnd ==
    ASSUME NEW data \in Seq(Byte), data # <<>>, NEW prefix \in Nat
    PROVE  DecodeInteger(data, prefix)
              = IF Reading(data, prefix)[Len(data)].is = "Reading"
                THEN [is |-> "Incomplete", value |-> 0, used |-> 0]
                ELSE Reading(data, prefix)[Len(data)]
  <1>1. PICK n \in Nat \ {0} : n = Len(data)
    BY LenProperties, EmptySeq
  <1>2. PICK r : r = Reading(data, prefix)
    OBVIOUS
  <1>3. PICK ends : ends = {k \in 2 .. Len(data) : data[k] < 128}
    OBVIOUS
  <1>4. PICK at : at = IF ends = {} THEN Len(data) ELSE CHOOSE k \in ends : \A j \in ends : k <= j
    OBVIOUS
  <1>5. r[n] = r[at]
    <2>1. CASE ends = {}
      BY <1>1, <1>4, <2>1
    <2>2. CASE ends # {}
      <3>1. ends \in SUBSET Nat
        BY <1>3
      <3>2. \E k \in ends : \A j \in ends : k <= j
        BY <2>2, <3>1, LeastNumber
      <3>3. at \in ends
        BY <1>4, <2>2, <3>2
      <3>4. at \in 2 .. n /\ at \in 1 .. n /\ at - 1 \in 1 .. n /\ data[at] < 128
        BY <1>1, <1>3, <3>3
      <3>5. data[at] \in Byte /\ 7 * (at - 2) \in Nat
        BY <1>1, <3>4, ElementOfSeq
      <3>6. PICK before \in ReadingState : before = r[at - 1]
        BY <1>1, <1>2, <3>4, ReadingSteps
      <3>7. r[at] = IF before.is = "Reading" THEN Take(before, data[at], 7 * (at - 2)) ELSE before
        BY <1>1, <1>2, <3>4, <3>6, ReadingSteps
      <3>8. Take(before, data[at], 7 * (at - 2)).is # "Reading"
        <4>1. PICK byte \in Byte, shift \in Nat : byte = data[at] /\ shift = 7 * (at - 2)
          BY <3>5
        <4>2. byte < 128
          BY <3>4, <4>1
        <4>3. \/ Take(before, byte, shift).is = "InvalidInteger"
              \/ \E exact : Take(before, byte, shift)
                               = [is |-> "Done", value |-> exact, used |-> before.used + 1]
          BY <4>2, TakeIsExact
        <4>4. PICK taken : taken = Take(before, byte, shift)
          OBVIOUS
        <4>5. taken.is = "InvalidInteger" \/ taken.is = "Done"
          BY <4>3, <4>4
        <4> QED
          BY <4>1, <4>4, <4>5
      <3>9. r[at].is # "Reading"
        BY <3>7, <3>8
      <3> QED
        BY <1>1, <1>2, <3>4, <3>9, StaysRead
    <2> QED
      BY <2>1, <2>2
  <1> QED
    BY <1>1, <1>2, <1>3, <1>4, <1>5, Zenon DEF DecodeInteger

\* decode_integer gives the number and its length, refuses exactly the numbers
\* that need more than a word, and asks for more exactly when the end is missing.
THEOREM IntegerExact ==
    ASSUME NEW data \in Seq(Byte), NEW prefix \in Nat
    PROVE  /\ DecodeInteger(data, prefix).is = Meaning(data, prefix).is
           /\ Meaning(data, prefix).is = "Done" => DecodeInteger(data, prefix) = Meaning(data, prefix)
  <1>1. PICK d : d = DecodeInteger(data, prefix)
    OBVIOUS
  <1>2. PICK mean : mean = Meaning(data, prefix)
    OBVIOUS
  <1>3. PICK r, s : r = Reading(data, prefix) /\ s = Meant(data, prefix)
    OBVIOUS
  <1>4. CASE data = <<>>
    <2>1. d = [is |-> "Incomplete", value |-> 0, used |-> 0]
      BY <1>1, <1>4 DEF DecodeInteger
    <2>2. mean = [is |-> "Incomplete", value |-> 0, used |-> 0]
      BY <1>2, <1>4 DEF Meaning
    <2> QED
      BY <1>1, <1>2, <2>1, <2>2
  <1>5. CASE data # <<>>
    <2>1. PICK n \in Nat \ {0} : n = Len(data)
      BY <1>5, LenProperties, EmptySeq
    <2>2. 1 \in 1 .. n /\ n \in 1 .. n
      OBVIOUS
    <2>3. d = IF r[n].is = "Reading" THEN [is |-> "Incomplete", value |-> 0, used |-> 0] ELSE r[n]
      BY <1>1, <1>3, <1>5, <2>1, ReadToTheEnd
    <2>4. CASE data[1] % Pow2[prefix] < Full(prefix)
      <3>1. r[1] = [is |-> "Done", value |-> data[1] % Pow2[prefix], used |-> 1]
        BY <1>3, <1>5, <2>4, ReadingSteps
      <3>2. r[n] = r[1]
        BY <1>3, <1>5, <2>1, <2>2, <3>1, StaysRead
      <3>3. mean = [is |-> "Done", value |-> s[1], used |-> 1]
        BY <1>2, <1>3, <1>5, <2>4 DEF Meaning
      <3>4. s[1] = data[1] % Pow2[prefix]
        BY <1>3, <1>5, MeantSums
      <3> QED
        BY <1>1, <1>2, <2>3, <3>1, <3>2, <3>3, <3>4
    <2>5. CASE ~(data[1] % Pow2[prefix] < Full(prefix))
      <3>1. PICK ends, beyond : ends = EndsOf(data) /\ beyond = BeyondOf(data, prefix)
        OBVIOUS
      <3>2. ends \subseteq 2 .. n /\ beyond \subseteq 2 .. n
        BY <2>1, <3>1 DEF EndsOf, BeyondOf
      <3>3. mean = IF \E k \in beyond : \A j \in ends : k <= j
                   THEN [is |-> "InvalidInteger", value |-> 0, used |-> 0]
                   ELSE IF ends = {} THEN [is |-> "Incomplete", value |-> 0, used |-> 0]
                   ELSE [is |-> "Done", value |-> s[Least(ends)], used |-> Least(ends)]
        BY <1>2, <1>3, <1>5, <2>5, <3>1 DEF Meaning, EndsOf, BeyondOf
      <3>4. CASE ends = {}
        <4>1. KnownAt(data, prefix, n)
          BY <1>5, <2>1, <2>2, <2>5, <3>1, <3>4, ReadsOn
        <4>2. (\E b \in beyond : b <= n) <=> \E k \in beyond : \A j \in ends : k <= j
          BY <3>2, <3>4
        <4>3. CASE \E b \in beyond : b <= n
          <5>1. r[n].is = "InvalidInteger"
            BY <1>3, <3>1, <4>1, <4>3 DEF KnownAt
          <5> QED
            BY <1>1, <1>2, <2>3, <3>3, <4>2, <4>3, <5>1
        <4>4. CASE ~(\E b \in beyond : b <= n)
          <5>1. r[n].is = "Reading"
            BY <1>3, <3>1, <3>4, <4>1, <4>4 DEF KnownAt
          <5> QED
            BY <1>1, <1>2, <2>3, <3>3, <3>4, <4>2, <4>4, <5>1
        <4> QED
          BY <4>3, <4>4
      <3>5. CASE ends # {}
        <4>1. PICK m \in ends : \A j \in ends : m <= j
          <5>1. ends \in SUBSET Nat
            BY <3>2
          <5> QED
            BY <3>5, <5>1, LeastNumber
        <4>2. m \in 1 .. n /\ m \in 2 .. n
          BY <3>2
        <4>3. Least(ends) = m
          <5>1. \A k \in ends : (\A j \in ends : k <= j) => k = m
            <6>1. \A k \in ends : k \in Nat
              BY <3>2
            <6> QED
              BY <4>1, <6>1
          <5> QED
            BY <4>1, <5>1 DEF Least
        <4>4. \A j \in ends : j >= m
          <5>1. \A j \in ends : j \in Nat /\ m <= j
            BY <3>2, <4>1
          <5> QED
            BY <4>2, <5>1
        <4>5. KnownAt(data, prefix, m)
          BY <1>5, <2>1, <2>5, <3>1, <4>2, <4>4, ReadsOn
        <4>6. (\E b \in beyond : b <= m) <=> \E k \in beyond : \A j \in ends : k <= j
          <5>1. \A b \in beyond, j \in ends : b \in Nat /\ j \in Nat /\ m <= j
            BY <3>2, <4>1
          <5>2. \A b \in beyond : b <= m => \A j \in ends : b <= j
            BY <4>2, <5>1
          <5> QED
            BY <4>1, <5>2
        <4>7. CASE \E b \in beyond : b <= m
          <5>1. r[m].is = "InvalidInteger"
            BY <1>3, <3>1, <4>5, <4>7 DEF KnownAt
          <5>2. r[n] = r[m]
            BY <1>3, <1>5, <2>1, <4>2, <5>1, StaysRead
          <5> QED
            BY <1>1, <1>2, <2>3, <3>3, <4>6, <4>7, <5>1, <5>2
        <4>8. CASE ~(\E b \in beyond : b <= m)
          <5>1. r[m] = [is |-> "Done", value |-> s[m], used |-> m]
            BY <1>3, <3>1, <4>1, <4>5, <4>8 DEF KnownAt
          <5>2. r[n] = r[m]
            BY <1>3, <1>5, <2>1, <4>2, <5>1, StaysRead
          <5> QED
            BY <1>1, <1>2, <2>3, <3>3, <3>5, <4>3, <4>6, <4>8, <5>1, <5>2
        <4> QED
          BY <4>7, <4>8
      <3> QED
        BY <3>4, <3>5
    <2> QED
      BY <2>4, <2>5
  <1> QED
    BY <1>4, <1>5

\* One group of seven bits, and the groups behind it.
LEMMA OneGroup ==
    ASSUME NEW k \in Nat
    PROVE  /\ k < 128 => <<k>> \in Seq(Byte)
           /\ \A s \in Seq(Byte) :
                 /\ <<128 + (k % 128)>> \o s \in Seq(Byte)
                 /\ Len(<<128 + (k % 128)>> \o s) = Len(s) + 1 /\ Len(s) \in Nat
                 /\ (<<128 + (k % 128)>> \o s)[1] = 128 + (k % 128)
                 /\ \A i \in 1 .. Len(s) : (<<128 + (k % 128)>> \o s)[i + 1] = s[i]
  <1>1. ASSUME k < 128 PROVE <<k>> \in Seq(Byte)
    <2>1. k \in Byte
      BY <1>1 DEF Byte
    <2> QED
      BY <2>1
  <1>2. PICK x \in Byte : x = 128 + (k % 128)
    <2>1. PICK y \in Nat : y = k % 128 /\ y < 128
      BY SMT
    <2>2. 128 + y \in Byte
      BY <2>1 DEF Byte
    <2> QED
      BY <2>1, <2>2
  <1>3. ASSUME NEW s \in Seq(Byte)
        PROVE  /\ <<x>> \o s \in Seq(Byte)
               /\ Len(<<x>> \o s) = Len(s) + 1 /\ Len(s) \in Nat
               /\ (<<x>> \o s)[1] = x
               /\ \A i \in 1 .. Len(s) : (<<x>> \o s)[i + 1] = s[i]
    BY OneInFront
  <1> QED
    BY <1>1, <1>2, <1>3

\* Groups is what its recursion says.
LEMMA GroupsSteps ==
    /\ Groups \in [Nat -> Seq(Byte)]
    /\ \A n \in Nat : Groups[n] = IF n < 128 THEN <<n>>
                                  ELSE <<128 + (n % 128)>> \o Groups[n \div 128]
  <1> DEFINE Is(g) == g = [n \in Nat |-> IF n < 128 THEN <<n>>
                                         ELSE <<128 + (n % 128)>> \o g[n \div 128]]
             chosen == CHOOSE g : Is(g)
  <1>1. Groups = chosen
    BY DEF Groups
  <1>2. PICK B : B = Seq(Byte)
    OBVIOUS
  <1>3. PICK T : T = Seq(B)
    OBVIOUS
  \* The table of the first values grows by one value.
  <1> DEFINE Row(k, t) == IF k < 128 THEN <<k>> ELSE <<128 + (k % 128)>> \o t[(k \div 128) + 1]
  <1>4. PICK step : step = [k \in Nat \ {0} |-> [t \in T |->
                              IF k < 128 \/ (k \div 128) + 1 \in 1 .. Len(t)
                              THEN Append(t, Row(k, t)) ELSE t]]
    OBVIOUS
  <1>5. ASSUME NEW k \in Nat, NEW t \in T, k < 128 \/ (k \div 128) + 1 \in 1 .. Len(t)
        PROVE  Row(k, t) \in B
    <2>1. CASE k < 128
      BY <1>2, <2>1, OneGroup
    <2>2. CASE ~(k < 128)
      <3>1. t[(k \div 128) + 1] \in B
        BY <1>3, <1>5, <2>2, ElementOfSeq
      <3> QED
        BY <1>2, <2>2, <3>1, OneGroup
    <2> QED
      BY <2>1, <2>2
  <1>6. ASSUME NEW t \in T, NEW x \in B
        PROVE  /\ Append(t, x) \in T /\ Len(Append(t, x)) = Len(t) + 1 /\ Len(t) \in Nat
               /\ \A i \in 1 .. Len(t) : Append(t, x)[i] = t[i]
               /\ Append(t, x)[Len(t) + 1] = x
    BY <1>3, AppendProperties, LenProperties
  <1>7. step \in [Nat \ {0} -> [T -> T]]
    <2>1. ASSUME NEW k \in Nat \ {0}, NEW t \in T
          PROVE  (IF k < 128 \/ (k \div 128) + 1 \in 1 .. Len(t)
                  THEN Append(t, Row(k, t)) ELSE t) \in T
      <3> HIDE DEF Row
      <3> QED
        BY <1>5, <1>6
    <2> HIDE DEF Row
    <2> QED
      BY <1>4, <2>1
  <1>8. PICK start \in T : start = <<Row(0, <<>>)>>
    <2>1. <<0>> \in B
      <3>1. 0 \in Nat /\ 0 < 128
        OBVIOUS
      <3> QED
        BY <1>2, <3>1, OneGroup
    <2>2. <<<<0>>>> \in T
      BY <1>3, <2>1
    <2> QED
      BY <2>2
  <1>9. PICK h \in [Nat -> T] : h[0] = start /\ \A k \in Nat \ {0} : h[k] = step[k][h[k - 1]]
    <2>1. Unending(T, start, step)
      BY <1>7, UnendingRecursion
    <2> QED
      BY <2>1 DEF Unending
  <1>10. \A k \in Nat : Len(h[k]) = k + 1
    <2> SUFFICES ASSUME NEW n \in Nat PROVE Len(h[n]) = n + 1
      OBVIOUS
    <2> HIDE DEF Row
    <2> DEFINE P == {k \in 0 .. n : Len(h[k]) = k + 1}
    <2>1. 0 \in P
      BY <1>8, <1>9
    <2>2. ASSUME NEW k \in 1 .. n, k - 1 \in P PROVE k \in P
      <3>1. k \in Nat \ {0} /\ k - 1 \in Nat /\ Len(h[k - 1]) = k
        BY <2>2
      <3>2. (k \div 128) + 1 \in 1 .. k
        BY <3>1, SevenLess
      <3>3. h[k - 1] \in T /\ h[k] = step[k][h[k - 1]]
        BY <1>9, <3>1
      <3>4. h[k] = Append(h[k - 1], Row(k, h[k - 1]))
        BY <1>4, <3>1, <3>2, <3>3
      <3>5. Row(k, h[k - 1]) \in B
        BY <1>5, <3>1, <3>2, <3>3
      <3>6. Len(h[k]) = k + 1
        BY <1>6, <3>1, <3>3, <3>4, <3>5
      <3> QED
        BY <3>6
    <2>3. \A k \in 0 .. n : k \in P
      <3> HIDE DEF P
      <3> QED
        BY <2>1, <2>2, UpTo
    <2> QED
      BY <2>3
  <1>11. ASSUME NEW k \in Nat \ {0}
         PROVE  /\ \A i \in 1 .. k : h[k][i] = h[k - 1][i]
                /\ h[k][k + 1] = Row(k, h[k - 1])
    <2> HIDE DEF Row
    <2>1. k - 1 \in Nat
      OBVIOUS
    <2>2. Len(h[k - 1]) = k
      BY <1>10, <2>1
    <2>3. (k \div 128) + 1 \in 1 .. k
      BY SevenLess
    <2>4. h[k - 1] \in T /\ h[k] = step[k][h[k - 1]]
      BY <1>9, <2>1
    <2>5. h[k] = Append(h[k - 1], Row(k, h[k - 1]))
      BY <1>4, <2>2, <2>3, <2>4
    <2>6. PICK row \in B : row = Row(k, h[k - 1])
      BY <1>5, <2>2, <2>3, <2>4
    <2>7. PICK t \in T : t = h[k - 1]
      BY <2>4
    <2>8. /\ \A i \in 1 .. Len(t) : Append(t, row)[i] = t[i]
          /\ Append(t, row)[Len(t) + 1] = row
      BY <1>6
    <2>9. h[k] = Append(t, row) /\ Len(t) = k
      BY <2>2, <2>5, <2>6, <2>7
    <2> QED
      BY <2>6, <2>7, <2>8, <2>9
  <1>12. ASSUME NEW i \in Nat, NEW d \in Nat PROVE h[i + d][i + 1] = h[i][i + 1]
    <2> DEFINE P == {k \in 0 .. d : h[i + k][i + 1] = h[i][i + 1]}
    <2>1. 0 \in P
      <3>1. i + 0 = i
        OBVIOUS
      <3> QED
        BY <3>1
    <2>2. ASSUME NEW k \in 1 .. d, k - 1 \in P PROVE k \in P
      <3>1. i + k \in Nat \ {0} /\ (i + k) - 1 = i + (k - 1) /\ i + 1 \in 1 .. i + k
        OBVIOUS
      <3>2. h[i + k][i + 1] = h[i + (k - 1)][i + 1]
        BY <1>11, <3>1
      <3> QED
        BY <2>2, <3>2
    <2>3. \A k \in 0 .. d : k \in P
      <3> HIDE DEF P
      <3> QED
        BY <2>1, <2>2, UpTo
    <2> QED
      BY <2>3
  <1>13. PICK g : g = [n \in Nat |-> h[n][n + 1]]
    OBVIOUS
  <1>14. ASSUME NEW n \in Nat
         PROVE  /\ g[n] \in B
                /\ g[n] = IF n < 128 THEN <<n>> ELSE <<128 + (n % 128)>> \o g[n \div 128]
    <2>1. g[n] \in B
      <3>1. h[n] \in T /\ n + 1 \in 1 .. Len(h[n])
        BY <1>9, <1>10
      <3>2. h[n][n + 1] \in B
        BY <1>3, <3>1, ElementOfSeq
      <3> QED
        BY <1>13, <3>2
    <2>2. CASE n = 0
      <3>1. h[0][1] = Row(0, <<>>)
        BY <1>8, <1>9
      <3>2. Row(0, <<>>) = <<0>>
        OBVIOUS
      <3>3. g[0] = <<0>>
        BY <1>13, <3>1, <3>2
      <3> QED
        BY <2>1, <2>2, <3>3
    <2>3. CASE n # 0
      <3>1. g[n] = Row(n, h[n - 1])
        BY <1>11, <1>13, <2>3
      <3>2. CASE n < 128
        BY <2>1, <3>1, <3>2
      <3>3. CASE ~(n < 128)
        <4>1. PICK q \in Nat : q = n \div 128 /\ q < n
          BY <2>3, SevenLess
        <4>2. (n - 1) - q \in Nat /\ q + ((n - 1) - q) = n - 1
          BY <4>1
        <4>3. h[n - 1][q + 1] = h[q][q + 1]
          BY <1>12, <4>2
        <4>4. g[q] = h[q][q + 1]
          BY <1>13
        <4>5. Row(n, h[n - 1]) = <<128 + (n % 128)>> \o h[n - 1][q + 1]
          BY <3>3, <4>1
        <4> QED
          BY <2>1, <3>1, <3>3, <4>1, <4>3, <4>4, <4>5
      <3> QED
        BY <3>2, <3>3
    <2> QED
      BY <2>2, <2>3
  <1>15. Is(g)
    <2>1. g = [n \in Nat |-> g[n]]
      BY <1>13
    <2> QED
      BY <1>14, <2>1
  <1>16. Is(chosen)
    <2> HIDE DEF Is
    <2> QED
      BY <1>15
  <1>17. \A n \in Nat : chosen[n] = g[n]
    <2> HIDE DEF chosen
    <2> DEFINE T2 == {n \in Nat : chosen[n] # g[n]}
    <2> SUFFICES ASSUME T2 # {} PROVE FALSE
      OBVIOUS
    <2>1. PICK n \in T2 : \A k \in T2 : n <= k
      <3> HIDE DEF T2
      <3>1. T2 \in SUBSET Nat
        BY DEF T2
      <3> QED
        BY <3>1, LeastNumber
    <2>2. n \in Nat /\ chosen[n] # g[n]
      OBVIOUS
    <2>3. chosen[n] = IF n < 128 THEN <<n>> ELSE <<128 + (n % 128)>> \o chosen[n \div 128]
      BY <1>16, <2>2
    <2>4. CASE n < 128
      <3>1. g[n] = <<n>>
        BY <1>14, <2>2, <2>4
      <3>2. chosen[n] = <<n>>
        BY <2>3, <2>4
      <3> QED
        BY <2>2, <3>1, <3>2, Zenon
    <2>5. CASE ~(n < 128)
      <3>1. PICK q \in Nat : q = n \div 128 /\ q < n
        BY <2>2, <2>5, SevenLess
      <3>2. q \notin T2
        BY <2>1, <2>2, <3>1
      <3>3. chosen[q] = g[q]
        BY <3>2
      <3> QED
        BY <1>14, <2>2, <2>3, <2>5, <3>1, <3>3
    <2> QED
      BY <2>4, <2>5
  <1>18. chosen = g
    <2> HIDE DEF chosen
    <2>1. chosen = [n \in Nat |-> chosen[n]]
      BY <1>16
    <2>2. g = [n \in Nat |-> g[n]]
      BY <1>13
    <2> QED
      BY <1>17, <2>1, <2>2
  <1>19. g \in [Nat -> B]
    <2>1. g = [n \in Nat |-> g[n]]
      BY <1>13
    <2> QED
      BY <1>14, <2>1
  <1> HIDE DEF chosen
  <1> QED
    BY <1>1, <1>2, <1>14, <1>18, <1>19

\* Groups that stand for a number: every one but the last says that another
\* follows, and the partial sums, of which none is larger, add up to it.  The
\* last group is not in vain.
AddUp(g, n) ==
    /\ g \in Seq(Byte)
    /\ Len(g) \in Nat \ {0}
    /\ \A i \in 1 .. Len(g) : g[i] < 128 <=> i = Len(g)
    /\ n = 0 => Len(g) = 1
    /\ n > 0 => n >= Pow2[7 * (Len(g) - 1)]
    /\ \E s \in [0 .. Len(g) -> 0 .. n] :
          /\ s[0] = 0
          /\ s[Len(g)] = n
          /\ \A i \in 1 .. Len(g) : s[i] = s[i - 1] + (g[i] % 128) * Pow2[7 * (i - 1)]

\* A number of seven bits.
LEMMA LastGroup ==
    ASSUME NEW n \in Nat, n < 128
    PROVE  AddUp(<<n>>, n)
  <1>1. PICK g \in Seq(Byte) : g = <<n>>
    BY OneGroup
  <1>2. Len(g) = 1 /\ g[1] = n
    BY <1>1
  <1>3. Pow2[7 * (1 - 1)] = 1
    BY Doubling
  <1>4. PICK s : s = [i \in 0 .. 1 |-> IF i = 0 THEN 0 ELSE n]
    OBVIOUS
  <1>5. s \in [0 .. 1 -> 0 .. n] /\ s[0] = 0 /\ s[1] = n
    BY <1>4
  <1>6. s[1] = s[1 - 1] + (g[1] % 128) * Pow2[7 * (1 - 1)]
    BY <1>2, <1>3, <1>5
  <1>7. \A i \in 1 .. 1 : s[i] = s[i - 1] + (g[i] % 128) * Pow2[7 * (i - 1)]
    <2>1. \A i \in 1 .. 1 : i = 1
      OBVIOUS
    <2> QED
      BY <1>6, <2>1, Zenon
  <1>8. AddUp(g, n)
    BY <1>1, <1>2, <1>3, <1>5, <1>7 DEF AddUp
  <1> QED
    BY <1>1, <1>8

\* A group in front of the groups of a number.
LEMMA GroupInFront ==
    ASSUME NEW q \in Nat \ {0}, NEW r \in 0 .. 127, NEW h, AddUp(h, q)
    PROVE  AddUp(<<128 + r>> \o h, 128 * q + r)
  <1>1. PICK L \in Nat \ {0} : L = Len(h)
    BY DEF AddUp
  <1>2. PICK n \in Nat \ {0} : n = 128 * q + r
    OBVIOUS
  <1>3. PICK byte \in Byte : byte = 128 + r
    BY DEF Byte
  <1>4. PICK g : g = <<byte>> \o h
    OBVIOUS
  <1>5. /\ g \in Seq(Byte) /\ Len(g) = L + 1 /\ g[1] = byte
        /\ \A i \in 1 .. L : g[i + 1] = h[i]
    BY <1>1, <1>4, OneInFront DEF AddUp
  <1>6. PICK t \in [0 .. L -> 0 .. q] :
          /\ t[0] = 0
          /\ t[L] = q
          /\ \A i \in 1 .. L : t[i] = t[i - 1] + (h[i] % 128) * Pow2[7 * (i - 1)]
    BY <1>1 DEF AddUp
  <1>7. PICK s : s = [i \in 0 .. L + 1 |-> IF i = 0 THEN 0 ELSE r + 128 * t[i - 1]]
    OBVIOUS
  <1>8. s \in [0 .. L + 1 -> 0 .. n]
    <2>1. ASSUME NEW i \in 1 .. L + 1 PROVE r + 128 * t[i - 1] \in 0 .. n
      <3>1. t[i - 1] \in 0 .. q
        BY <1>6
      <3> QED
        BY <1>2, <3>1
    <2> QED
      BY <1>2, <1>7, <2>1
  <1>9. s[0] = 0 /\ s[L + 1] = n
    <2>1. (L + 1) - 1 = L /\ L + 1 # 0 /\ L + 1 \in 0 .. L + 1 /\ 0 \in 0 .. L + 1
      OBVIOUS
    <2> QED
      BY <1>2, <1>6, <1>7, <2>1
  <1>10. ASSUME NEW i \in 1 .. L + 1
         PROVE  s[i] = s[i - 1] + (g[i] % 128) * Pow2[7 * (i - 1)]
    <2>1. CASE i = 1
      <3>1. s[1] = r + 128 * t[0] /\ s[0] = 0
        BY <1>7, <1>9
      <3>2. g[1] % 128 = r /\ Pow2[7 * (1 - 1)] = 1
        <4>1. byte % 128 = r
          BY <1>3, SMT
        <4>2. 7 * (1 - 1) = 0
          OBVIOUS
        <4> QED
          BY <1>5, <4>1, <4>2, Doubling
      <3> QED
        BY <1>6, <2>1, <3>1, <3>2
    <2>2. CASE i # 1
      <3>1. i - 1 \in 1 .. L /\ i - 2 \in 0 .. L /\ (i - 1) - 1 = i - 2 /\ i - 1 \in 0 .. L + 1
            /\ (i - 1) + 1 = i /\ 7 * (i - 2) \in Nat /\ 7 * (i - 2) + 7 = 7 * (i - 1)
        BY <2>2
      <3>2. g[i] = h[i - 1]
        BY <1>5, <3>1
      <3>3. t[i - 1] = t[i - 2] + (h[i - 1] % 128) * Pow2[7 * (i - 2)]
        BY <1>6, <3>1
      <3>4. Pow2[7 * (i - 1)] = 128 * Pow2[7 * (i - 2)]
        BY <3>1, SevenMore
      <3>5. PICK p \in Nat : p = Pow2[7 * (i - 2)]
        BY <3>1, Doubling
      <3>6. PICK d \in Nat : d = h[i - 1] % 128
        <4>1. h[i - 1] \in Byte
          BY <1>1, <3>1, ElementOfSeq DEF AddUp
        <4>2. h[i - 1] \in Nat
          BY <4>1, BytesAreNumbers
        <4> QED
          BY <4>2, SMT
      <3>7. PICK a \in Nat, b \in Nat : a = t[i - 2] /\ b = t[i - 1]
        BY <1>6, <3>1
      <3>8. s[i] = r + 128 * b /\ s[i - 1] = r + 128 * a
        BY <1>7, <2>2, <3>1, <3>7
      <3>9. r + 128 * (a + d * p) = (r + 128 * a) + d * (128 * p)
        BY SMT
      <3> QED
        BY <3>2, <3>3, <3>4, <3>5, <3>6, <3>7, <3>8, <3>9
    <2> QED
      BY <2>1, <2>2
  <1>11. \A i \in 1 .. L + 1 : g[i] < 128 <=> i = L + 1
    <2> SUFFICES ASSUME NEW i \in 1 .. L + 1 PROVE g[i] < 128 <=> i = L + 1
      OBVIOUS
    <2>1. CASE i = 1
      BY <1>3, <1>5, <2>1
    <2>2. CASE i # 1
      <3>1. i - 1 \in 1 .. L /\ (i - 1) + 1 = i
        BY <2>2
      <3>2. h[i - 1] < 128 <=> i - 1 = L
        BY <1>1, <3>1 DEF AddUp
      <3> QED
        BY <1>5, <3>1, <3>2
    <2> QED
      BY <2>1, <2>2
  <1>12. n >= Pow2[7 * ((L + 1) - 1)]
    <2>1. 7 * (L - 1) \in Nat /\ 7 * ((L + 1) - 1) = 7 * (L - 1) + 7
      OBVIOUS
    <2>2. PICK p \in Nat : p = Pow2[7 * (L - 1)]
      BY <2>1, Doubling
    <2>3. q >= p
      BY <1>1, <2>2 DEF AddUp
    <2>4. Pow2[7 * ((L + 1) - 1)] = 128 * p
      BY <2>1, <2>2, SevenMore
    <2> QED
      BY <1>2, <2>3, <2>4
  <1>13. /\ Len(g) \in Nat \ {0}
         /\ n = 0 => Len(g) = 1
         /\ n > 0 => n >= Pow2[7 * (Len(g) - 1)]
         /\ \A i \in 1 .. Len(g) : g[i] < 128 <=> i = Len(g)
    BY <1>5, <1>11, <1>12
  <1>14. /\ s \in [0 .. Len(g) -> 0 .. n] /\ s[0] = 0 /\ s[Len(g)] = n
         /\ \A i \in 1 .. Len(g) : s[i] = s[i - 1] + (g[i] % 128) * Pow2[7 * (i - 1)]
    BY <1>5, <1>8, <1>9, <1>10
  <1>15. AddUp(g, n)
    BY <1>5, <1>13, <1>14, Zenon DEF AddUp
  <1> QED
    BY <1>2, <1>3, <1>4, <1>15

\* The groups of a number stand for it.
LEMMA GroupsAddUp == \A n \in Nat : AddUp(Groups[n], n)
  <1> DEFINE T == {n \in Nat : ~AddUp(Groups[n], n)}
  <1> SUFFICES ASSUME T # {} PROVE FALSE
    OBVIOUS
  <1>1. PICK n \in T : \A k \in T : n <= k
    <2> HIDE DEF T
    <2>1. T \in SUBSET Nat
      BY DEF T
    <2> QED
      BY <2>1, LeastNumber
  <1>2. n \in Nat /\ ~AddUp(Groups[n], n)
    OBVIOUS
  <1>3. Groups[n] = IF n < 128 THEN <<n>> ELSE <<128 + (n % 128)>> \o Groups[n \div 128]
    BY <1>2, GroupsSteps
  <1>4. CASE n < 128
    BY <1>2, <1>3, <1>4, LastGroup
  <1>5. CASE ~(n < 128)
    <2>1. PICK q \in Nat \ {0}, r \in 0 .. 127 :
             q = n \div 128 /\ r = n % 128 /\ n = 128 * q + r /\ q < n
      BY <1>2, <1>5, SevenLess
    <2>2. q \notin T
      BY <1>1, <1>2, <2>1
    <2>3. AddUp(Groups[q], q)
      BY <2>2
    <2>4. AddUp(<<128 + r>> \o Groups[q], 128 * q + r)
      BY <2>3, GroupInFront
    <2> QED
      BY <1>2, <1>3, <1>5, <2>1, <2>4
  <1> QED
    BY <1>4, <1>5

\* The largest word, and what is left of a number below the divisor.
LEMMA WordEnds == WordMax \in Nat /\ Pow2[WordBits] = WordMax + 1 /\ Pow2[WordBits] \in Nat
  <1>1. PICK w \in Nat \ {0} : w = Pow2[WordBits]
    <2>1. WordBits \in Nat
      BY HpackIntegerAssumption
    <2> QED
      BY <2>1, Doubling
  <1> QED
    BY <1>1 DEF WordMax

\* The first byte with a prefix in it is one.
LEMMA PrefixFits ==
    ASSUME NEW prefix \in 1 .. 8
    PROVE  /\ Full(prefix) \in Nat /\ Full(prefix) < 256 /\ Full(prefix) \in Byte
           /\ Pow2[prefix] = Full(prefix) + 1
           /\ Full(prefix) % Pow2[prefix] = Full(prefix)
  <1>1. prefix \in Nat /\ 8 \in Nat /\ prefix <= 8
    OBVIOUS
  <1>2. Pow2[prefix] \in Nat \ {0} /\ Pow2[prefix] <= Pow2[8]
    BY <1>1, Doubling, PowersGrow
  <1>3. Pow2[8] = 256
    <2>1. Pow2[1] = 2
      <3>1. 1 \in Nat \ {0} /\ 1 - 1 = 0
        OBVIOUS
      <3> QED
        BY <3>1, Doubling
    <2>2. Pow2[1 + 7] = 128 * Pow2[1]
      <3>1. 1 \in Nat
        OBVIOUS
      <3> QED
        BY <3>1, SevenMore
    <2> QED
      BY <2>1, <2>2
  <1>4. PICK full \in Nat : full = Full(prefix) /\ Pow2[prefix] = full + 1
    BY <1>2 DEF Full
  <1>5. full < 256 /\ full \in Byte
    BY <1>2, <1>3, <1>4 DEF Byte
  <1>6. full % (full + 1) = full
    <2>1. PICK after \in Nat \ {0} : after = full + 1
      OBVIOUS
    <2>2. full % after = full
      BY <2>1, NoMore
    <2> QED
      BY <2>1, <2>2
  <1> QED
    BY <1>4, <1>5, <1>6

\* What an integer means, in the names used here.
LEMMA MeaningIs ==
    ASSUME NEW data \in Seq(Byte), data # <<>>, NEW prefix \in Nat,
           ~(data[1] % Pow2[prefix] < Full(prefix)),
           NEW m \in EndsOf(data), \A j \in EndsOf(data) : m <= j,
           \A b \in BeyondOf(data, prefix) : b > m
    PROVE  Meaning(data, prefix) = [is |-> "Done", value |-> Meant(data, prefix)[m], used |-> m]
  <1>1. PICK ends, beyond : ends = EndsOf(data) /\ beyond = BeyondOf(data, prefix)
    OBVIOUS
  <1>2. PICK s : s = Meant(data, prefix)
    OBVIOUS
  <1>3. Meaning(data, prefix)
           = IF \E k \in beyond : \A j \in ends : k <= j
             THEN [is |-> "InvalidInteger", value |-> 0, used |-> 0]
             ELSE IF ends = {} THEN [is |-> "Incomplete", value |-> 0, used |-> 0]
             ELSE [is |-> "Done", value |-> s[Least(ends)], used |-> Least(ends)]
    BY <1>1, <1>2 DEF Meaning, EndsOf, BeyondOf
  <1>4. ends \subseteq Nat /\ beyond \subseteq Nat /\ m \in ends
    BY <1>1 DEF EndsOf, BeyondOf
  <1>5. Least(ends) = m
    <2>1. \A k \in ends : (\A j \in ends : k <= j) => k = m
      BY <1>1, <1>4
    <2> QED
      BY <1>1, <1>4, <2>1 DEF Least
  <1>6. ~\E k \in beyond : \A j \in ends : k <= j
    <2>1. \A k \in beyond : k \in Nat /\ k > m /\ m \in Nat
      BY <1>1, <1>4
    <2>2. \A k \in beyond : ~(k <= m)
      BY <2>1
    <2> QED
      BY <1>4, <2>2
  <1> QED
    BY <1>2, <1>3, <1>4, <1>5, <1>6

\* A value that fits the prefix is done with the first byte.
LEMMA SmallComesBack ==
    ASSUME NEW prefix \in 1 .. 8, NEW value \in Nat, value < Full(prefix),
           NEW junk \in Seq(Byte)
    PROVE  DecodeInteger(<<value>> \o junk, prefix) = [is |-> "Done", value |-> value, used |-> 1]
  <1>1. PICK full \in Nat : full = Full(prefix) /\ full < 256 /\ Pow2[prefix] = full + 1
    BY PrefixFits
  <1>2. value \in Byte
    BY <1>1 DEF Byte
  <1>3. PICK data : data = <<value>> \o junk
    OBVIOUS
  <1>4. data \in Seq(Byte) /\ Len(data) = Len(junk) + 1 /\ Len(junk) \in Nat /\ data[1] = value
    <2>1. PICK byte \in Byte : byte = value
      BY <1>2
    <2> QED
      BY <1>3, <2>1, OneInFront
  <1>5. data # <<>>
    BY <1>4, EmptySeq
  <1>6. data[1] % Pow2[prefix] = value
    <2>1. PICK after \in Nat \ {0} : after = full + 1
      OBVIOUS
    <2>2. value % after = value
      BY <1>1, <2>1, NoMore
    <2> QED
      BY <1>1, <1>4, <2>1, <2>2
  <1>7. prefix \in Nat
    OBVIOUS
  <1>8. Meaning(data, prefix) = [is |-> "Done", value |-> Meant(data, prefix)[1], used |-> 1]
    BY <1>5, <1>6 DEF Meaning
  <1>9. Meant(data, prefix)[1] = value
    BY <1>4, <1>5, <1>6, <1>7, MeantSums
  <1>10. DecodeInteger(data, prefix) = Meaning(data, prefix)
    BY <1>4, <1>7, <1>8, IntegerExact
  <1> QED
    BY <1>3, <1>8, <1>9, <1>10

\* A larger one is read back from its groups.
LEMMA LargeComesBack ==
    ASSUME NEW prefix \in 1 .. 8, NEW m \in Nat, Full(prefix) + m <= WordMax,
           NEW junk \in Seq(Byte)
    PROVE  LET out == <<Full(prefix)>> \o Groups[m]
           IN /\ DecodeInteger(out \o junk, prefix)
                    = [is |-> "Done", value |-> Full(prefix) + m, used |-> Len(out)]
              /\ out \in Seq(Byte)
  <1>1. PICK full \in Nat : full = Full(prefix) /\ full < 256 /\ Pow2[prefix] = full + 1
    BY PrefixFits
  <1>2. PICK g \in Seq(Byte) : g = Groups[m] /\ AddUp(g, m)
    <2>1. AddUp(Groups[m], m)
      BY GroupsAddUp
    <2> QED
      BY <2>1 DEF AddUp
  <1>3. PICK L \in Nat \ {0} : L = Len(g)
    BY <1>2 DEF AddUp
  <1>4. PICK s \in [0 .. L -> 0 .. m] :
           /\ s[0] = 0
           /\ s[L] = m
           /\ \A i \in 1 .. L : s[i] = s[i - 1] + (g[i] % 128) * Pow2[7 * (i - 1)]
    BY <1>2, <1>3 DEF AddUp
  <1>5. full \in Byte
    BY <1>1, PrefixFits
  <1>6. PICK out \in Seq(Byte) : out = <<full>> \o g
    BY <1>5, OneInFront
  <1>7. Len(out) = L + 1 /\ out[1] = full /\ \A i \in 1 .. L : out[i + 1] = g[i]
    BY <1>3, <1>5, <1>6, OneInFront
  <1>8. PICK n \in Nat : n = Len(junk)
    BY LenProperties
  <1>9. PICK data : data = out \o junk
    OBVIOUS
  <1>10. /\ data \in Seq(Byte) /\ Len(data) = L + 1 + n
         /\ \A i \in 1 .. L + 1 : data[i] = out[i]
    <2>1. out \o junk \in Seq(Byte) /\ Len(out \o junk) = Len(out) + Len(junk)
      BY ConcatProperties
    <2>2. \A i \in 1 .. Len(out) + Len(junk) :
             (out \o junk)[i] = IF i <= Len(out) THEN out[i] ELSE junk[i - Len(out)]
      BY ConcatProperties
    <2>3. \A i \in 1 .. L + 1 : i \in 1 .. L + 1 + n /\ i <= L + 1
      OBVIOUS
    <2> QED
      BY <1>7, <1>8, <1>9, <2>1, <2>2, <2>3
  <1>11. data[1] = full /\ \A i \in 1 .. L : data[i + 1] = g[i]
    <2>1. 1 \in 1 .. L + 1 /\ \A i \in 1 .. L : i + 1 \in 1 .. L + 1
      OBVIOUS
    <2> QED
      BY <1>7, <1>10, <2>1
  <1>12. data # <<>>
    BY <1>10, EmptySeq
  <1>13. data[1] % Pow2[prefix] = full
    <2>1. full % Pow2[prefix] = full
      BY <1>1, PrefixFits
    <2> QED
      BY <1>11, <2>1
  <1>14. prefix \in Nat
    OBVIOUS
  <1>15. PICK t : t = Meant(data, prefix)
    OBVIOUS
  <1>16. /\ t[1] = full
         /\ \A k \in 2 .. L + 1 + n : t[k] = t[k - 1] + (data[k] % 128) * Pow2[7 * (k - 2)]
    <2>1. PICK d \in Seq(Byte), p \in Nat : d = data /\ p = prefix
      BY <1>10, <1>14
    <2>2. /\ Meant(d, p)[1] = d[1] % Pow2[p]
          /\ \A k \in 2 .. Len(d) :
                Meant(d, p)[k] = Meant(d, p)[k - 1] + (d[k] % 128) * Pow2[7 * (k - 2)]
      BY <1>12, <2>1, MeantSums
    <2> QED
      BY <1>10, <1>13, <1>15, <2>1, <2>2
  <1>17. \A i \in 0 .. L : t[i + 1] = full + s[i]
    <2> DEFINE P == {i \in 0 .. L : t[i + 1] = full + s[i]}
    <2>1. 0 \in P
      BY <1>4, <1>16
    <2>2. ASSUME NEW i \in 1 .. L, i - 1 \in P PROVE i \in P
      <3>1. i + 1 \in 2 .. L + 1 + n /\ (i + 1) - 1 = i /\ (i - 1) + 1 = i
            /\ (i + 1) - 2 = i - 1 /\ 7 * (i - 1) \in Nat
        OBVIOUS
      <3>2. t[i] = full + s[i - 1]
        BY <2>2, <3>1
      <3>3. t[i + 1] = t[i] + (data[i + 1] % 128) * Pow2[7 * (i - 1)]
        BY <1>16, <3>1
      <3>4. data[i + 1] = g[i] /\ s[i] = s[i - 1] + (g[i] % 128) * Pow2[7 * (i - 1)]
        BY <1>4, <1>11
      <3>5. PICK x \in Nat : x = (g[i] % 128) * Pow2[7 * (i - 1)]
        <4>1. g[i] \in Byte
          BY <1>3, ElementOfSeq
        <4>2. g[i] \in Nat
          BY <4>1, BytesAreNumbers
        <4>3. PICK d \in Nat : d = g[i] % 128
          BY <4>2, SMT
        <4>4. PICK p \in Nat : p = Pow2[7 * (i - 1)]
          BY <3>1, Doubling
        <4>5. d * p \in Nat
          BY SMT
        <4> QED
          BY <4>3, <4>4, <4>5
      <3>6. s[i - 1] \in Nat
        <4>1. i - 1 \in 0 .. L
          OBVIOUS
        <4>2. s[i - 1] \in 0 .. m
          BY <1>4, <4>1
        <4> QED
          BY <4>2
      <3>7. t[i + 1] = full + s[i]
        BY <3>2, <3>3, <3>4, <3>5, <3>6
      <3> QED
        BY <3>7
    <2>3. \A i \in 0 .. L : i \in P
      <3> HIDE DEF P
      <3> QED
        BY <2>1, <2>2, UpTo
    <2> QED
      BY <2>3
  <1>18. \A k \in 2 .. L + 1 : data[k] < 128 <=> k = L + 1
    <2> SUFFICES ASSUME NEW k \in 2 .. L + 1 PROVE data[k] < 128 <=> k = L + 1
      OBVIOUS
    <2>1. k - 1 \in 1 .. L /\ (k - 1) + 1 = k
      OBVIOUS
    <2>2. data[k] = g[k - 1]
      BY <1>11, <2>1
    <2>3. g[k - 1] < 128 <=> k - 1 = L
      BY <1>2, <1>3, <2>1 DEF AddUp
    <2> QED
      BY <2>2, <2>3
  <1>19. L + 1 \in EndsOf(data) /\ \A j \in EndsOf(data) : L + 1 <= j
    <2>1. EndsOf(data) = {k \in 2 .. L + 1 + n : data[k] < 128}
      BY <1>10 DEF EndsOf
    <2>2. L + 1 \in 2 .. L + 1 + n /\ L + 1 \in 2 .. L + 1
      OBVIOUS
    <2>3. \A j \in 2 .. L + 1 + n : ~(L + 1 <= j) => j \in 2 .. L + 1 /\ j # L + 1
      OBVIOUS
    <2> QED
      BY <1>18, <2>1, <2>2, <2>3
  <1>20. 7 * (L - 1) < WordBits
    <2>1. PICK w \in Nat : w = Pow2[WordBits] /\ WordMax = w - 1
      BY WordEnds
    <2>2. CASE m = 0
      <3>1. L = 1
        BY <1>2, <1>3, <2>2 DEF AddUp
      <3> QED
        BY <3>1, HpackIntegerAssumption
    <2>3. CASE m > 0
      <3>1. 7 * (L - 1) \in Nat /\ WordBits \in Nat
        BY HpackIntegerAssumption
      <3>2. PICK p \in Nat : p = Pow2[7 * (L - 1)]
        BY <3>1, Doubling
      <3>3. m >= p
        BY <1>2, <1>3, <2>3, <3>2 DEF AddUp
      <3>4. p < w
        <4>1. full + m <= w - 1
          BY <1>1, <2>1
        <4> QED
          BY <3>3, <4>1
      <3>5. WordBits <= 7 * (L - 1) => w <= p
        BY <2>1, <3>1, <3>2, PowersGrow
      <3> QED
        BY <3>1, <3>4, <3>5
    <2> QED
      BY <2>2, <2>3
  <1>21. \A b \in BeyondOf(data, prefix) : b > L + 1
    <2> SUFFICES ASSUME NEW b \in BeyondOf(data, prefix), ~(b > L + 1) PROVE FALSE
      OBVIOUS
    <2>1. /\ b \in 2 .. L + 1 + n
          /\ 7 * (b - 2) >= WordBits \/ t[b] > WordMax
      BY <1>10, <1>15 DEF BeyondOf
    <2>2. b \in 2 .. L + 1 /\ b - 1 \in 0 .. L /\ (b - 1) + 1 = b /\ 7 * (b - 2) <= 7 * (L - 1)
      BY <2>1
    <2>3. t[b] = full + s[b - 1]
      BY <1>17, <2>2
    <2>4. s[b - 1] \in 0 .. m
      BY <1>4, <2>2
    <2>5. WordMax \in Nat
      BY WordEnds
    <2>6. t[b] <= WordMax /\ t[b] \in Nat
      <3>1. full + m <= WordMax
        BY <1>1
      <3> QED
        BY <2>3, <2>4, <2>5, <3>1
    <2> QED
      BY <1>20, <2>1, <2>2, <2>5, <2>6, HpackIntegerAssumption
  <1>22. Meaning(data, prefix) = [is |-> "Done", value |-> t[L + 1], used |-> L + 1]
    <2>1. ~(data[1] % Pow2[prefix] < Full(prefix))
      BY <1>1, <1>13
    <2> QED
      BY <1>10, <1>12, <1>14, <1>15, <1>19, <1>21, <2>1, MeaningIs
  <1>23. t[L + 1] = full + m
    <2>1. L \in 0 .. L
      OBVIOUS
    <2> QED
      BY <1>4, <1>17, <2>1
  <1>24. DecodeInteger(data, prefix) = Meaning(data, prefix)
    BY <1>10, <1>14, <1>22, IntegerExact
  <1> QED
    BY <1>1, <1>2, <1>6, <1>7, <1>9, <1>22, <1>23, <1>24

\* Every value of a word comes back, whatever bytes follow it.
THEOREM IntegerComesBack ==
    ASSUME NEW prefix \in 1 .. 8, NEW value \in 0 .. WordMax, NEW junk \in Seq(Byte)
    PROVE  DecodeInteger(EncodeInteger(value, prefix, 0) \o junk, prefix)
              = [is |-> "Done", value |-> value, used |-> Len(EncodeInteger(value, prefix, 0))]
  <1>1. PICK full \in Nat : full = Full(prefix)
    BY PrefixFits
  <1>2. value \in Nat /\ value <= WordMax
    <2>1. WordMax \in Nat
      BY WordEnds
    <2> QED
      BY <2>1
  <1>3. CASE value < full
    <2>1. EncodeInteger(value, prefix, 0) = <<value>>
      BY <1>1, <1>2, <1>3 DEF EncodeInteger
    <2>2. Len(<<value>>) = 1
      OBVIOUS
    <2> QED
      BY <1>1, <1>2, <1>3, <2>1, <2>2, SmallComesBack
  <1>4. CASE ~(value < full)
    <2>1. PICK m \in Nat : m = value - full
      BY <1>2, <1>4
    <2>2. full + m = value
      BY <1>2, <2>1
    <2>3. EncodeInteger(value, prefix, 0) = <<Full(prefix)>> \o Groups[m]
      BY <1>1, <1>4, <2>1 DEF EncodeInteger
    <2> QED
      BY <1>1, <1>2, <2>2, <2>3, LargeComesBack
  <1> QED
    BY <1>3, <1>4

-------------------------------------------------------------------------------
(***************************************************************************)
(* Strings and header fields as bytes: where they end.                     *)
(***************************************************************************)

\* What is read of all data, and of the first n bytes: nothing beyond the data,
\* nothing before its end, and afterwards always the same.
Delimited(data, n, all, part) ==
    /\ all.used \in 1 .. Len(data)
    /\ n < all.used => part.is = "Incomplete"
    /\ n >= all.used => part = all

\* In particular the first bytes of a string.
LEMMA FirstBytes ==
    ASSUME NEW s \in Seq(Byte), NEW n \in 0 .. Len(s)
    PROVE  /\ SubSeq(s, 1, n) \in Seq(Byte) /\ Len(SubSeq(s, 1, n)) = n
           /\ \A i \in 1 .. n : SubSeq(s, 1, n)[i] = s[i]
  <1>1. PICK S : S = Byte
    OBVIOUS
  <1>2. s \in Seq(S)
    BY <1>1
  <1>3. /\ SubSeq(s, 1, n) \in Seq(S) /\ Len(SubSeq(s, 1, n)) = n
        /\ \A i \in 1 .. n : SubSeq(s, 1, n)[i] = s[i]
    BY <1>2, Firsts
  <1> QED
    BY <1>1, <1>3

\* The states of the loop of decode_integer depend on the bytes read only.
LEMMA ReadingOfPart ==
    ASSUME NEW data \in Seq(Byte), NEW part \in Seq(Byte), NEW prefix \in Nat,
           part # <<>>, Len(part) <= Len(data), \A i \in 1 .. Len(part) : part[i] = data[i]
    PROVE  \A k \in 1 .. Len(part) : Reading(part, prefix)[k] = Reading(data, prefix)[k]
  <1>1. PICK n \in Nat \ {0}, N \in Nat \ {0} : n = Len(part) /\ N = Len(data) /\ n <= N
    BY LenProperties, EmptySeq
  <1>2. data # <<>>
    BY <1>1, EmptySeq
  <1>3. PICK r, p : r = Reading(data, prefix) /\ p = Reading(part, prefix)
    OBVIOUS
  <1>4. /\ r[1] = [is |-> IF data[1] % Pow2[prefix] < Full(prefix) THEN "Done" ELSE "Reading",
                   value |-> data[1] % Pow2[prefix], used |-> 1]
        /\ \A k \in 2 .. N : r[k] = IF r[k - 1].is = "Reading"
                                    THEN Take(r[k - 1], data[k], 7 * (k - 2)) ELSE r[k - 1]
    BY <1>1, <1>2, <1>3, ReadingSteps
  <1>5. /\ p[1] = [is |-> IF part[1] % Pow2[prefix] < Full(prefix) THEN "Done" ELSE "Reading",
                   value |-> part[1] % Pow2[prefix], used |-> 1]
        /\ \A k \in 2 .. n : p[k] = IF p[k - 1].is = "Reading"
                                    THEN Take(p[k - 1], part[k], 7 * (k - 2)) ELSE p[k - 1]
    BY <1>1, <1>3, ReadingSteps
  <1>6. \A i \in 1 .. n : part[i] = data[i]
    BY <1>1
  <1> DEFINE P == {k \in 0 .. n : k > 0 => p[k] = r[k]}
  <1>7. 0 \in P
    OBVIOUS
  <1>8. ASSUME NEW k \in 1 .. n, k - 1 \in P PROVE k \in P
    <2>1. CASE k = 1
      <3>1. part[1] = data[1]
        BY <1>6, <2>1
      <3> QED
        BY <1>4, <1>5, <2>1, <3>1
    <2>2. CASE k # 1
      <3>1. k \in 2 .. n /\ k \in 2 .. N /\ k - 1 > 0
        BY <1>1, <2>2
      <3>2. p[k - 1] = r[k - 1]
        BY <1>8, <3>1
      <3>3. p[k] = r[k]
        BY <1>4, <1>5, <1>6, <3>1, <3>2
      <3> QED
        BY <3>3
    <2> QED
      BY <2>1, <2>2
  <1>9. \A k \in 0 .. n : k \in P
    <2> HIDE DEF P
    <2> QED
      BY <1>7, <1>8, UpTo
  <1> QED
    BY <1>1, <1>3, <1>9

\* Up to where an integer ends, its end is missing.
LEMMA ReadingEnds ==
    ASSUME NEW data \in Seq(Byte), data # <<>>, NEW prefix \in Nat,
           Reading(data, prefix)[Len(data)].is = "Done"
    PROVE  LET r == Reading(data, prefix)
           IN /\ r[Len(data)].used \in 1 .. Len(data)
              /\ \A k \in 1 .. Len(data) :
                    IF k < r[Len(data)].used THEN r[k].is = "Reading" ELSE r[k] = r[Len(data)]
  <1>1. PICK n \in Nat \ {0} : n = Len(data)
    BY LenProperties, EmptySeq
  <1>2. PICK r : r = Reading(data, prefix)
    OBVIOUS
  <1>3. /\ r \in [1 .. n -> ReadingState]
        /\ r[1] = [is |-> IF data[1] % Pow2[prefix] < Full(prefix) THEN "Done" ELSE "Reading",
                   value |-> data[1] % Pow2[prefix], used |-> 1]
        /\ \A k \in 2 .. n : r[k] = IF r[k - 1].is = "Reading"
                                    THEN Take(r[k - 1], data[k], 7 * (k - 2)) ELSE r[k - 1]
    BY <1>1, <1>2, ReadingSteps
  <1> DEFINE Counts(k) ==
                /\ r[k].is = "Reading" => r[k].used = k /\ \A j \in 1 .. k : r[j].is = "Reading"
                /\ r[k].is = "Done" =>
                      /\ r[k].used \in 1 .. k
                      /\ \A j \in 1 .. k : IF j < r[k].used THEN r[j].is = "Reading" ELSE r[j] = r[k]
             P == {k \in 0 .. n : k > 0 => Counts(k)}
  <1>4. 0 \in P
    OBVIOUS
  <1>5. ASSUME NEW k \in 1 .. n, k - 1 \in P PROVE k \in P
    <2>1. CASE k = 1
      <3>1. r[1].used = 1 /\ \A j \in 1 .. 1 : j = 1
        BY <1>3
      <3>2. Counts(1)
        BY <3>1
      <3> QED
        BY <2>1, <3>2
    <2>2. CASE k # 1
      <3>1. k \in 2 .. n /\ k - 1 > 0 /\ k - 1 \in 1 .. n /\ 7 * (k - 2) \in Nat
        BY <2>2
      <3>2. Counts(k - 1)
        BY <1>5, <3>1
      <3>3. CASE r[k - 1].is # "Reading"
        <4>1. r[k] = r[k - 1]
          BY <1>3, <3>1, <3>3
        <4>2. Counts(k)
          <5>1. ASSUME r[k].is = "Done" PROVE r[k - 1].used \in 1 .. k - 1
            BY <3>2, <4>1, <5>1
          <5>2. ASSUME r[k].is = "Done", NEW j \in 1 .. k
                PROVE  IF j < r[k].used THEN r[j].is = "Reading" ELSE r[j] = r[k]
            <6>1. CASE j \in 1 .. k - 1
              BY <3>2, <4>1, <5>2, <6>1
            <6>2. CASE j = k
              BY <4>1, <5>1, <5>2, <6>2
            <6>3. j \in 1 .. k - 1 \/ j = k
              BY <3>1
            <6> QED
              BY <6>1, <6>2, <6>3
          <5> QED
            BY <3>1, <3>3, <4>1, <5>1, <5>2
        <4> QED
          BY <4>2
      <3>4. CASE r[k - 1].is = "Reading"
        <4>1. r[k] = Take(r[k - 1], data[k], 7 * (k - 2))
          BY <1>3, <3>1, <3>4
        <4>2. PICK before \in ReadingState, byte \in Byte, shift \in Nat :
                 before = r[k - 1] /\ byte = data[k] /\ shift = 7 * (k - 2)
          <5>1. data[k] \in Byte
            BY <1>1, ElementOfSeq
          <5> QED
            BY <1>3, <3>1, <5>1
        <4>3. \/ Take(before, byte, shift).is = "InvalidInteger"
              \/ /\ Take(before, byte, shift).is \in {"Done", "Reading"}
                 /\ Take(before, byte, shift).used = before.used + 1
          <5>1. PICK exact : exact = before.value + (byte % 128) * Pow2[shift]
            OBVIOUS
          <5>2. IF shift >= WordBits \/ exact > WordMax
                THEN Take(before, byte, shift).is = "InvalidInteger"
                ELSE Take(before, byte, shift)
                        = [is    |-> IF byte < 128 THEN "Done" ELSE "Reading",
                           value |-> exact,
                           used  |-> before.used + 1]
            BY <5>1, TakeIsExact
          <5> QED
            BY <5>2
        <4>4. r[k].is # "InvalidInteger" => r[k].used = k
          <5>1. before.used = k - 1 /\ (k - 1) + 1 = k
            BY <3>1, <3>2, <3>4, <4>2
          <5> QED
            BY <4>1, <4>2, <4>3, <5>1
        <4>5. \A j \in 1 .. k - 1 : r[j].is = "Reading"
          BY <3>2, <3>4
        <4>6. ASSUME NEW j \in 1 .. k PROVE (j \in 1 .. k - 1 /\ j < k) \/ (j = k /\ ~(j < k))
          OBVIOUS
        <4>7. Counts(k)
          <5>1. ASSUME r[k].is = "Reading"
                PROVE  r[k].used = k /\ \A j \in 1 .. k : r[j].is = "Reading"
            BY <4>4, <4>5, <4>6, <5>1
          <5>2. ASSUME r[k].is = "Done"
                PROVE  /\ r[k].used \in 1 .. k
                       /\ \A j \in 1 .. k : IF j < r[k].used THEN r[j].is = "Reading" ELSE r[j] = r[k]
            <6>1. r[k].used = k
              BY <4>4, <5>2
            <6>2. \A j \in 1 .. k : IF j < k THEN r[j].is = "Reading" ELSE r[j] = r[k]
              BY <4>5, <4>6
            <6> QED
              BY <6>1, <6>2
          <5> QED
            BY <5>1, <5>2
        <4> QED
          BY <4>7
      <3> QED
        BY <3>3, <3>4
    <2> QED
      BY <2>1, <2>2
  <1>6. Counts(n)
    <2>1. \A k \in 0 .. n : k \in P
      <3> HIDE DEF P
      <3> QED
        BY <1>4, <1>5, UpTo
    <2>2. n \in P /\ n > 0
      BY <2>1
    <2> QED
      BY <2>2
  <1> QED
    BY <1>1, <1>2, <1>6

\* An integer delimits itself.
LEMMA IntegerDelimited ==
    ASSUME NEW data \in Seq(Byte), NEW prefix \in Nat, NEW n \in 0 .. Len(data),
           DecodeInteger(data, prefix).is = "Done"
    PROVE  /\ Delimited(data, n, DecodeInteger(data, prefix), DecodeInteger(SubSeq(data, 1, n), prefix))
           /\ DecodeInteger(data, prefix).value \in Nat
  <1>1. data # <<>>
    BY DEF DecodeInteger
  <1>2. PICK N \in Nat \ {0} : N = Len(data) /\ n \in 0 .. N
    BY <1>1, LenProperties, EmptySeq
  <1>3. PICK all : all = DecodeInteger(data, prefix)
    OBVIOUS
  <1>4. PICK r : r = Reading(data, prefix)
    OBVIOUS
  <1>5. all = r[N] /\ r[N].is = "Done"
    BY <1>1, <1>2, <1>3, <1>4, ReadToTheEnd
  <1>6. /\ all.used \in 1 .. N
        /\ \A k \in 1 .. N : IF k < all.used THEN r[k].is = "Reading" ELSE r[k] = r[N]
    BY <1>1, <1>2, <1>4, <1>5, ReadingEnds
  <1>7. all.value \in Nat
    <2>1. r \in [1 .. N -> ReadingState]
      BY <1>1, <1>2, <1>4, ReadingSteps
    <2>2. N \in 1 .. N
      OBVIOUS
    <2> QED
      BY <1>5, <2>1, <2>2 DEF ReadingState
  <1>8. PICK part \in Seq(Byte) : part = SubSeq(data, 1, n) /\ Len(part) = n
                                   /\ \A i \in 1 .. n : part[i] = data[i]
    BY FirstBytes
  <1>9. PICK less : less = DecodeInteger(part, prefix)
    OBVIOUS
  <1>10. CASE n = 0
    <2>1. part = <<>>
      BY <1>8, <1>10, EmptySeq
    <2>2. less.is = "Incomplete"
      BY <1>9, <2>1 DEF DecodeInteger
    <2> QED
      BY <1>2, <1>3, <1>6, <1>7, <1>8, <1>9, <1>10, <2>2 DEF Delimited
  <1>11. CASE n # 0
    <2>1. n \in 1 .. n /\ n \in 1 .. N /\ n \in Nat /\ n <= N
      BY <1>2, <1>11
    <2>2. part # <<>>
      BY <1>8, <1>11, EmptySeq
    <2>3. Reading(part, prefix)[n] = r[n]
      <3>1. Len(part) <= Len(data) /\ (\A i \in 1 .. Len(part) : part[i] = data[i]) /\ n \in 1 .. Len(part)
        BY <1>2, <1>8, <2>1
      <3>2. \A k \in 1 .. Len(part) : Reading(part, prefix)[k] = Reading(data, prefix)[k]
        BY <2>2, <3>1, ReadingOfPart
      <3> QED
        BY <1>4, <3>1, <3>2
    <2>4. less = IF r[n].is = "Reading" THEN [is |-> "Incomplete", value |-> 0, used |-> 0] ELSE r[n]
      BY <1>8, <1>9, <2>2, <2>3, ReadToTheEnd
    <2>5. n < all.used => less.is = "Incomplete"
      BY <1>6, <2>1, <2>4
    <2>6. n >= all.used => less = all
      <3>1. ASSUME n >= all.used PROVE less = all
        <4>1. ~(n < all.used)
          BY <1>6, <2>1, <3>1
        <4>2. r[n] = r[N]
          BY <1>6, <2>1, <4>1
        <4> QED
          BY <1>5, <2>4, <4>2
      <3> QED
        BY <3>1
    <2> QED
      BY <1>2, <1>3, <1>6, <1>7, <1>8, <1>9, <2>5, <2>6 DEF Delimited
  <1> QED
    BY <1>10, <1>11

\* What is behind the first bytes that were used.
LEMMA BehindUsed ==
    ASSUME NEW data \in Seq(Byte), NEW used \in 0 .. Len(data), NEW n \in used .. Len(data)
    PROVE  /\ Behind(data, used) \in Seq(Byte)
           /\ Len(Behind(data, used)) = Len(data) - used
           /\ n - used \in 0 .. Len(Behind(data, used))
           /\ Behind(SubSeq(data, 1, n), used) = SubSeq(Behind(data, used), 1, n - used)
  <1>1. PICK N \in Nat : N = Len(data) /\ used \in 0 .. N /\ n \in used .. N
    BY LenProperties
  <1>2. PICK b : b = Behind(data, used)
    OBVIOUS
  <1>3. b \in Seq(Byte) /\ Len(b) = N - used
    <2>1. \A i \in used + 1 .. N : data[i] \in Byte
      <3>1. \A i \in used + 1 .. N : i \in 1 .. Len(data)
        BY <1>1
      <3> QED
        BY <3>1, ElementOfSeq
    <2>2. used + 1 \in Int /\ N \in Int
      BY <1>1
    <2>3. /\ SubSeq(data, used + 1, N) \in Seq(Byte)
          /\ Len(SubSeq(data, used + 1, N)) = IF used + 1 <= N THEN N - (used + 1) + 1 ELSE 0
      BY <2>1, <2>2, SubSeqProperties
    <2> QED
      BY <1>1, <1>2, <2>3 DEF Behind
  <1>4. n \in 0 .. Len(data) /\ used + 1 \in Nat \ {0} /\ n \in 0 .. n /\ n - used \in 0 .. N - used
    BY <1>1
  <1>5. Len(SubSeq(data, 1, n)) = n
    BY <1>4, Firsts
  <1>6. Behind(SubSeq(data, 1, n), used) = SubSeq(data, used + 1, n)
    BY <1>4, <1>5, PartOfFirst DEF Behind
  <1>7. SubSeq(b, 1, n - used) = SubSeq(data, used + 1, n)
    <2>1. CASE n = used
      <3>1. n < used + 1 /\ n - used < 1 /\ n \in Int /\ used + 1 \in Int /\ n - used \in Int /\ 1 \in Int
        BY <1>1, <2>1
      <3> QED
        BY <3>1, SubSeqEmpty
    <2>2. CASE n # used
      <3>1. used + 1 \in 1 .. Len(data) /\ N \in 1 .. Len(data)
        BY <1>1, <2>2
      <3>2. 1 \in 1 .. N - (used + 1) + 1 /\ n - used \in 1 .. N - (used + 1) + 1
        BY <1>1, <2>2
      <3>3. SubSeq(data, used + 1, N) \in Seq(Byte)
        BY <1>1, <1>2, <1>3 DEF Behind
      <3>4. SubSeq(SubSeq(data, used + 1, N), 1, n - used)
               = SubSeq(data, (used + 1) + 1 - 1, (used + 1) + (n - used) - 1)
        BY <3>1, <3>2, <3>3, SubSeqOfSubSeq
      <3>5. (used + 1) + 1 - 1 = used + 1 /\ (used + 1) + (n - used) - 1 = n
        BY <1>1
      <3> QED
        BY <1>1, <1>2, <3>4, <3>5 DEF Behind
    <2> QED
      BY <2>1, <2>2
  <1> QED
    BY <1>1, <1>2, <1>3, <1>4, <1>6, <1>7

\* What a string is that was read.
LEMMA StringRead ==
    ASSUME NEW data \in Seq(Byte), NEW length, length = DecodeInteger(data, 7), length.is = "Done",
           NEW end, end = length.used + length.value, NEW available, available = Len(data)
    PROVE  /\ DecodeString(data) =
                IF end > WordMax THEN Failed("InvalidInteger")
                ELSE IF end > available THEN Failed("Incomplete")
                ELSE Text(SubSeq(data, length.used + 1, end), data[1] >= 128, end)
           /\ DecodeString(data).is = "Done" =>
                 /\ ~(end > WordMax) /\ ~(end > available)
                 /\ DecodeString(data).used = end
  <1>1. DecodeString(data) =
           IF end > WordMax THEN Failed("InvalidInteger")
           ELSE IF end > available THEN Failed("Incomplete")
           ELSE Text(SubSeq(data, length.used + 1, end), data[1] >= 128, end)
    BY DEF DecodeString, StringEnd, Try
  <1>2. \A error : Failed(error).is = error
    BY DEF Failed
  <1>3. \A octets, huffman, used : Text(octets, huffman, used).is = "Done"
                                      => Text(octets, huffman, used).used = used
    BY <1>2 DEF Text
  <1>4. "InvalidInteger" # "Done" /\ "Incomplete" # "Done"
    OBVIOUS
  <1> QED
    BY <1>1, <1>2, <1>3, <1>4

\* A string delimits itself.
LEMMA StringDelimited ==
    ASSUME NEW data \in Seq(Byte), NEW n \in 0 .. Len(data), DecodeString(data).is = "Done"
    PROVE  Delimited(data, n, DecodeString(data), DecodeString(SubSeq(data, 1, n)))
  <1>1. PICK N \in Nat : N = Len(data) /\ n \in 0 .. N
    BY LenProperties
  <1>2. PICK length : length = DecodeInteger(data, 7)
    OBVIOUS
  <1>3. \A error : Failed(error).is = error
    BY DEF Failed
  <1>4. length.is = "Done"
    BY <1>2, <1>3 DEF DecodeString, Try
  <1>5. PICK part \in Seq(Byte) : part = SubSeq(data, 1, n) /\ Len(part) = n
                                   /\ \A i \in 1 .. n : part[i] = data[i]
    BY FirstBytes
  <1>6. PICK less : less = DecodeInteger(part, 7)
    OBVIOUS
  <1>7. Delimited(data, n, length, less) /\ length.value \in Nat
    <2>1. 7 \in Nat
      OBVIOUS
    <2> QED
      BY <1>2, <1>4, <1>5, <1>6, <2>1, IntegerDelimited
  <1>8. PICK used \in 1 .. N : used = length.used
    BY <1>1, <1>7 DEF Delimited
  <1>9. PICK end \in Nat : end = length.used + length.value /\ end >= used
    BY <1>7, <1>8
  <1>10. PICK all : all = DecodeString(data)
    OBVIOUS
  <1>11. /\ all = Text(SubSeq(data, used + 1, end), data[1] >= 128, end)
         /\ ~(end > WordMax) /\ ~(end > N) /\ all.used = end
    BY <1>1, <1>2, <1>4, <1>8, <1>9, <1>10, StringRead
  <1>12. end \in 1 .. N
    BY <1>8, <1>9, <1>11
  <1>13. CASE n < used
    <2>1. less.is = "Incomplete"
      BY <1>7, <1>8, <1>13 DEF Delimited
    <2>2. DecodeString(part) = Failed("Incomplete")
      BY <1>6, <2>1 DEF DecodeString, Try
    <2>3. n < end /\ ~(n >= end)
      BY <1>1, <1>8, <1>9, <1>13
    <2> QED
      BY <1>1, <1>3, <1>5, <1>10, <1>11, <1>12, <2>2, <2>3 DEF Delimited
  <1>14. CASE ~(n < used)
    <2>1. less = length
      BY <1>1, <1>7, <1>8, <1>14 DEF Delimited
    <2>2. DecodeString(part) =
             IF end > WordMax THEN Failed("InvalidInteger")
             ELSE IF end > n THEN Failed("Incomplete")
             ELSE Text(SubSeq(part, used + 1, end), part[1] >= 128, end)
      <3>1. less.is = "Done" /\ end = less.used + less.value /\ n = Len(part) /\ less.used = used
        BY <1>4, <1>5, <1>8, <1>9, <2>1
      <3>2. DecodeString(part) =
               IF end > WordMax THEN Failed("InvalidInteger")
               ELSE IF end > n THEN Failed("Incomplete")
               ELSE Text(SubSeq(part, less.used + 1, end), part[1] >= 128, end)
        BY <1>6, <3>1, StringRead
      <3> QED
        BY <3>1, <3>2
    <2>3. CASE n < end
      <3>1. DecodeString(part) = Failed("Incomplete")
        BY <1>1, <1>11, <2>2, <2>3
      <3>2. ~(n >= end)
        BY <1>1, <2>3
      <3> QED
        BY <1>1, <1>3, <1>5, <1>10, <1>11, <1>12, <3>1, <3>2 DEF Delimited
    <2>4. CASE ~(n < end)
      <3>1. end \in 0 .. n /\ used + 1 \in Nat \ {0} /\ 1 \in 1 .. n /\ ~(end > n)
        BY <1>1, <1>8, <1>9, <1>14, <2>4
      <3>2. SubSeq(part, used + 1, end) = SubSeq(data, used + 1, end)
        BY <1>5, <3>1, PartOfFirst
      <3>3. part[1] = data[1]
        BY <1>5, <3>1
      <3>4. DecodeString(part) = all
        BY <1>11, <2>2, <3>1, <3>2, <3>3
      <3> QED
        BY <1>1, <1>5, <1>10, <1>11, <1>12, <2>4, <3>4 DEF Delimited
    <2> QED
      BY <2>3, <2>4
  <1> QED
    BY <1>13, <1>14

\* The value of a literal field, behind what was used for its name.
ValueBehind(data, name, used) ==
    Try(DecodeString(Behind(data, used)), LAMBDA value :
        [is |-> "Done", what |-> <<name, Spelt(value.what)>>, used |-> used + value.used])

\* A value delimits itself, behind whatever was used before.
LEMMA ValueDelimited ==
    ASSUME NEW data \in Seq(Byte), NEW used \in 0 .. Len(data), NEW n \in used .. Len(data), NEW name,
           ValueBehind(data, name, used).is = "Done"
    PROVE  /\ Delimited(data, n, ValueBehind(data, name, used),
                        ValueBehind(SubSeq(data, 1, n), name, used))
           /\ ValueBehind(data, name, used).used > used
  <1>1. PICK N \in Nat : N = Len(data) /\ used \in 0 .. N /\ n \in used .. N
    BY LenProperties
  <1>2. \A error : Failed(error).is = error
    BY DEF Failed
  <1>3. PICK b \in Seq(Byte) : b = Behind(data, used) /\ Len(b) = N - used /\ n - used \in 0 .. Len(b)
                               /\ Behind(SubSeq(data, 1, n), used) = SubSeq(b, 1, n - used)
    BY <1>1, BehindUsed
  <1>4. PICK value : value = DecodeString(b)
    OBVIOUS
  <1>5. PICK less : less = DecodeString(SubSeq(b, 1, n - used))
    OBVIOUS
  <1>6. value.is = "Done"
    BY <1>2, <1>3, <1>4 DEF ValueBehind, Try
  <1>7. Delimited(b, n - used, value, less)
    BY <1>3, <1>4, <1>5, <1>6, StringDelimited
  <1>8. PICK more \in 1 .. N - used : more = value.used
    BY <1>3, <1>7 DEF Delimited
  <1>9. PICK all : all = ValueBehind(data, name, used)
    OBVIOUS
  <1>10. all = [is |-> "Done", what |-> <<name, Spelt(value.what)>>, used |-> used + more]
    BY <1>3, <1>4, <1>6, <1>8, <1>9 DEF ValueBehind, Try
  <1>11. PICK part : part = ValueBehind(SubSeq(data, 1, n), name, used)
    OBVIOUS
  <1>12. part = IF less.is # "Done" THEN Failed(less.is)
                ELSE [is |-> "Done", what |-> <<name, Spelt(less.what)>>, used |-> used + less.used]
    BY <1>3, <1>5, <1>11 DEF ValueBehind, Try
  <1>13. all.used = used + more /\ used + more \in 1 .. N
    BY <1>1, <1>10
  <1>14. n < used + more => part.is = "Incomplete"
    <2> SUFFICES ASSUME n < used + more PROVE part.is = "Incomplete"
      OBVIOUS
    <2>1. n - used < more
      BY <1>1, <1>8
    <2>2. less.is = "Incomplete"
      BY <1>7, <1>8, <2>1 DEF Delimited
    <2> QED
      BY <1>2, <1>12, <2>2
  <1>15. n >= used + more => part = all
    <2> SUFFICES ASSUME n >= used + more PROVE part = all
      OBVIOUS
    <2>1. n - used >= more
      BY <1>1, <1>8
    <2>2. less = value
      BY <1>7, <1>8, <2>1 DEF Delimited
    <2> QED
      BY <1>6, <1>8, <1>10, <1>12, <2>2
  <1>16. used + more > used
    BY <1>1, <1>8
  <1> QED
    BY <1>1, <1>9, <1>11, <1>13, <1>14, <1>15, <1>16 DEF Delimited

\* An indexed field and a size update end with their integer.
LEMMA IndexedDelimited ==
    ASSUME NEW data \in Seq(Byte), NEW n \in 0 .. Len(data), NEW table,
           DecodeIndexed(data, table).is = "Done"
    PROVE  Delimited(data, n, DecodeIndexed(data, table), DecodeIndexed(SubSeq(data, 1, n), table))
  <1>1. \A error : Failed(error).is = error
    BY DEF Failed
  <1>2. "InvalidIndex" # "Done"
    OBVIOUS
  <1>3. PICK index, less : index = DecodeInteger(data, 7) /\ less = DecodeInteger(SubSeq(data, 1, n), 7)
    OBVIOUS
  <1>4. index.is = "Done" /\ Known(index.value, table)
    BY <1>1, <1>2, <1>3 DEF DecodeIndexed, Try
  <1>5. Delimited(data, n, index, less)
    <2>1. 7 \in Nat
      OBVIOUS
    <2> QED
      BY <1>3, <1>4, <2>1, IntegerDelimited
  <1>6. DecodeIndexed(data, table)
           = [is |-> "Done", what |-> GetHeader(index.value, table), used |-> index.used]
    BY <1>3, <1>4 DEF DecodeIndexed, Try
  <1>7. DecodeIndexed(SubSeq(data, 1, n), table)
           = IF less.is # "Done" THEN Failed(less.is)
             ELSE IF ~Known(less.value, table) THEN Failed("InvalidIndex")
             ELSE [is |-> "Done", what |-> GetHeader(less.value, table), used |-> less.used]
    BY <1>3 DEF DecodeIndexed, Try
  <1>8. PICK all, part : all = DecodeIndexed(data, table) /\ part = DecodeIndexed(SubSeq(data, 1, n), table)
    OBVIOUS
  <1>9. all.used = index.used
    BY <1>6, <1>8
  <1>10. less.is = "Incomplete" => part.is = "Incomplete"
    BY <1>1, <1>7, <1>8
  <1>11. less = index => part = all
    BY <1>4, <1>6, <1>7, <1>8
  <1> QED
    BY <1>5, <1>8, <1>9, <1>10, <1>11 DEF Delimited

\* So does a size update.
LEMMA SizeUpdateDelimited ==
    ASSUME NEW data \in Seq(Byte), NEW n \in 0 .. Len(data), NEW most,
           DecodeSizeUpdate(data, most).is = "Done"
    PROVE  Delimited(data, n, DecodeSizeUpdate(data, most), DecodeSizeUpdate(SubSeq(data, 1, n), most))
  <1>1. \A error : Failed(error).is = error
    BY DEF Failed
  <1>2. "InvalidTableSize" # "Done"
    OBVIOUS
  <1>3. PICK size, less : size = DecodeInteger(data, 5) /\ less = DecodeInteger(SubSeq(data, 1, n), 5)
    OBVIOUS
  <1>4. size.is = "Done" /\ ~(size.value > most)
    BY <1>1, <1>2, <1>3 DEF DecodeSizeUpdate, Try
  <1>5. Delimited(data, n, size, less)
    <2>1. 5 \in Nat
      OBVIOUS
    <2> QED
      BY <1>3, <1>4, <2>1, IntegerDelimited
  <1>6. DecodeSizeUpdate(data, most) = [is |-> "Done", what |-> <<size.value>>, used |-> size.used]
    BY <1>3, <1>4 DEF DecodeSizeUpdate, Try
  <1>7. DecodeSizeUpdate(SubSeq(data, 1, n), most)
           = IF less.is # "Done" THEN Failed(less.is)
             ELSE IF less.value > most THEN Failed("InvalidTableSize")
             ELSE [is |-> "Done", what |-> <<less.value>>, used |-> less.used]
    BY <1>3 DEF DecodeSizeUpdate, Try
  <1>8. PICK all, part : all = DecodeSizeUpdate(data, most) /\ part = DecodeSizeUpdate(SubSeq(data, 1, n), most)
    OBVIOUS
  <1>9. all.used = size.used
    BY <1>6, <1>8
  <1>10. less.is = "Incomplete" => part.is = "Incomplete"
    BY <1>1, <1>7, <1>8
  <1>11. less = size => part = all
    BY <1>4, <1>6, <1>7, <1>8
  <1> QED
    BY <1>5, <1>8, <1>9, <1>10, <1>11 DEF Delimited

\* A new name, and the value behind it.
NameBehind(data, used) ==
    Try(DecodeString(Behind(data, used)), LAMBDA name :
        ValueBehind(data, Spelt(name.what), used + name.used))

\* They delimit themselves, behind whatever was used before.
LEMMA NameDelimited ==
    ASSUME NEW data \in Seq(Byte), NEW used \in 0 .. Len(data), NEW n \in used .. Len(data),
           NameBehind(data, used).is = "Done"
    PROVE  /\ Delimited(data, n, NameBehind(data, used), NameBehind(SubSeq(data, 1, n), used))
           /\ NameBehind(data, used).used > used
  <1>1. PICK N \in Nat : N = Len(data) /\ used \in 0 .. N /\ n \in used .. N
    BY LenProperties
  <1>2. \A error : Failed(error).is = error
    BY DEF Failed
  <1>3. PICK b \in Seq(Byte) : b = Behind(data, used) /\ Len(b) = N - used /\ n - used \in 0 .. Len(b)
                               /\ Behind(SubSeq(data, 1, n), used) = SubSeq(b, 1, n - used)
    BY <1>1, BehindUsed
  <1>4. PICK name, less : name = DecodeString(b) /\ less = DecodeString(SubSeq(b, 1, n - used))
    OBVIOUS
  <1>5. name.is = "Done"
    BY <1>2, <1>3, <1>4 DEF NameBehind, Try
  <1>6. Delimited(b, n - used, name, less)
    BY <1>3, <1>4, <1>5, StringDelimited
  <1>7. PICK first \in 1 .. N - used : first = name.used
    BY <1>3, <1>6 DEF Delimited
  <1>8. PICK to \in 0 .. N : to = used + first
    BY <1>1
  <1>9. PICK all : all = NameBehind(data, used)
    OBVIOUS
  <1>10. all = ValueBehind(data, Spelt(name.what), to)
    BY <1>3, <1>4, <1>5, <1>7, <1>8, <1>9 DEF NameBehind, Try
  <1>11. PICK part : part = NameBehind(SubSeq(data, 1, n), used)
    OBVIOUS
  <1>12. part = IF less.is # "Done" THEN Failed(less.is)
                ELSE ValueBehind(SubSeq(data, 1, n), Spelt(less.what), used + less.used)
    BY <1>3, <1>4, <1>11 DEF NameBehind, Try
  <1>13. ASSUME NEW m \in to .. N
         PROVE  /\ Delimited(data, m, all, ValueBehind(SubSeq(data, 1, m), Spelt(name.what), to))
                /\ all.used > to
    <2>1. to \in 0 .. Len(data) /\ m \in to .. Len(data)
      BY <1>1
    <2>2. PICK what : what = Spelt(name.what)
      OBVIOUS
    <2>3. ValueBehind(data, what, to).is = "Done"
      BY <1>9, <1>10, <2>2
    <2>4. /\ Delimited(data, m, ValueBehind(data, what, to), ValueBehind(SubSeq(data, 1, m), what, to))
          /\ ValueBehind(data, what, to).used > to
      BY <2>1, <2>3, ValueDelimited
    <2> QED
      BY <1>10, <2>2, <2>4
  <1>14. all.used \in 1 .. N /\ all.used > to /\ all.used > used
    <2>1. N \in to .. N
      BY <1>8
    <2>2. all.used \in 1 .. N /\ all.used > to
      BY <1>1, <1>13, <2>1 DEF Delimited
    <2> QED
      BY <1>1, <1>7, <1>8, <2>2
  <1>15. CASE n < to
    <2>1. n - used < first
      BY <1>1, <1>7, <1>8, <1>15
    <2>2. less.is = "Incomplete"
      BY <1>6, <1>7, <2>1 DEF Delimited
    <2>3. part.is = "Incomplete"
      BY <1>2, <1>12, <2>2
    <2>4. n < all.used /\ ~(n >= all.used)
      BY <1>1, <1>8, <1>14, <1>15
    <2> QED
      BY <1>1, <1>9, <1>11, <1>14, <2>3, <2>4 DEF Delimited
  <1>16. CASE ~(n < to)
    <2>1. n \in to .. N /\ n - used >= first
      BY <1>1, <1>7, <1>8, <1>16
    <2>2. less = name
      BY <1>6, <1>7, <2>1 DEF Delimited
    <2>3. part = ValueBehind(SubSeq(data, 1, n), Spelt(name.what), to)
      BY <1>5, <1>7, <1>8, <1>12, <2>2
    <2> QED
      BY <1>9, <1>11, <1>13, <1>14, <2>1, <2>3
  <1> QED
    BY <1>15, <1>16

\* A literal field ends with its value.
LEMMA LiteralDelimited ==
    ASSUME NEW data \in Seq(Byte), NEW n \in 0 .. Len(data), NEW table, NEW prefix \in Nat,
           DecodeLiteral(data, table, prefix).is = "Done"
    PROVE  Delimited(data, n, DecodeLiteral(data, table, prefix),
                     DecodeLiteral(SubSeq(data, 1, n), table, prefix))
  <1>1. PICK N \in Nat : N = Len(data) /\ n \in 0 .. N
    BY LenProperties
  <1>2. \A error : Failed(error).is = error
    BY DEF Failed
  <1>3. PICK cut : cut = SubSeq(data, 1, n)
    OBVIOUS
  <1>4. PICK index, less : index = DecodeInteger(data, prefix) /\ less = DecodeInteger(cut, prefix)
    OBVIOUS
  <1>5. ASSUME NEW bytes, NEW at, at = DecodeInteger(bytes, prefix)
        PROVE  DecodeLiteral(bytes, table, prefix)
                  = IF at.is # "Done" THEN Failed(at.is)
                    ELSE IF at.value = 0 THEN NameBehind(bytes, at.used)
                    ELSE IF ~Known(at.value, table) THEN Failed("InvalidIndex")
                    ELSE ValueBehind(bytes, GetHeader(at.value, table)[1], at.used)
    BY <1>5 DEF DecodeLiteral, NameBehind, ValueBehind, Try
  <1>6. PICK all, part : all = DecodeLiteral(data, table, prefix) /\ part = DecodeLiteral(cut, table, prefix)
    OBVIOUS
  <1>7. all = IF index.is # "Done" THEN Failed(index.is)
              ELSE IF index.value = 0 THEN NameBehind(data, index.used)
              ELSE IF ~Known(index.value, table) THEN Failed("InvalidIndex")
              ELSE ValueBehind(data, GetHeader(index.value, table)[1], index.used)
    BY <1>4, <1>5, <1>6
  <1>8. part = IF less.is # "Done" THEN Failed(less.is)
               ELSE IF less.value = 0 THEN NameBehind(cut, less.used)
               ELSE IF ~Known(less.value, table) THEN Failed("InvalidIndex")
               ELSE ValueBehind(cut, GetHeader(less.value, table)[1], less.used)
    BY <1>4, <1>5, <1>6
  <1>9. index.is = "Done" /\ (index.value = 0 \/ Known(index.value, table))
    <2>1. "InvalidIndex" # "Done" /\ all.is = "Done"
      BY <1>6
    <2> QED
      BY <1>2, <1>7, <2>1
  <1>10. Delimited(data, n, index, less)
    BY <1>3, <1>4, <1>9, IntegerDelimited
  <1>11. PICK used \in 1 .. N : used = index.used
    BY <1>1, <1>10 DEF Delimited
  \* What is behind the index.
  <1> DEFINE Rest(bytes) == IF index.value = 0 THEN NameBehind(bytes, used)
                            ELSE ValueBehind(bytes, GetHeader(index.value, table)[1], used)
  <1>12. all = Rest(data)
    BY <1>7, <1>9, <1>11
  <1>13. ASSUME NEW m \in used .. N
         PROVE  Delimited(data, m, all, Rest(SubSeq(data, 1, m))) /\ all.used > used
    <2>1. used \in 0 .. Len(data) /\ m \in used .. Len(data)
      BY <1>1
    <2>2. all.is = "Done"
      BY <1>6
    <2>3. CASE index.value = 0
      <3>1. all = NameBehind(data, used)
        BY <1>12, <2>3
      <3>2. Delimited(data, m, NameBehind(data, used), NameBehind(SubSeq(data, 1, m), used))
            /\ NameBehind(data, used).used > used
        BY <2>1, <2>2, <3>1, NameDelimited
      <3> QED
        BY <2>3, <3>1, <3>2
    <2>4. CASE index.value # 0
      <3>1. PICK name : name = GetHeader(index.value, table)[1]
        OBVIOUS
      <3>2. all = ValueBehind(data, name, used)
        BY <1>12, <2>4, <3>1
      <3>3. Delimited(data, m, ValueBehind(data, name, used), ValueBehind(SubSeq(data, 1, m), name, used))
            /\ ValueBehind(data, name, used).used > used
        BY <2>1, <2>2, <3>2, ValueDelimited
      <3> QED
        BY <2>4, <3>1, <3>2, <3>3
    <2> QED
      BY <2>3, <2>4
  <1>14. all.used \in 1 .. N /\ all.used > used
    <2>1. N \in used .. N
      BY <1>11
    <2> QED
      BY <1>1, <1>13, <2>1 DEF Delimited
  <1>15. CASE n < used
    <2>1. less.is = "Incomplete"
      BY <1>10, <1>11, <1>15 DEF Delimited
    <2>2. part.is = "Incomplete"
      BY <1>2, <1>8, <2>1
    <2>3. n < all.used /\ ~(n >= all.used)
      BY <1>1, <1>11, <1>14, <1>15
    <2> QED
      BY <1>1, <1>3, <1>6, <1>14, <2>2, <2>3 DEF Delimited
  <1>16. CASE ~(n < used)
    <2>1. n \in used .. N
      BY <1>1, <1>11, <1>16
    <2>2. less = index
      BY <1>1, <1>10, <1>11, <1>16 DEF Delimited
    <2>3. part = Rest(cut)
      BY <1>8, <1>9, <1>11, <2>2
    <2> QED
      BY <1>3, <1>6, <1>13, <2>1, <2>3
  <1> QED
    BY <1>15, <1>16

\* decode_header: whatever the bytes are, a field that was read lies within them,
\* cut short anywhere it is not read at all, and more bytes change nothing.
THEOREM FieldDelimited ==
    ASSUME NEW data \in Seq(Byte), NEW n \in 0 .. Len(data), NEW table, NEW most,
           DecodeField(data, table, most).is = "Done"
    PROVE  Delimited(data, n, DecodeField(data, table, most),
                     DecodeField(SubSeq(data, 1, n), table, most))
  <1>1. PICK N \in Nat : N = Len(data) /\ n \in 0 .. N
    BY LenProperties
  <1>2. PICK part \in Seq(Byte) : part = SubSeq(data, 1, n) /\ Len(part) = n
                                   /\ \A i \in 1 .. n : part[i] = data[i]
    BY FirstBytes
  <1>3. data # <<>>
    <2>1. Failed("Incomplete").is # "Done"
      BY DEF Failed
    <2> QED
      BY <2>1 DEF DecodeField
  <1>4. PICK all, less : all = DecodeField(data, table, most) /\ less = DecodeField(part, table, most)
    OBVIOUS
  <1>5. ASSUME NEW bytes \in Seq(Byte), bytes # <<>>
        PROVE  DecodeField(bytes, table, most)
                  = IF bytes[1] >= 128 THEN DecodeIndexed(bytes, table)
                    ELSE IF bytes[1] >= 64 THEN DecodeLiteral(bytes, table, 6)
                    ELSE IF bytes[1] >= 32 THEN DecodeSizeUpdate(bytes, most)
                    ELSE DecodeLiteral(bytes, table, 4)
    BY <1>5 DEF DecodeField
  <1>6. PICK first : first = data[1]
    OBVIOUS
  <1>7. 4 \in Nat /\ 6 \in Nat
    OBVIOUS
  \* How the first byte says to read what follows.
  <1> DEFINE Read(bytes) == IF first >= 128 THEN DecodeIndexed(bytes, table)
                            ELSE IF first >= 64 THEN DecodeLiteral(bytes, table, 6)
                            ELSE IF first >= 32 THEN DecodeSizeUpdate(bytes, most)
                            ELSE DecodeLiteral(bytes, table, 4)
  <1>8. all = Read(data) /\ all.is = "Done"
    BY <1>3, <1>4, <1>5, <1>6
  <1>9. Delimited(data, n, all, Read(SubSeq(data, 1, n)))
    <2>1. CASE first >= 128
      BY <1>8, <2>1, IndexedDelimited
    <2>2. CASE ~(first >= 128) /\ first >= 64
      BY <1>7, <1>8, <2>2, LiteralDelimited
    <2>3. CASE ~(first >= 128) /\ ~(first >= 64) /\ first >= 32
      BY <1>8, <2>3, SizeUpdateDelimited
    <2>4. CASE ~(first >= 128) /\ ~(first >= 64) /\ ~(first >= 32)
      BY <1>7, <1>8, <2>4, LiteralDelimited
    <2> QED
      BY <2>1, <2>2, <2>3, <2>4
  <1>10. CASE n = 0
    <2>1. part = <<>>
      BY <1>2, <1>10, EmptySeq
    <2>2. less.is = "Incomplete"
      BY <1>4, <2>1 DEF DecodeField, Failed
    <2>3. all.used \in 1 .. N
      BY <1>1, <1>9 DEF Delimited
    <2> QED
      BY <1>1, <1>2, <1>4, <1>10, <2>2, <2>3 DEF Delimited
  <1>11. CASE n # 0
    <2>1. part # <<>> /\ 1 \in 1 .. n
      BY <1>1, <1>2, <1>11, EmptySeq
    <2>2. part[1] = first
      BY <1>2, <1>6, <2>1
    <2>3. less = Read(part)
      BY <1>4, <1>5, <2>1, <2>2
    <2> QED
      BY <1>2, <1>4, <1>9, <2>3
  <1> QED
    BY <1>10, <1>11

\* The same of all the places where the bytes may be cut.
LEMMA FieldCuts ==
    ASSUME NEW data \in Seq(Byte), NEW table, NEW most,
           NEW all, all = DecodeField(data, table, most), all.is = "Done"
    PROVE  /\ all.used \in 1 .. Len(data)
           /\ \A n \in 0 .. all.used - 1 : DecodeField(SubSeq(data, 1, n), table, most).is = "Incomplete"
  <1>1. PICK N \in Nat : N = Len(data)
    BY LenProperties
  <1>2. ASSUME NEW n \in 0 .. N
        PROVE  Delimited(data, n, all, DecodeField(SubSeq(data, 1, n), table, most))
    <2>1. n \in 0 .. Len(data)
      BY <1>1
    <2> QED
      BY <2>1, FieldDelimited
  <1>3. PICK used \in 1 .. N : used = all.used
    <2>1. 0 \in 0 .. N
      OBVIOUS
    <2> QED
      BY <1>1, <1>2, <2>1 DEF Delimited
  <1>4. ASSUME NEW n \in 0 .. used - 1
        PROVE  DecodeField(SubSeq(data, 1, n), table, most).is = "Incomplete"
    <2>1. n \in 0 .. N /\ n < used
      OBVIOUS
    <2> QED
      BY <1>2, <1>3, <2>1 DEF Delimited
  <1> QED
    BY <1>1, <1>3, <1>4

-------------------------------------------------------------------------------
(***************************************************************************)
(* The Huffman code, and header fields that are read back.                 *)
(***************************************************************************)

\* Bits, and sequences of them.
Bit == {0, 1}

\* The bits of a number: so many, the highest first.
LEMMA BitsAre ==
    ASSUME NEW n \in Nat, NEW count \in Nat
    PROVE  /\ BitsOf(n, count) \in Seq(Bit) /\ Len(BitsOf(n, count)) = count
           /\ \A k \in 1 .. count : BitsOf(n, count)[k] = (n \div Pow2[count - k]) % 2
  <1>1. ASSUME NEW k \in 1 .. count PROVE (n \div Pow2[count - k]) % 2 \in Bit
    <2>1. count - k \in Nat
      OBVIOUS
    <2>2. PICK p \in Nat \ {0} : p = Pow2[count - k]
      BY <2>1, Doubling
    <2>3. PICK q \in Nat : q = n \div p
      BY SMT
    <2>4. q % 2 \in Bit
      BY DEF Bit
    <2> QED
      BY <2>2, <2>3, <2>4
  <1>2. BitsOf(n, count) \in [1 .. count -> Bit]
    BY <1>1 DEF BitsOf
  <1>3. BitsOf(n, count) \in Seq(Bit)
    BY <1>2, IsASeq
  <1>4. Len(BitsOf(n, count)) = count
    BY <1>2, <1>3, LenProperties
  <1> QED
    BY <1>3, <1>4 DEF BitsOf

\* One bit more.
LEMMA BitBehind ==
    ASSUME NEW n \in Nat, NEW count \in Nat, NEW bit \in Bit
    PROVE  BitsOf(2 * n + bit, count + 1) = Append(BitsOf(n, count), bit)
  <1>1. bit \in Nat /\ bit < 2
    BY DEF Bit
  <1>2. PICK m \in Nat : m = 2 * n + bit
    BY <1>1
  <1>3. m \div 2 = n /\ m % 2 = bit
    BY <1>1, <1>2, Divided
  <1>4. count + 1 \in Nat
    OBVIOUS
  <1>5. PICK a \in Seq(Bit) : a = BitsOf(m, count + 1) /\ Len(a) = count + 1
           /\ \A k \in 1 .. count + 1 : a[k] = (m \div Pow2[count + 1 - k]) % 2
    BY <1>4, BitsAre
  <1>6. PICK b \in Seq(Bit) : b = BitsOf(n, count) /\ Len(b) = count
           /\ \A k \in 1 .. count : b[k] = (n \div Pow2[count - k]) % 2
    BY BitsAre
  <1>7. PICK c \in Seq(Bit) : c = Append(b, bit) /\ Len(c) = count + 1
           /\ (\A k \in 1 .. count : c[k] = b[k]) /\ c[count + 1] = bit
    <2>1. /\ Append(b, bit) \in Seq(Bit) /\ Len(Append(b, bit)) = Len(b) + 1
          /\ \A k \in 1 .. Len(b) : Append(b, bit)[k] = b[k]
          /\ Append(b, bit)[Len(b) + 1] = bit
      BY AppendProperties
    <2> QED
      BY <1>6, <2>1
  <1>8. ASSUME NEW k \in 1 .. count PROVE a[k] = c[k]
    <2>1. k \in 1 .. count + 1 /\ count - k \in Nat /\ count + 1 - k \in Nat \ {0} /\ (count + 1 - k) - 1 = count - k
      OBVIOUS
    <2>2. PICK p \in Nat \ {0} : p = Pow2[count - k] /\ Pow2[count + 1 - k] = 2 * p
      BY <2>1, Doubling
    <2>3. m \div (p * 2) = (m \div 2) \div p
      <3>1. 2 \in Nat \ {0}
        OBVIOUS
      <3> QED
        BY <3>1, DividedTwice
    <2>4. p * 2 = 2 * p
      OBVIOUS
    <2>5. m \div Pow2[count + 1 - k] = n \div p
      BY <1>3, <2>2, <2>3, <2>4
    <2> QED
      BY <1>5, <1>6, <1>7, <2>1, <2>2, <2>5
  <1>9. a[count + 1] = c[count + 1]
    <2>1. count + 1 \in 1 .. count + 1 /\ count + 1 - (count + 1) = 0
      OBVIOUS
    <2>2. Pow2[0] = 1 /\ m \div 1 = m
      BY Doubling
    <2> QED
      BY <1>3, <1>5, <1>7, <2>1, <2>2
  <1>10. ASSUME NEW k \in 1 .. count + 1 PROVE a[k] = c[k]
    <2>1. k = count + 1 \/ k \in 1 .. count
      OBVIOUS
    <2> QED
      BY <1>8, <1>9, <2>1
  <1>11. a = c
    BY <1>5, <1>7, <1>10, SeqEqual
  <1> QED
    BY <1>2, <1>5, <1>6, <1>7, <1>11

\* No bits.
LEMMA NoBits == \A n \in Nat : BitsOf(n, 0) = <<>>
  <1> SUFFICES ASSUME NEW n \in Nat PROVE BitsOf(n, 0) = <<>>
    OBVIOUS
  <1>1. 0 \in Nat
    OBVIOUS
  <1>2. BitsOf(n, 0) \in Seq(Bit) /\ Len(BitsOf(n, 0)) = 0
    BY <1>1, BitsAre
  <1> QED
    BY <1>2, EmptySeq

\* The number that some bits stand for, bit by bit.
NumberUpTo(bits, u) ==
    /\ u \in [0 .. Len(bits) -> Nat]
    /\ u[0] = 0 /\ \A k \in 1 .. Len(bits) : u[k] = 2 * u[k - 1] + bits[k]
    /\ u[Len(bits)] = NumberOf(bits)

\* NumberOf goes through the bits like this.
LEMMA NumberSteps ==
    ASSUME NEW bits \in Seq(Bit)
    PROVE  \E u : NumberUpTo(bits, u)
  <1>1. PICK n \in Nat : n = Len(bits)
    BY LenProperties
  <1>2. \A k \in 1 .. n : bits[k] \in Nat
    <2>1. \A k \in 1 .. n : bits[k] \in Bit
      BY <1>1, ElementOfSeq
    <2> QED
      BY <2>1 DEF Bit
  <1>3. PICK step : step = [k \in 1 .. n |-> [x \in Nat |-> 2 * x + bits[k]]]
    OBVIOUS
  <1>4. step \in Successors(Nat, n)
    <2>1. ASSUME NEW k \in 1 .. n, NEW x \in Nat PROVE 2 * x + bits[k] \in Nat
      BY <1>2
    <2> QED
      BY <1>3, <2>1 DEF Successors
  <1>5. Chained(Nat, n, 0, step)
    <2>1. 0 \in Nat
      OBVIOUS
    <2> QED
      BY <1>4, <2>1, Recursion
  <1>6. PICK f \in [0 .. n -> Nat] : f[0] = 0 /\ \A k \in 1 .. n : f[k] = step[k][f[k - 1]]
    BY <1>5 DEF Chained
  <1>7. ASSUME NEW k \in 1 .. n PROVE f[k] = 2 * f[k - 1] + bits[k]
    <2>1. f[k - 1] \in Nat
      <3>1. k - 1 \in 0 .. n
        OBVIOUS
      <3> QED
        BY <1>6, <3>1
    <2> QED
      BY <1>3, <1>6, <2>1
  <1> DEFINE Is(g) == g = [k \in 0 .. Len(bits) |-> IF k = 0 THEN 0 ELSE 2 * g[k - 1] + bits[k]]
             chosen == CHOOSE g : Is(g)
  <1>8. NumberOf(bits) = chosen[n]
    BY <1>1 DEF NumberOf
  <1>9. Is(f)
    <2>1. \A k \in 0 .. n : f[k] = IF k = 0 THEN 0 ELSE 2 * f[k - 1] + bits[k]
      BY <1>6, <1>7
    <2>2. f = [k \in 0 .. n |-> f[k]]
      BY <1>6
    <2> QED
      BY <1>1, <2>1, <2>2
  <1>10. Is(chosen)
    <2> HIDE DEF Is
    <2> QED
      BY <1>9
  <1>11. chosen = [k \in 0 .. n |-> IF k = 0 THEN 0 ELSE 2 * chosen[k - 1] + bits[k]]
    BY <1>1, <1>10
  <1> HIDE DEF Is, chosen
  <1>12. chosen[0] = 0 /\ \A k \in 1 .. n : chosen[k] = 2 * chosen[k - 1] + bits[k]
    BY <1>11
  <1>13. chosen \in [0 .. n -> Nat]
    <2> DEFINE P == {k \in 0 .. n : chosen[k] \in Nat}
    <2>1. 0 \in P
      BY <1>12
    <2>2. ASSUME NEW k \in 1 .. n, k - 1 \in P PROVE k \in P
      <3>1. PICK x \in Nat, bit \in Nat : x = chosen[k - 1] /\ bit = bits[k]
        BY <1>2, <2>2
      <3>2. chosen[k] = 2 * x + bit
        BY <1>12, <3>1, Zenon
      <3>3. 2 * x + bit \in Nat /\ k \in 0 .. n
        OBVIOUS
      <3> QED
        BY <3>2, <3>3
    <2>3. \A k \in 0 .. n : k \in P
      <3> HIDE DEF P
      <3> QED
        BY <2>1, <2>2, UpTo
    <2>4. chosen = [k \in 0 .. n |-> chosen[k]]
      BY <1>11
    <2> QED
      BY <2>3, <2>4
  <1> QED
    BY <1>1, <1>8, <1>12, <1>13 DEF NumberUpTo

\* Bits are what they were behind the number they stand for.
LEMMA BitsOfNumber ==
    ASSUME NEW bits \in Seq(Bit)
    PROVE  /\ NumberOf(bits) \in Nat /\ NumberOf(bits) < Pow2[Len(bits)]
           /\ BitsOf(NumberOf(bits), Len(bits)) = bits
  <1>1. PICK n \in Nat : n = Len(bits)
    BY LenProperties
  <1>2. PICK u : NumberUpTo(bits, u)
    BY NumberSteps
  <1>3. /\ u \in [0 .. n -> Nat]
        /\ u[0] = 0 /\ \A k \in 1 .. n : u[k] = 2 * u[k - 1] + bits[k]
        /\ u[n] = NumberOf(bits)
    BY <1>1, <1>2 DEF NumberUpTo
  <1> DEFINE P == {k \in 0 .. n : u[k] < Pow2[k] /\ BitsOf(u[k], k) = SubSeq(bits, 1, k)}
  <1>4. 0 \in P
    <2>1. 0 \in 0 .. n /\ 0 \in Nat
      OBVIOUS
    <2>2. SubSeq(bits, 1, 0) \in Seq(Bit) /\ Len(SubSeq(bits, 1, 0)) = 0
      BY <1>1, <2>1, Firsts
    <2>3. SubSeq(bits, 1, 0) = <<>>
      BY <2>2, EmptySeq
    <2>4. u[0] < Pow2[0]
      BY <1>3, Doubling
    <2>5. BitsOf(u[0], 0) = <<>>
      BY <1>3, <2>1, NoBits
    <2> QED
      BY <2>1, <2>3, <2>4, <2>5
  <1>5. ASSUME NEW k \in 1 .. n, k - 1 \in P PROVE k \in P
    <2>1. k \in 0 .. n /\ k - 1 \in Nat /\ (k - 1) + 1 = k /\ k \in Nat \ {0} /\ k # 0 /\ k \in 0 .. Len(bits)
      BY <1>1
    <2>2. PICK x \in Nat : x = u[k - 1] /\ x < Pow2[k - 1] /\ BitsOf(x, k - 1) = SubSeq(bits, 1, k - 1)
      BY <1>3, <1>5
    <2>3. PICK bit \in Bit : bit = bits[k]
      BY <1>1, ElementOfSeq
    <2>4. u[k] = 2 * x + bit
      BY <1>3, <2>2, <2>3
    <2>5. BitsOf(2 * x + bit, (k - 1) + 1) = Append(BitsOf(x, k - 1), bit)
      BY <2>1, BitBehind
    <2>6. SubSeq(bits, 1, k) = Append(SubSeq(bits, 1, k - 1), bits[k])
      BY <2>1, Firsts
    <2>7. BitsOf(u[k], k) = SubSeq(bits, 1, k)
      BY <2>1, <2>2, <2>3, <2>4, <2>5, <2>6
    <2>8. u[k] < Pow2[k]
      <3>1. PICK p \in Nat : p = Pow2[k - 1] /\ Pow2[k] = 2 * p
        BY <2>1, Doubling
      <3>2. bit \in Nat /\ bit < 2
        BY DEF Bit
      <3> QED
        BY <2>2, <2>4, <3>1, <3>2
    <2> QED
      BY <2>1, <2>7, <2>8
  <1>6. n \in P
    <2> HIDE DEF P
    <2>1. \A k \in 0 .. n : k \in P
      BY <1>4, <1>5, UpTo
    <2> QED
      BY <2>1
  <1>7. SubSeq(bits, 1, n) = bits
    BY <1>1, SubSeqFull
  <1>8. n \in 0 .. n
    OBVIOUS
  <1> QED
    BY <1>1, <1>3, <1>6, <1>7, <1>8

\* The bits of encoded data.
LEMMA DataBitsAre ==
    ASSUME NEW data \in Seq(Byte)
    PROVE  /\ DataBits(data) \in Seq(Bit) /\ Len(DataBits(data)) = 8 * Len(data)
           /\ \A k \in 1 .. Len(data), i \in 1 .. 8 :
                 DataBits(data)[8 * (k - 1) + i] = BitsOf(data[k], 8)[i]
  <1>1. PICK n \in Nat : n = Len(data) /\ DOMAIN data = 1 .. n
    BY LenProperties
  <1>2. PICK pieces : pieces = [k \in 1 .. n |-> BitsOf(data[k], 8)]
    OBVIOUS
  <1>3. ASSUME NEW k \in 1 .. n PROVE pieces[k] \in Seq(Bit) /\ Len(pieces[k]) = 8
    <2>1. data[k] \in Nat
      <3>1. data[k] \in Byte
        BY <1>1, ElementOfSeq
      <3> QED
        BY <3>1, BytesAreNumbers
    <2>2. 8 \in Nat
      OBVIOUS
    <2>3. BitsOf(data[k], 8) \in Seq(Bit) /\ Len(BitsOf(data[k], 8)) = 8
      BY <2>1, <2>2, BitsAre
    <2> QED
      BY <1>2, <2>3
  <1>4. pieces \in Seq(Seq(Bit)) /\ Len(pieces) = n
    <2>1. pieces \in [1 .. n -> Seq(Bit)]
      BY <1>2, <1>3
    <2>2. pieces \in Seq(Seq(Bit))
      BY <2>1, SeqDef
    <2> QED
      BY <2>1, <2>2, LenProperties
  <1>5. pieces \in InPieces(Bit, 8)
    BY <1>3, <1>4 DEF InPieces
  <1>6. FlattenSeq(pieces) \in Seq(Bit) /\ MadeOf(FlattenSeq(pieces), pieces, 8)
    <2>1. 8 \in Nat
      OBVIOUS
    <2> QED
      BY <1>5, <2>1, EqualPieces
  <1>7. DataBits(data) = FlattenSeq(pieces)
    BY <1>1, <1>2 DEF DataBits
  <1>8. PICK whole : whole = DataBits(data)
    OBVIOUS
  <1>9. /\ Len(whole) = 8 * n
        /\ \A k \in 1 .. n, i \in 1 .. 8 : whole[8 * (k - 1) + i] = pieces[k][i]
    BY <1>4, <1>6, <1>7, <1>8 DEF MadeOf
  <1>10. ASSUME NEW k \in 1 .. n, NEW i \in 1 .. 8
         PROVE  whole[8 * (k - 1) + i] = BitsOf(data[k], 8)[i]
    BY <1>2, <1>9
  <1> QED
    BY <1>1, <1>6, <1>7, <1>8, <1>9, <1>10

\* Eight bits make a byte, and are its bits.
LEMMA ByteOfBits ==
    ASSUME NEW bits \in Seq(Bit), Len(bits) = 8
    PROVE  NumberOf(bits) \in Byte /\ BitsOf(NumberOf(bits), 8) = bits
  <1>1. Pow2[8] = 256
    <2>1. 0 \in Nat /\ 0 + 7 = 7 /\ 8 \in Nat \ {0} /\ 8 - 1 = 7
      OBVIOUS
    <2>2. Pow2[7] = 128 * Pow2[0]
      BY <2>1, SevenMore
    <2>3. Pow2[0] = 1 /\ Pow2[8] = 2 * Pow2[7]
      BY <2>1, Doubling
    <2> QED
      BY <2>2, <2>3
  <1>2. NumberOf(bits) \in Nat /\ NumberOf(bits) < Pow2[8] /\ BitsOf(NumberOf(bits), 8) = bits
    <2>1. /\ NumberOf(bits) \in Nat /\ NumberOf(bits) < Pow2[Len(bits)]
          /\ BitsOf(NumberOf(bits), Len(bits)) = bits
      BY BitsOfNumber
    <2> QED
      BY <2>1, Zenon
  <1>3. PICK n \in Nat : n = NumberOf(bits) /\ n < 256
    BY <1>1, <1>2
  <1>4. n \in Byte
    <2>1. n < 256
      BY <1>3, Zenon
    <2>2. n \in 0 .. 255
      BY <2>1
    <2> QED
      BY <2>2 DEF Byte
  <1> QED
    BY <1>2, <1>3, <1>4

\* Whole bytes have the bits that they were made of.
LEMMA BytesBack ==
    ASSUME NEW bits \in Seq(Bit), NEW m \in Nat, Len(bits) = 8 * m
    PROVE  /\ BytesOf(bits) \in Seq(Byte) /\ Len(BytesOf(bits)) = m
           /\ DataBits(BytesOf(bits)) = bits
  <1>1. PICK data : data = BytesOf(bits)
    OBVIOUS
  <1>2. data = [k \in 1 .. m |-> NumberOf(SubSeq(bits, 8 * k - 7, 8 * k))]
    <2>1. (8 * m) \div 8 = m
      BY SMT
    <2> QED
      BY <1>1, <2>1 DEF BytesOf
  <1>3. ASSUME NEW k \in 1 .. m
        PROVE  /\ data[k] \in Byte
               /\ \A i \in 1 .. 8 : BitsOf(data[k], 8)[i] = bits[8 * (k - 1) + i]
    <2>1. PICK part : part = SubSeq(bits, 8 * k - 7, 8 * k)
      OBVIOUS
    <2>2. 8 * k - 7 \in Int /\ 8 * k \in Int /\ \A j \in 8 * k - 7 .. 8 * k : bits[j] \in Bit
      <3>1. \A j \in 8 * k - 7 .. 8 * k : j \in 1 .. Len(bits)
        OBVIOUS
      <3>2. \A j \in 8 * k - 7 .. 8 * k : bits[j] \in Bit
        BY <3>1, ElementOfSeq
      <3> QED
        BY <3>2
    <2>3. /\ part \in Seq(Bit)
          /\ Len(part) = IF 8 * k - 7 <= 8 * k THEN 8 * k - (8 * k - 7) + 1 ELSE 0
          /\ \A i \in 1 .. 8 * k - (8 * k - 7) + 1 : part[i] = bits[8 * k - 7 + i - 1]
      BY <2>1, <2>2, SubSeqProperties
    <2>4. Len(part) = 8 /\ \A i \in 1 .. 8 : part[i] = bits[8 * (k - 1) + i]
      <3>1. 8 * k - 7 <= 8 * k /\ 8 * k - (8 * k - 7) + 1 = 8
        OBVIOUS
      <3>2. \A i \in 1 .. 8 : 8 * k - 7 + i - 1 = 8 * (k - 1) + i
        OBVIOUS
      <3> QED
        BY <2>3, <3>1, <3>2
    <2>5. NumberOf(part) \in Byte /\ BitsOf(NumberOf(part), 8) = part
      BY <2>3, <2>4, ByteOfBits
    <2>6. data[k] = NumberOf(part)
      BY <1>2, <2>1
    <2> QED
      BY <2>4, <2>5, <2>6
  <1>4. data \in Seq(Byte) /\ Len(data) = m
    <2>1. data \in [1 .. m -> Byte]
      BY <1>2, <1>3
    <2>2. data \in Seq(Byte)
      BY <2>1, SeqDef
    <2> QED
      BY <2>1, <2>2, LenProperties
  <1>5. PICK back \in Seq(Bit) : back = DataBits(data) /\ Len(back) = 8 * m
           /\ \A k \in 1 .. m, i \in 1 .. 8 : back[8 * (k - 1) + i] = BitsOf(data[k], 8)[i]
    BY <1>4, DataBitsAre
  <1>6. ASSUME NEW j \in 1 .. 8 * m PROVE back[j] = bits[j]
    <2>1. PICK k \in 1 .. m, i \in 1 .. 8 : j = 8 * (k - 1) + i
      <3>1. PICK q \in Nat, r \in 0 .. 7 : j - 1 = 8 * q + r
        <4>1. (j - 1) \div 8 \in Nat /\ (j - 1) % 8 \in 0 .. 7 /\ j - 1 = 8 * ((j - 1) \div 8) + ((j - 1) % 8)
          OBVIOUS
        <4> QED
          BY <4>1
      <3>2. q + 1 \in 1 .. m /\ r + 1 \in 1 .. 8 /\ j = 8 * ((q + 1) - 1) + (r + 1)
        BY <3>1
      <3> QED
        BY <3>2
    <2> QED
      BY <1>3, <1>5, <2>1
  <1>7. back = bits
    BY <1>5, <1>6, SeqEqual
  <1> QED
    BY <1>1, <1>4, <1>5, <1>7

\* Codes and leaves.
LEMMA CodesAre ==
    ASSUME NEW s \in Symbols
    PROVE  /\ CodeOf(s)[1] \in Nat /\ CodeOf(s)[2] \in 1 .. 30 /\ CodeOf(s)[1] < Pow2[CodeOf(s)[2]]
           /\ CodeOf(s) = <<CodeOf(s)[1], CodeOf(s)[2]>>
           /\ CodeOf(s) \notin Inner
           /\ \A t \in Symbols : CodeOf(s) = CodeOf(t) => s = t
  <1>1. /\ CodeOf(s) \in Nat \X (1 .. 30)
        /\ CodeOf(s)[1] < Pow2[CodeOf(s)[2]]
        /\ CodeOf(s) \notin Inner
        /\ \A t \in Symbols : CodeOf(s) = CodeOf(t) => s = t
    BY HuffmanAssumption
  <1>2. PICK code \in Nat \X (1 .. 30) : code = CodeOf(s)
    BY <1>1
  <1>3. code[1] \in Nat /\ code[2] \in 1 .. 30 /\ code = <<code[1], code[2]>>
    OBVIOUS
  <1> QED
    BY <1>1, <1>2, <1>3

\* The leaves of the tree are the symbols at their codes, and no inner node is one.
LEMMA LeavesAre ==
    /\ \A node \in DOMAIN Leaf : Leaf[node] \in Symbols /\ CodeOf(Leaf[node]) = node
    /\ \A s \in Symbols : CodeOf(s) \in DOMAIN Leaf /\ Leaf[CodeOf(s)] = s
    /\ \A node \in Inner : node \notin DOMAIN Leaf
  <1>1. DOMAIN Leaf = {CodeOf(s) : s \in Symbols}
    BY DEF Leaf
  <1>2. ASSUME NEW node \in DOMAIN Leaf PROVE Leaf[node] \in Symbols /\ CodeOf(Leaf[node]) = node
    <2>1. \E s \in Symbols : CodeOf(s) = node
      BY <1>1
    <2>2. Leaf[node] = CHOOSE s \in Symbols : CodeOf(s) = node
      BY <1>1 DEF Leaf
    <2> QED
      BY <2>1, <2>2
  <1>3. ASSUME NEW s \in Symbols PROVE CodeOf(s) \in DOMAIN Leaf /\ Leaf[CodeOf(s)] = s
    <2>1. CodeOf(s) \in DOMAIN Leaf
      BY <1>1
    <2>2. Leaf[CodeOf(s)] \in Symbols /\ CodeOf(Leaf[CodeOf(s)]) = CodeOf(s)
      BY <1>2, <2>1
    <2> QED
      BY <2>1, <2>2, CodesAre
  <1>4. ASSUME NEW node \in Inner PROVE node \notin DOMAIN Leaf
    <2>1. \A s \in Symbols : CodeOf(s) # node
      BY <1>4, CodesAre
    <2> QED
      BY <1>1, <2>1
  <1> QED
    BY <1>2, <1>3, <1>4

\* One sequence more.
LEMMA FlattenedBehind ==
    ASSUME NEW S, NEW seqs \in Seq(Seq(S)), NEW x \in Seq(S)
    PROVE  FlattenSeq(Append(seqs, x)) = FlattenSeq(seqs) \o x
  <1>1. PICK n \in Nat : n = Len(seqs)
    BY LenProperties
  <1>2. PICK T : T = Seq(S)
    OBVIOUS
  <1>3. PICK f \in [0 .. n -> T] :
           /\ f[0] = <<>> /\ f[n] = FlattenSeq(seqs)
           /\ \A k \in 1 .. n : f[k] = f[k - 1] \o seqs[k]
    BY <1>1, <1>2, Flattened
  <1>4. PICK more \in Seq(T) : more = Append(seqs, x) /\ Len(more) = n + 1
           /\ (\A k \in 1 .. n : more[k] = seqs[k]) /\ more[n + 1] = x
    <2>1. /\ Append(seqs, x) \in Seq(Seq(S)) /\ Len(Append(seqs, x)) = Len(seqs) + 1
          /\ \A k \in 1 .. Len(seqs) : Append(seqs, x)[k] = seqs[k]
          /\ Append(seqs, x)[Len(seqs) + 1] = x
      BY AppendProperties
    <2> QED
      BY <1>1, <1>2, <2>1
  <1>5. PICK g \in [0 .. n + 1 -> T] :
           /\ g[0] = <<>> /\ g[n + 1] = FlattenSeq(more)
           /\ \A k \in 1 .. n + 1 : g[k] = g[k - 1] \o more[k]
    <2>1. \E g \in [0 .. Len(more) -> Seq(S)] :
             /\ g[0] = <<>> /\ g[Len(more)] = FlattenSeq(more)
             /\ \A k \in 1 .. Len(more) : g[k] = g[k - 1] \o more[k]
      <3>1. more \in Seq(Seq(S))
        BY <1>2, <1>4
      <3> QED
        BY <3>1, Flattened
    <2> QED
      BY <1>2, <1>4, <2>1
  <1> DEFINE P == {k \in 0 .. n : g[k] = f[k]}
  <1>6. 0 \in P
    BY <1>3, <1>5
  <1>7. ASSUME NEW k \in 1 .. n, k - 1 \in P PROVE k \in P
    <2>1. k \in 1 .. n + 1 /\ k \in 0 .. n /\ g[k - 1] = f[k - 1]
      BY <1>7
    <2>2. g[k] = f[k - 1] \o seqs[k]
      BY <1>4, <1>5, <2>1
    <2>3. g[k] = f[k]
      BY <1>3, <2>2
    <2> QED
      BY <2>1, <2>3
  <1>8. n \in P
    <2> HIDE DEF P
    <2>1. \A k \in 0 .. n : k \in P
      BY <1>6, <1>7, UpTo
    <2> QED
      BY <2>1
  <1>9. g[n + 1] = g[n] \o x
    <2>1. n + 1 \in 1 .. n + 1 /\ (n + 1) - 1 = n
      OBVIOUS
    <2> QED
      BY <1>4, <1>5, <2>1
  <1> QED
    BY <1>3, <1>4, <1>5, <1>8, <1>9

\* The codes of a text, one behind the other.
CodeOfBits(s) == BitsOf(CodeOf(s)[1], CodeOf(s)[2])
Words(text) == [k \in DOMAIN text |-> CodeOfBits(text[k])]

\* Every byte is a symbol.
LEMMA OctetIsSymbol == Byte \subseteq Symbols
  BY DEF Byte, Symbols, Eos

\* The code of a symbol is a sequence of bits, of the length the table gives.
LEMMA CodeIsBits ==
    ASSUME NEW s \in Symbols
    PROVE  CodeOfBits(s) \in Seq(Bit) /\ Len(CodeOfBits(s)) = CodeOf(s)[2] /\ CodeOf(s)[2] \in Nat \ {0}
  <1>1. PICK c \in Nat, l \in Nat \ {0} : c = CodeOf(s)[1] /\ l = CodeOf(s)[2]
    BY CodesAre
  <1>2. BitsOf(c, l) \in Seq(Bit) /\ Len(BitsOf(c, l)) = l
    BY BitsAre
  <1> QED
    BY <1>1, <1>2 DEF CodeOfBits

\* The code of a text is that of its bytes, one behind the other.
LEMMA WordsAre ==
    ASSUME NEW text \in Seq(Byte)
    PROVE  /\ Words(text) \in Seq(Seq(Bit)) /\ Len(Words(text)) = Len(text)
           /\ \A k \in 1 .. Len(text) : Words(text)[k] = CodeOfBits(text[k])
           /\ CodeBits(text) = FlattenSeq(Words(text)) /\ CodeBits(text) \in Seq(Bit)
  <1>1. PICK n \in Nat : n = Len(text) /\ DOMAIN text = 1 .. n
    BY LenProperties
  <1>2. PICK words : words = Words(text)
    OBVIOUS
  <1>3. words = [k \in 1 .. n |-> CodeOfBits(text[k])]
    BY <1>1, <1>2 DEF Words
  <1>4. ASSUME NEW k \in 1 .. n PROVE words[k] \in Seq(Bit)
    <2>1. text[k] \in Symbols
      <3>1. text[k] \in Byte
        BY <1>1, ElementOfSeq
      <3> QED
        BY <3>1, OctetIsSymbol
    <2>2. CodeOfBits(text[k]) \in Seq(Bit)
      BY <2>1, CodeIsBits
    <2> QED
      BY <1>3, <2>2
  <1>5. words \in Seq(Seq(Bit)) /\ Len(words) = n
    <2>1. words \in [1 .. n -> Seq(Bit)]
      BY <1>3, <1>4
    <2>2. words \in Seq(Seq(Bit))
      BY <2>1, SeqDef
    <2> QED
      BY <2>1, <2>2, LenProperties
  <1>6. CodeBits(text) = FlattenSeq(words)
    BY <1>1, <1>3 DEF CodeBits, CodeOfBits
  <1>7. FlattenSeq(words) \in Seq(Bit)
    <2>1. PICK T : T = Seq(Bit)
      OBVIOUS
    <2>2. PICK f \in [0 .. n -> T] : f[n] = FlattenSeq(words)
      BY <1>5, <2>1, Flattened
    <2>3. n \in 0 .. n
      OBVIOUS
    <2> QED
      BY <2>1, <2>2, <2>3
  <1> QED
    BY <1>1, <1>2, <1>3, <1>5, <1>6, <1>7

\* One byte more.
LEMMA CodeBehind ==
    ASSUME NEW text \in Seq(Byte), NEW s \in Byte
    PROVE  CodeBits(Append(text, s)) = CodeBits(text) \o CodeOfBits(s)
  <1>1. PICK n \in Nat : n = Len(text)
    BY LenProperties
  <1>2. PICK more \in Seq(Byte) : more = Append(text, s) /\ Len(more) = n + 1
           /\ (\A k \in 1 .. n : more[k] = text[k]) /\ more[n + 1] = s
    <2>1. /\ Append(text, s) \in Seq(Byte) /\ Len(Append(text, s)) = Len(text) + 1
          /\ \A k \in 1 .. Len(text) : Append(text, s)[k] = text[k]
          /\ Append(text, s)[Len(text) + 1] = s
      BY AppendProperties
    <2> QED
      BY <1>1, <2>1
  <1>3. PICK T : T = Seq(Bit)
    OBVIOUS
  <1>4. PICK w \in Seq(T) : w = Words(text) /\ Len(w) = n
           /\ (\A k \in 1 .. n : w[k] = CodeOfBits(text[k])) /\ CodeBits(text) = FlattenSeq(w)
    BY <1>1, <1>3, WordsAre
  <1>5. PICK v \in Seq(T) : v = Words(more) /\ Len(v) = n + 1
           /\ (\A k \in 1 .. n + 1 : v[k] = CodeOfBits(more[k])) /\ CodeBits(more) = FlattenSeq(v)
    BY <1>2, <1>3, WordsAre
  <1>6. PICK x \in T : x = CodeOfBits(s)
    <2>1. s \in Symbols
      BY OctetIsSymbol
    <2> QED
      BY <1>3, <2>1, CodeIsBits
  <1>7. PICK u \in Seq(T) : u = Append(w, x) /\ Len(u) = n + 1
           /\ (\A k \in 1 .. n : u[k] = w[k]) /\ u[n + 1] = x
    <2>1. /\ Append(w, x) \in Seq(T) /\ Len(Append(w, x)) = Len(w) + 1
          /\ \A k \in 1 .. Len(w) : Append(w, x)[k] = w[k]
          /\ Append(w, x)[Len(w) + 1] = x
      BY AppendProperties
    <2> QED
      BY <1>4, <2>1
  <1>8. ASSUME NEW k \in 1 .. n + 1 PROVE u[k] = v[k]
    <2>1. CASE k = n + 1
      BY <1>2, <1>5, <1>6, <1>7, <2>1
    <2>2. CASE k # n + 1
      <3>1. k \in 1 .. n
        BY <2>2
      <3> QED
        BY <1>2, <1>4, <1>5, <1>7, <3>1
    <2> QED
      BY <2>1, <2>2
  <1>9. u = v
    BY <1>5, <1>7, <1>8, SeqEqual
  <1>10. FlattenSeq(Append(w, x)) = FlattenSeq(w) \o x
    BY <1>3, FlattenedBehind
  <1> QED
    BY <1>2, <1>4, <1>5, <1>6, <1>7, <1>9, <1>10

\* The code of no text has no bits.
LEMMA NoCode == CodeBits(<<>>) = <<>>
  <1>1. [k \in DOMAIN <<>> |-> CodeOfBits(<<>>[k])] = <<>>
    OBVIOUS
  <1>2. CodeBits(<<>>) = FlattenSeq(<<>>)
    BY <1>1 DEF CodeBits, CodeOfBits
  <1> QED
    BY <1>2 DEF FlattenSeq

\* What the decoder of Huffman codes knows.
HuffmanState ==
    [is : {"Done", "EosEncountered", "InvalidCode"}, node : Nat \X Nat, left : Nat, text : Seq(Byte)]
Found(node, left, text) == [is |-> "Done", node |-> node, left |-> left, text |-> text]

\* What one bit makes of it.
DescendsTo(node, left, text, inLastByte, below, after) ==
    IF below \in DOMAIN Leaf
    THEN IF Leaf[below] = Eos
         THEN after = [is |-> "EosEncountered", node |-> node, left |-> left, text |-> text]
         ELSE /\ Leaf[below] \in Byte /\ Append(text, Leaf[below]) \in Seq(Byte)
              /\ after = Found(Root, 0, Append(text, Leaf[below]))
    ELSE IF below \in Inner
         THEN after = Found(below, IF inLastByte THEN left + 1 ELSE left, text)
         ELSE after = [is |-> "InvalidCode", node |-> node, left |-> left, text |-> text]

\* A leaf that is not EOS is a byte.
LEMMA LeafIsByte ==
    ASSUME NEW node \in DOMAIN Leaf, Leaf[node] # Eos
    PROVE  Leaf[node] \in Byte
  <1>1. PICK s \in Symbols : s = Leaf[node] /\ s # Eos
    BY LeavesAre
  <1>2. s \in Byte
    BY <1>1 DEF Symbols, Eos, Byte
  <1> QED
    BY <1>1, <1>2

\* One bit.
LEMMA Descends ==
    ASSUME NEW node \in Nat \X Nat, NEW left \in Nat, NEW text \in Seq(Byte),
           NEW bit \in Bit, NEW inLastByte \in BOOLEAN
    PROVE  /\ Child(node, bit) \in Nat \X Nat
           /\ Child(node, bit) = <<2 * node[1] + bit, node[2] + 1>>
           /\ DescendsTo(node, left, text, inLastByte, Child(node, bit),
                         Descend(Found(node, left, text), bit, inLastByte))
  <1>1. PICK before : before = Found(node, left, text)
    OBVIOUS
  <1>2. /\ before.is = "Done" /\ before.node = node /\ before.left = left /\ before.text = text
        /\ before = [is |-> "Done", node |-> node, left |-> left, text |-> text]
    BY <1>1 DEF Found
  <1>3. PICK below : below = Child(node, bit)
    OBVIOUS
  <1>4. below \in Nat \X Nat /\ below = <<2 * node[1] + bit, node[2] + 1>>
    <2>1. PICK a \in Nat, d \in Nat : a = node[1] /\ d = node[2]
      OBVIOUS
    <2>2. 2 * a + bit \in Nat /\ d + 1 \in Nat
      BY DEF Bit
    <2>3. <<2 * a + bit, d + 1>> \in Nat \X Nat
      BY <2>2
    <2> QED
      BY <1>3, <2>1, <2>3 DEF Child
  <1>5. PICK after : after = Descend(before, bit, inLastByte)
    OBVIOUS
  <1>6. after = IF below \in DOMAIN Leaf
                THEN IF Leaf[below] = Eos THEN [before EXCEPT !.is = "EosEncountered"]
                     ELSE [before EXCEPT !.node = Root, !.left = 0,
                                         !.text = Append(before.text, Leaf[below])]
                ELSE IF below \in Inner
                     THEN [before EXCEPT !.node = below,
                                         !.left = IF inLastByte THEN before.left + 1 ELSE before.left]
                     ELSE [before EXCEPT !.is = "InvalidCode"]
    BY <1>2, <1>3, <1>5 DEF Descend
  <1>7. DescendsTo(node, left, text, inLastByte, below, after)
    <2>1. CASE below \in DOMAIN Leaf /\ Leaf[below] = Eos
      <3>1. after = [before EXCEPT !.is = "EosEncountered"]
        BY <1>6, <2>1
      <3>2. after = [is |-> "EosEncountered", node |-> node, left |-> left, text |-> text]
        BY <1>2, <3>1
      <3> QED
        BY <2>1, <3>2 DEF DescendsTo
    <2>2. CASE below \in DOMAIN Leaf /\ Leaf[below] # Eos
      <3>1. PICK s \in Byte : s = Leaf[below]
        BY <2>2, LeafIsByte
      <3>2. Append(text, s) \in Seq(Byte)
        BY AppendProperties
      <3>3. after = [before EXCEPT !.node = Root, !.left = 0, !.text = Append(before.text, s)]
        BY <1>6, <2>2, <3>1
      <3>4. after = Found(Root, 0, Append(text, s))
        BY <1>2, <3>3 DEF Found
      <3> QED
        BY <2>2, <3>1, <3>2, <3>4 DEF DescendsTo
    <2>3. CASE below \notin DOMAIN Leaf /\ below \in Inner
      <3>1. PICK more : more = IF inLastByte THEN left + 1 ELSE left
        OBVIOUS
      <3>2. after = [before EXCEPT !.node = below, !.left = more]
        BY <1>2, <1>6, <2>3, <3>1
      <3>3. after = Found(below, more, text)
        BY <1>2, <3>2 DEF Found
      <3> QED
        BY <2>3, <3>1, <3>3 DEF DescendsTo
    <2>4. CASE below \notin DOMAIN Leaf /\ below \notin Inner
      <3>1. after = [before EXCEPT !.is = "InvalidCode"]
        BY <1>6, <2>4
      <3>2. after = [is |-> "InvalidCode", node |-> node, left |-> left, text |-> text]
        BY <1>2, <3>1
      <3> QED
        BY <2>4, <3>2 DEF DescendsTo
    <2> QED
      BY <2>1, <2>2, <2>3, <2>4
  <1> QED
    BY <1>1, <1>3, <1>4, <1>5, <1>7

\* It stays of its kind.
LEMMA DescendKept ==
    ASSUME NEW before \in HuffmanState, NEW bit \in Bit, NEW inLastByte \in BOOLEAN
    PROVE  Descend(before, bit, inLastByte) \in HuffmanState
  <1>1. CASE before.is # "Done"
    BY <1>1 DEF Descend
  <1>2. CASE before.is = "Done"
    <2>1. PICK node \in Nat \X Nat, left \in Nat, text \in Seq(Byte) :
             node = before.node /\ left = before.left /\ text = before.text
      BY DEF HuffmanState
    <2>2. before = Found(node, left, text)
      BY <1>2, <2>1 DEF HuffmanState, Found
    <2>3. PICK after : after = Descend(Found(node, left, text), bit, inLastByte)
      OBVIOUS
    <2>4. PICK below : below = Child(node, bit)
      OBVIOUS
    <2>5. DescendsTo(node, left, text, inLastByte, Child(node, bit),
                     Descend(Found(node, left, text), bit, inLastByte)) /\ below \in Nat \X Nat
      BY <2>4, Descends
    <2>6. DescendsTo(node, left, text, inLastByte, below, after) /\ below \in Nat \X Nat
      BY <2>3, <2>4, <2>5
    <2>7. \A x \in Nat \X Nat, l \in Nat, t \in Seq(Byte) : Found(x, l, t) \in HuffmanState
      BY DEF Found, HuffmanState
    <2>8. Root \in Nat \X Nat /\ 0 \in Nat /\ (IF inLastByte THEN left + 1 ELSE left) \in Nat
      BY DEF Root
    <2>9. /\ [is |-> "EosEncountered", node |-> node, left |-> left, text |-> text] \in HuffmanState
          /\ [is |-> "InvalidCode", node |-> node, left |-> left, text |-> text] \in HuffmanState
      BY DEF HuffmanState
    <2>10. CASE below \in DOMAIN Leaf
      <3>1. CASE Leaf[below] = Eos
        <4>1. after = [is |-> "EosEncountered", node |-> node, left |-> left, text |-> text]
          BY <2>6, <2>10, <3>1 DEF DescendsTo
        <4> QED
          BY <2>2, <2>3, <2>9, <4>1
      <3>2. CASE Leaf[below] # Eos
        <4>1. PICK longer \in Seq(Byte) : longer = Append(text, Leaf[below])
          BY <2>6, <2>10, <3>2 DEF DescendsTo
        <4>2. after = Found(Root, 0, longer)
          BY <2>6, <2>10, <3>2, <4>1 DEF DescendsTo
        <4> QED
          BY <2>2, <2>3, <2>7, <2>8, <4>2
      <3> QED
        BY <3>1, <3>2
    <2>11. CASE below \notin DOMAIN Leaf
      <3>1. PICK more \in Nat : more = IF inLastByte THEN left + 1 ELSE left
        BY <2>8
      <3>2. CASE below \in Inner
        <4>1. after = Found(below, more, text)
          BY <2>6, <2>11, <3>1, <3>2 DEF DescendsTo
        <4> QED
          BY <2>2, <2>3, <2>5, <2>7, <4>1
      <3>3. CASE below \notin Inner
        <4>1. after = [is |-> "InvalidCode", node |-> node, left |-> left, text |-> text]
          BY <2>6, <2>11, <3>3 DEF DescendsTo
        <4> QED
          BY <2>2, <2>3, <2>9, <4>1
      <3> QED
        BY <3>2, <3>3
    <2> QED
      BY <2>10, <2>11
  <1> QED
    BY <1>1, <1>2

\* All of them.
LEMMA DecodingSteps ==
    ASSUME NEW bits \in Seq(Bit)
    PROVE  /\ Decoding(bits) \in [0 .. Len(bits) -> HuffmanState]
           /\ Decoding(bits)[0] = Found(Root, 0, <<>>)
           /\ \A k \in 1 .. Len(bits) :
                 Decoding(bits)[k] = Descend(Decoding(bits)[k - 1], bits[k], k > Len(bits) - 8)
  <1>1. PICK n \in Nat : n = Len(bits)
    BY LenProperties
  <1>2. PICK T : T = HuffmanState
    OBVIOUS
  <1>3. PICK step : step = [k \in 1 .. n |-> [s \in T |-> Descend(s, bits[k], k > n - 8)]]
    OBVIOUS
  <1>4. step \in Successors(T, n)
    <2>1. ASSUME NEW k \in 1 .. n, NEW s \in T PROVE Descend(s, bits[k], k > n - 8) \in T
      <3>1. bits[k] \in Bit /\ (k > n - 8) \in BOOLEAN
        BY <1>1, ElementOfSeq
      <3> QED
        BY <1>2, <3>1, DescendKept
    <2> QED
      BY <1>3, <2>1 DEF Successors
  <1>5. PICK first \in T : first = Found(Root, 0, <<>>)
    <2>1. <<>> \in Seq(Byte) /\ Root \in Nat \X Nat
      BY EmptySeq DEF Root
    <2> QED
      BY <1>2, <2>1 DEF Found, HuffmanState
  <1>6. Chained(T, n, first, step)
    BY <1>4, <1>5, Recursion
  <1>7. PICK f \in [0 .. n -> T] : f[0] = first /\ \A k \in 1 .. n : f[k] = step[k][f[k - 1]]
    BY <1>6 DEF Chained
  <1>8. ASSUME NEW k \in 1 .. n PROVE f[k] = Descend(f[k - 1], bits[k], k > n - 8)
    <2>1. f[k - 1] \in T
      <3>1. k - 1 \in 0 .. n
        OBVIOUS
      <3> QED
        BY <1>7, <3>1
    <2> QED
      BY <1>3, <1>7, <2>1
  <1> DEFINE Is(g) == g = [k \in 0 .. Len(bits) |->
                              IF k = 0 THEN [is |-> "Done", node |-> Root, left |-> 0, text |-> <<>>]
                              ELSE Descend(g[k - 1], bits[k], k > Len(bits) - 8)]
             chosen == CHOOSE g : Is(g)
  <1>9. Decoding(bits) = chosen
    BY DEF Decoding
  <1>10. Is(f)
    <2>1. \A k \in 0 .. n : f[k] = IF k = 0 THEN [is |-> "Done", node |-> Root, left |-> 0, text |-> <<>>]
                                   ELSE Descend(f[k - 1], bits[k], k > n - 8)
      BY <1>5, <1>7, <1>8 DEF Found
    <2>2. f = [k \in 0 .. n |-> f[k]]
      BY <1>7
    <2> QED
      BY <1>1, <2>1, <2>2
  <1>11. Is(chosen)
    <2> HIDE DEF Is
    <2> QED
      BY <1>10
  <1>12. chosen = [k \in 0 .. n |-> IF k = 0 THEN [is |-> "Done", node |-> Root, left |-> 0, text |-> <<>>]
                                    ELSE Descend(chosen[k - 1], bits[k], k > n - 8)]
    BY <1>1, <1>11
  <1> HIDE DEF Is, chosen
  <1>13. chosen[0] = first /\ \A k \in 1 .. n : chosen[k] = Descend(chosen[k - 1], bits[k], k > n - 8)
    BY <1>5, <1>12 DEF Found
  <1>14. chosen \in [0 .. n -> T]
    <2> DEFINE P == {k \in 0 .. n : chosen[k] = f[k]}
    <2>1. 0 \in P
      BY <1>7, <1>13
    <2>2. ASSUME NEW k \in 1 .. n, k - 1 \in P PROVE k \in P
      <3>1. chosen[k - 1] = f[k - 1] /\ k \in 0 .. n
        BY <2>2
      <3>2. chosen[k] = f[k]
        BY <1>8, <1>13, <3>1
      <3> QED
        BY <3>1, <3>2
    <2>3. \A k \in 0 .. n : k \in P
      <3> HIDE DEF P
      <3> QED
        BY <2>1, <2>2, UpTo
    <2>4. chosen = [k \in 0 .. n |-> chosen[k]]
      BY <1>12
    <2> QED
      BY <1>7, <2>3, <2>4
  <1> QED
    BY <1>1, <1>2, <1>5, <1>9, <1>13, <1>14

\* One more bit behind what was read.
LEMMA BitAppended ==
    ASSUME NEW before \in Seq(Bit), NEW a \in Nat, NEW d \in Nat, NEW bit \in Bit
    PROVE  /\ before \o BitsOf(2 * a + bit, d + 1) = Append(before \o BitsOf(a, d), bit)
           /\ before \o BitsOf(2 * a + bit, d + 1) \in Seq(Bit)
  <1>1. PICK some \in Seq(Bit) : some = BitsOf(a, d)
    BY BitsAre
  <1>2. BitsOf(2 * a + bit, d + 1) = Append(BitsOf(a, d), bit)
    BY BitBehind
  <1>3. PICK one \in Seq(Bit) : one = <<bit>>
    <2>1. <<bit>> \in Seq(Bit)
      OBVIOUS
    <2> QED
      BY <2>1
  <1>4. Append(some, bit) = some \o one /\ Append(before \o some, bit) = (before \o some) \o one
        /\ before \o some \in Seq(Bit)
    <2>1. before \o some \in Seq(Bit)
      BY ConcatProperties
    <2> QED
      BY <1>3, <2>1, AppendIsConcat
  <1>5. (before \o some) \o one = before \o (some \o one)
    BY ConcatAssociative
  <1>6. Append(before \o some, bit) \in Seq(Bit)
    BY <1>4, AppendProperties
  <1> QED
    BY <1>1, <1>2, <1>4, <1>5, <1>6

\* What was read up to the k-th bit is the code of the text and the way to the
\* node, and the bits on that way are counted in the last byte.
ReadThrough(bits, k, state) ==
    /\ SubSeq(bits, 1, k) = CodeBits(state.text) \o BitsOf(state.node[1], state.node[2])
    /\ \/ state.node[2] <= state.left
       \/ k <= Len(bits) - 8
       \/ k - (Len(bits) - 8) <= state.left

\* One bit keeps it.
LEMMA ReadOn ==
    ASSUME NEW bits \in Seq(Bit), NEW k \in 1 .. Len(bits), NEW node \in Nat \X Nat, NEW left \in Nat,
           NEW text \in Seq(Byte), ReadThrough(bits, k - 1, Found(node, left, text)),
           Descend(Found(node, left, text), bits[k], k > Len(bits) - 8).is = "Done"
    PROVE  ReadThrough(bits, k, Descend(Found(node, left, text), bits[k], k > Len(bits) - 8))
  <1>1. PICK n \in Nat : n = Len(bits)
    BY LenProperties
  <1>2. PICK bit \in Bit : bit = bits[k]
    BY ElementOfSeq
  <1>3. PICK inLastByte \in BOOLEAN : inLastByte = (k > n - 8)
    <2>1. (k > n - 8) \in BOOLEAN
      OBVIOUS
    <2> QED
      BY <2>1, Zenon
  <1>4. PICK a \in Nat, d \in Nat : a = node[1] /\ d = node[2] /\ node = <<a, d>>
    OBVIOUS
  <1>5. PICK after : after = Descend(Found(node, left, text), bit, inLastByte)
    OBVIOUS
  <1>6. PICK below \in Nat \X Nat : below = Child(node, bit)
           /\ below = <<2 * node[1] + bit, node[2] + 1>>
           /\ DescendsTo(node, left, text, inLastByte, below, after)
    <2>1. /\ Child(node, bit) \in Nat \X Nat
          /\ Child(node, bit) = <<2 * node[1] + bit, node[2] + 1>>
          /\ DescendsTo(node, left, text, inLastByte, Child(node, bit),
                        Descend(Found(node, left, text), bit, inLastByte))
      BY Descends
    <2> QED
      BY <1>5, <2>1
  <1>7. below[1] = 2 * a + bit /\ below[2] = d + 1 /\ 2 * a + bit \in Nat /\ d + 1 \in Nat
    <2>1. 2 * a + bit \in Nat /\ d + 1 \in Nat
      BY DEF Bit
    <2>2. below = <<2 * a + bit, d + 1>>
      BY <1>4, <1>6
    <2> QED
      BY <2>1, <2>2
  <1>8. PICK code \in Seq(Bit) : code = CodeBits(text)
    BY WordsAre
  <1>9. /\ SubSeq(bits, 1, k - 1) = code \o BitsOf(a, d)
        /\ d <= left \/ k - 1 <= n - 8 \/ (k - 1) - (n - 8) <= left
    BY <1>1, <1>4, <1>8 DEF ReadThrough, Found
  <1>10. SubSeq(bits, 1, k) = code \o BitsOf(2 * a + bit, d + 1)
    <2>1. SubSeq(bits, 1, k) = Append(SubSeq(bits, 1, k - 1), bits[k])
      <3>1. k \in 0 .. Len(bits) /\ k # 0
        BY <1>1
      <3> QED
        BY <3>1, Firsts
    <2>2. code \o BitsOf(2 * a + bit, d + 1) = Append(code \o BitsOf(a, d), bit)
      BY BitAppended
    <2> QED
      BY <1>2, <1>9, <2>1, <2>2
  <1>11. after.is = "Done"
    BY <1>1, <1>2, <1>3, <1>5
  <1>12. CASE below \in DOMAIN Leaf
    <2>1. PICK s : s = Leaf[below]
      OBVIOUS
    <2>2. s # Eos
      <3>1. SUFFICES ASSUME s = Eos PROVE FALSE
        OBVIOUS
      <3>2. after = [is |-> "EosEncountered", node |-> node, left |-> left, text |-> text]
        BY <1>6, <1>12, <2>1, <3>1 DEF DescendsTo
      <3> QED
        BY <1>11, <3>2
    <2>3. s \in Byte /\ after = Found(Root, 0, Append(text, s))
      BY <1>6, <1>12, <2>1, <2>2 DEF DescendsTo
    <2>4. s \in Symbols /\ CodeOf(s) = below
      BY <1>12, <2>1, LeavesAre
    <2>5. CodeBits(Append(text, s)) = code \o BitsOf(2 * a + bit, d + 1)
      <3>1. CodeBits(Append(text, s)) = CodeBits(text) \o CodeOfBits(s)
        BY <2>3, CodeBehind
      <3>2. CodeOfBits(s) = BitsOf(2 * a + bit, d + 1)
        BY <1>7, <2>4 DEF CodeOfBits
      <3> QED
        BY <1>8, <3>1, <3>2
    <2>6. SubSeq(bits, 1, k) = CodeBits(Append(text, s)) \o BitsOf(0, 0)
      <3>1. PICK whole \in Seq(Bit) : whole = code \o BitsOf(2 * a + bit, d + 1)
        BY BitAppended
      <3>2. whole \o <<>> = whole
        BY ConcatEmptySeq
      <3>3. BitsOf(0, 0) = <<>>
        BY NoBits
      <3> QED
        BY <1>10, <2>5, <3>1, <3>2, <3>3
    <2>7. after.node[1] = 0 /\ after.node[2] = 0 /\ after.left = 0 /\ after.text = Append(text, s)
      BY <2>3 DEF Found, Root
    <2>8. ReadThrough(bits, k, after)
      <3>1. after.node[2] <= after.left
        BY <2>7
      <3>2. SubSeq(bits, 1, k) = CodeBits(after.text) \o BitsOf(after.node[1], after.node[2])
        BY <2>6, <2>7
      <3> QED
        BY <3>1, <3>2 DEF ReadThrough
    <2> QED
      BY <1>1, <1>2, <1>3, <1>5, <2>8
  <1>13. CASE below \notin DOMAIN Leaf
    <2>1. below \in Inner
      <3>1. SUFFICES ASSUME below \notin Inner PROVE FALSE
        OBVIOUS
      <3>2. after = [is |-> "InvalidCode", node |-> node, left |-> left, text |-> text]
        BY <1>6, <1>13, <3>1 DEF DescendsTo
      <3> QED
        BY <1>11, <3>2
    <2>2. PICK more \in Nat : more = IF inLastByte THEN left + 1 ELSE left
      OBVIOUS
    <2>3. after = Found(below, more, text)
      BY <1>6, <1>13, <2>1, <2>2 DEF DescendsTo
    <2>4. after.node[1] = 2 * a + bit /\ after.node[2] = d + 1 /\ after.left = more /\ after.text = text
      BY <1>7, <2>3 DEF Found
    <2>5. d + 1 <= more \/ k <= n - 8 \/ k - (n - 8) <= more
      <3>1. CASE k > n - 8
        <4>1. more = left + 1
          BY <1>3, <2>2, <3>1
        <4> QED
          BY <1>9, <3>1, <4>1
      <3>2. CASE ~(k > n - 8)
        BY <3>2
      <3> QED
        BY <3>1, <3>2
    <2>6. ReadThrough(bits, k, after)
      BY <1>1, <1>8, <1>10, <2>4, <2>5 DEF ReadThrough
    <2> QED
      BY <1>1, <1>2, <1>3, <1>5, <2>6
  <1> QED
    BY <1>12, <1>13

\* So it holds of every bit.
LEMMA ReadSoFar ==
    ASSUME NEW bits \in Seq(Bit)
    PROVE  \A k \in 0 .. Len(bits) :
              Decoding(bits)[k].is = "Done" => ReadThrough(bits, k, Decoding(bits)[k])
  <1>1. PICK n \in Nat : n = Len(bits)
    BY LenProperties
  <1>2. PICK T : T = HuffmanState
    OBVIOUS
  <1>3. PICK after \in [0 .. n -> T] : after = Decoding(bits) /\ after[0] = Found(Root, 0, <<>>)
           /\ \A k \in 1 .. n : after[k] = Descend(after[k - 1], bits[k], k > n - 8)
    <2>1. Decoding(bits) \in [0 .. Len(bits) -> HuffmanState] /\ Decoding(bits)[0] = Found(Root, 0, <<>>)
          /\ \A k \in 1 .. Len(bits) :
                Decoding(bits)[k] = Descend(Decoding(bits)[k - 1], bits[k], k > Len(bits) - 8)
      BY DecodingSteps
    <2> QED
      BY <1>1, <1>2, <2>1
  <1> DEFINE P == {k \in 0 .. n : after[k].is = "Done" => ReadThrough(bits, k, after[k])}
  <1>4. 0 \in P
    <2>1. 0 \in 0 .. n
      OBVIOUS
    <2>2. SubSeq(bits, 1, 0) = <<>>
      BY SubSeqEmpty
    <2>3. CodeBits(<<>>) = <<>> /\ BitsOf(0, 0) = <<>> /\ <<>> \o <<>> = <<>>
      <3>1. <<>> \in Seq(Bit)
        BY EmptySeq
      <3> QED
        BY <3>1, NoCode, NoBits, ConcatEmptySeq
    <2>4. /\ after[0].node[1] = 0 /\ after[0].node[2] = 0 /\ after[0].left = 0 /\ after[0].text = <<>>
      BY <1>3 DEF Found, Root
    <2>5. ReadThrough(bits, 0, after[0])
      BY <2>2, <2>3, <2>4 DEF ReadThrough
    <2> QED
      BY <2>1, <2>5
  <1>5. ASSUME NEW k \in 1 .. n, k - 1 \in P PROVE k \in P
    <2>1. k \in 0 .. n /\ k - 1 \in 0 .. n /\ k \in 1 .. Len(bits)
      BY <1>1
    <2>2. PICK before \in T : before = after[k - 1]
      BY <1>3, <2>1
    <2>3. after[k] = Descend(before, bits[k], k > n - 8)
      BY <1>3, <2>2
    <2>4. SUFFICES ASSUME after[k].is = "Done" PROVE ReadThrough(bits, k, after[k])
      BY <2>1
    <2>5. before.is = "Done"
      <3>1. SUFFICES ASSUME before.is # "Done" PROVE FALSE
        OBVIOUS
      <3>2. after[k] = before
        BY <2>3, <3>1 DEF Descend
      <3> QED
        BY <2>4, <3>1, <3>2
    <2>6. PICK node \in Nat \X Nat, left \in Nat, text \in Seq(Byte) :
             before = [is |-> "Done", node |-> node, left |-> left, text |-> text]
      BY <1>2, <2>5 DEF HuffmanState
    <2>7. before = Found(node, left, text)
      BY <2>6 DEF Found
    <2>8. ReadThrough(bits, k - 1, Found(node, left, text))
      BY <1>5, <2>2, <2>5, <2>7
    <2>9. Descend(Found(node, left, text), bits[k], k > Len(bits) - 8).is = "Done"
      BY <1>1, <2>3, <2>4, <2>7
    <2>10. ReadThrough(bits, k, Descend(Found(node, left, text), bits[k], k > Len(bits) - 8))
      BY <2>1, <2>8, <2>9, ReadOn
    <2> QED
      BY <1>1, <2>3, <2>7, <2>10
  <1>6. \A k \in 0 .. n : k \in P
    <2> HIDE DEF P
    <2> QED
      BY <1>4, <1>5, UpTo
  <1> QED
    BY <1>1, <1>3, <1>6

\* What decodes has one reading: the code of the text is what the data starts
\* with, and less than a byte is left over, whatever the data is.
THEOREM HuffmanReadOneWay ==
    ASSUME NEW data \in Seq(Byte), DecodeHuffman(data).is = "Done"
    PROVE  LET text == DecodeHuffman(data).text
           IN /\ text \in Seq(Byte)
              /\ IsPrefix(CodeBits(text), DataBits(data))
              /\ 8 * Len(data) - Len(CodeBits(text)) < 8
  <1>1. PICK m \in Nat : m = Len(data)
    BY LenProperties
  <1>2. PICK bits \in Seq(Bit) : bits = DataBits(data) /\ Len(bits) = 8 * m
    BY <1>1, DataBitsAre
  <1>3. PICK n \in Nat : n = 8 * m /\ n = Len(bits)
    BY <1>2
  <1>4. Decoding(bits) \in [0 .. n -> HuffmanState]
    BY <1>3, DecodingSteps
  <1>5. PICK last \in HuffmanState : last = Decoding(bits)[n]
    BY <1>3, <1>4
  <1>6. DecodeHuffman(data) =
           [is |-> IF last.is = "Done" /\ last.node # Root /\ ~PaddingAccepted(last.node, last.left)
                   THEN "InvalidPadding" ELSE last.is, text |-> last.text]
    BY <1>1, <1>2, <1>3, <1>5 DEF DecodeHuffman
  <1>7. last.is = "Done" /\ (last.node = Root \/ PaddingAccepted(last.node, last.left))
        /\ DecodeHuffman(data).text = last.text
    BY <1>6
  <1>8. PICK a \in Nat, d \in Nat, left \in Nat, text \in Seq(Byte) :
           a = last.node[1] /\ d = last.node[2] /\ left = last.left /\ text = last.text
    BY DEF HuffmanState
  <1>9. ReadThrough(bits, n, last)
    <2>1. n \in 0 .. Len(bits)
      BY <1>3
    <2> QED
      BY <1>5, <1>7, <2>1, ReadSoFar
  <1>10. /\ SubSeq(bits, 1, n) = CodeBits(text) \o BitsOf(a, d)
         /\ d <= left \/ n <= n - 8 \/ n - (n - 8) <= left
    BY <1>3, <1>8, <1>9 DEF ReadThrough
  <1>11. d < 8
    <2>1. CASE last.node = Root
      BY <1>8, <2>1 DEF Root
    <2>2. CASE PaddingAccepted(last.node, last.left)
      <3>1. left <= 7
        BY <1>8, <2>2 DEF PaddingAccepted
      <3> QED
        BY <1>10, <3>1
    <2> QED
      BY <1>7, <2>1, <2>2
  <1>12. PICK code \in Seq(Bit), rest \in Seq(Bit), c \in Nat :
            code = CodeBits(text) /\ rest = BitsOf(a, d) /\ c = Len(code) /\ Len(rest) = d
    <2>1. CodeBits(text) \in Seq(Bit) /\ BitsOf(a, d) \in Seq(Bit) /\ Len(BitsOf(a, d)) = d
      BY WordsAre, BitsAre
    <2>2. Len(CodeBits(text)) \in Nat
      BY <2>1, LenProperties
    <2> QED
      BY <2>1, <2>2
  <1>13. bits = code \o rest /\ n = c + d
    <2>1. SubSeq(bits, 1, n) = bits
      BY <1>3, SubSeqFull
    <2>2. Len(code \o rest) = Len(code) + Len(rest)
      BY ConcatProperties
    <2> QED
      BY <1>3, <1>10, <1>12, <2>1, <2>2
  <1>14. SubSeq(code, 1, c) = SubSeq(bits, 1, c)
    <2>1. SubSeq(code, 1, c) = code
      BY <1>12, SubSeqFull
    <2>2. c \in 0 .. Len(bits)
      BY <1>3, <1>13
    <2>3. /\ SubSeq(bits, 1, c) \in Seq(Bit) /\ Len(SubSeq(bits, 1, c)) = c
          /\ \A i \in 1 .. c : SubSeq(bits, 1, c)[i] = bits[i]
      BY <2>2, Firsts
    <2>4. \A i \in 1 .. c : (code \o rest)[i] = code[i]
      <3>1. \A i \in 1 .. Len(code) + Len(rest) : (code \o rest)[i] =
               IF i <= Len(code) THEN code[i] ELSE rest[i - Len(code)]
        BY ConcatProperties
      <3> QED
        BY <1>12, <3>1
    <2>5. PICK firsts \in Seq(Bit) : firsts = SubSeq(bits, 1, c) /\ Len(firsts) = c
             /\ \A i \in 1 .. c : firsts[i] = code[i]
      BY <1>13, <2>3, <2>4
    <2>6. firsts = code
      BY <1>12, <2>5, SeqEqual
    <2> QED
      BY <2>1, <2>5, <2>6
  <1>15. IsPrefix(code, bits)
    BY <1>3, <1>12, <1>13, <1>14 DEF IsPrefix
  <1>16. 8 * m - c < 8
    BY <1>3, <1>11, <1>13
  <1> QED
    BY <1>1, <1>2, <1>7, <1>8, <1>12, <1>15, <1>16

\* Where the code of a character stands in the code of the text.
WordStands(text, j) ==
    LET before == CodeBits(SubSeq(text, 1, j - 1))
        word   == CodeOfBits(text[j])
        whole  == CodeBits(text)
    IN /\ Len(CodeBits(SubSeq(text, 1, j))) = Len(before) + Len(word)
       /\ Len(before) + Len(word) <= Len(whole)
       /\ \A i \in 1 .. Len(word) : whole[Len(before) + i] = word[i]

\* It stands there for every character.
LEMMA WordsStand ==
    ASSUME NEW text \in Seq(Byte)
    PROVE  \A j \in 1 .. Len(text) : WordStands(text, j)
  <1>1. PICK n \in Nat : n = Len(text)
    BY LenProperties
  <1>2. PICK T : T = Seq(Bit)
    OBVIOUS
  <1>3. PICK upTo \in [0 .. n -> T] : \A j \in 0 .. n : upTo[j] = CodeBits(SubSeq(text, 1, j))
    <2>1. ASSUME NEW j \in 0 .. n PROVE CodeBits(SubSeq(text, 1, j)) \in T
      <3>1. SubSeq(text, 1, j) \in Seq(Byte)
        BY <1>1, Firsts
      <3> QED
        BY <1>2, <3>1, WordsAre
    <2>2. [j \in 0 .. n |-> CodeBits(SubSeq(text, 1, j))] \in [0 .. n -> T]
      BY <2>1
    <2> QED
      BY <2>2
  <1>4. PICK whole \in T : whole = CodeBits(text) /\ whole = upTo[n]
    <2>1. n \in 0 .. n /\ SubSeq(text, 1, n) = text
      BY <1>1, SubSeqFull
    <2> QED
      BY <1>3, <2>1
  <1>5. ASSUME NEW j \in 1 .. n
        PROVE  /\ text[j] \in Byte /\ CodeOfBits(text[j]) \in T
               /\ upTo[j] = upTo[j - 1] \o CodeOfBits(text[j])
    <2>1. PICK s \in Byte : s = text[j]
      BY <1>1, ElementOfSeq
    <2>2. CodeOfBits(s) \in T
      BY <1>2, OctetIsSymbol, CodeIsBits
    <2>3. j \in 0 .. Len(text) /\ j - 1 \in 0 .. Len(text) /\ j # 0 /\ j - 1 \in 0 .. n /\ j \in 0 .. n
      BY <1>1
    <2>4. PICK less \in Seq(Byte) : less = SubSeq(text, 1, j - 1)
      BY <2>3, Firsts
    <2>5. SubSeq(text, 1, j) = Append(less, s)
      BY <2>1, <2>3, <2>4, Firsts
    <2>6. CodeBits(Append(less, s)) = CodeBits(less) \o CodeOfBits(s)
      BY CodeBehind
    <2> QED
      BY <1>3, <2>1, <2>2, <2>3, <2>4, <2>5, <2>6
  <1> DEFINE P == {i \in 0 .. n : \E rest \in T : whole = upTo[n - i] \o rest}
  <1>6. 0 \in P
    <2>1. whole \o <<>> = whole /\ <<>> \in T
      BY <1>2, EmptySeq, ConcatEmptySeq
    <2>2. n - 0 = n /\ 0 \in 0 .. n
      OBVIOUS
    <2> QED
      BY <1>4, <2>1, <2>2
  <1>7. ASSUME NEW i \in 1 .. n, i - 1 \in P PROVE i \in P
    <2>1. PICK j \in 1 .. n : j = n - (i - 1) /\ n - i = j - 1
      <3>1. n - (i - 1) \in 1 .. n /\ n - i = (n - (i - 1)) - 1
        OBVIOUS
      <3> QED
        BY <3>1
    <2>2. PICK rest \in T : whole = upTo[j] \o rest
      BY <1>7, <2>1
    <2>3. PICK before \in T, word \in T : before = upTo[j - 1] /\ word = CodeOfBits(text[j])
      <3>1. j - 1 \in 0 .. n
        OBVIOUS
      <3> QED
        BY <1>3, <1>5, <3>1
    <2>4. whole = (before \o word) \o rest
      BY <1>5, <2>2, <2>3
    <2>5. (before \o word) \o rest = before \o (word \o rest) /\ word \o rest \in T
      <3>1. before \in Seq(Bit) /\ word \in Seq(Bit) /\ rest \in Seq(Bit)
        BY <1>2
      <3>2. (before \o word) \o rest = before \o (word \o rest)
        BY <3>1, ConcatAssociative
      <3>3. word \o rest \in Seq(Bit)
        BY <3>1, ConcatProperties
      <3> QED
        BY <1>2, <3>2, <3>3
    <2>6. PICK more \in T : more = word \o rest /\ whole = upTo[n - i] \o more
      BY <2>1, <2>3, <2>4, <2>5
    <2>7. i \in 0 .. n
      OBVIOUS
    <2> QED
      BY <2>6, <2>7
  <1>8. \A i \in 0 .. n : i \in P
    <2> HIDE DEF P
    <2> QED
      BY <1>6, <1>7, UpTo
  <1>9. ASSUME NEW j \in 1 .. n PROVE WordStands(text, j)
    <2>1. PICK rest \in Seq(Bit) : whole = upTo[j] \o rest
      <3>1. n - j \in P /\ n - (n - j) = j
        <4>1. n - j \in 0 .. n /\ n - (n - j) = j
          OBVIOUS
        <4> HIDE DEF P
        <4> QED
          BY <1>8, <4>1
      <3> QED
        BY <1>2, <3>1
    <2>2. PICK before \in Seq(Bit), word \in Seq(Bit) : before = upTo[j - 1] /\ word = CodeOfBits(text[j])
      <3>1. j - 1 \in 0 .. n
        OBVIOUS
      <3> QED
        BY <1>2, <1>3, <1>5, <3>1
    <2>3. PICK both \in Seq(Bit) : both = before \o word /\ both = upTo[j]
      BY <1>5, <2>2, ConcatProperties
    <2>4. PICK b \in Nat, w \in Nat, r \in Nat : b = Len(before) /\ w = Len(word) /\ r = Len(rest)
      BY LenProperties
    <2>5. Len(both) = b + w /\ \A i \in 1 .. w : both[b + i] = word[i]
      <3>1. /\ Len(before \o word) = Len(before) + Len(word)
            /\ \A i \in 1 .. Len(before) + Len(word) : (before \o word)[i] =
                  IF i <= Len(before) THEN before[i] ELSE word[i - Len(before)]
        BY ConcatProperties
      <3>2. ASSUME NEW i \in 1 .. w PROVE both[b + i] = word[i]
        <4>1. b + i \in 1 .. b + w /\ ~(b + i <= b) /\ (b + i) - b = i
          OBVIOUS
        <4> QED
          BY <2>3, <2>4, <3>1, <4>1
      <3> QED
        BY <2>3, <2>4, <3>1, <3>2
    <2>6. Len(whole) = (b + w) + r /\ \A i \in 1 .. b + w : whole[i] = both[i]
      <3>1. /\ Len(both \o rest) = Len(both) + Len(rest)
            /\ \A i \in 1 .. Len(both) + Len(rest) : (both \o rest)[i] =
                  IF i <= Len(both) THEN both[i] ELSE rest[i - Len(both)]
        BY ConcatProperties
      <3>2. ASSUME NEW i \in 1 .. b + w PROVE whole[i] = both[i]
        <4>1. i \in 1 .. (b + w) + r /\ i <= b + w
          OBVIOUS
        <4> QED
          BY <2>1, <2>3, <2>4, <2>5, <3>1, <4>1
      <3> QED
        BY <2>1, <2>3, <2>4, <2>5, <3>1, <3>2
    <2>7. \A i \in 1 .. w : whole[b + i] = word[i]
      <3>1. \A i \in 1 .. w : b + i \in 1 .. b + w
        OBVIOUS
      <3> QED
        BY <2>5, <2>6, <3>1
    <2>8. b + w <= Len(whole)
      BY <2>6
    <2>9. before = CodeBits(SubSeq(text, 1, j - 1)) /\ both = CodeBits(SubSeq(text, 1, j))
      <3>1. j \in 0 .. n /\ j - 1 \in 0 .. n
        OBVIOUS
      <3> QED
        BY <1>3, <2>2, <2>3, <3>1
    <2> QED
      BY <1>4, <2>2, <2>4, <2>5, <2>7, <2>8, <2>9 DEF WordStands
  <1> QED
    BY <1>1, <1>9

\* encoded_len counts the bits of the code.
LEMMA CodeLenIs ==
    ASSUME NEW text \in Seq(Byte)
    PROVE  CodeLen(text) = Len(CodeBits(text)) /\ CodeLen(text) \in Nat
  <1>1. PICK n \in Nat : n = Len(text)
    BY LenProperties
  <1>2. PICK f \in [0 .. n -> Nat] : \A j \in 0 .. n : f[j] = Len(CodeBits(SubSeq(text, 1, j)))
    <2>1. ASSUME NEW j \in 0 .. n PROVE Len(CodeBits(SubSeq(text, 1, j))) \in Nat
      <3>1. SubSeq(text, 1, j) \in Seq(Byte)
        BY <1>1, Firsts
      <3>2. CodeBits(SubSeq(text, 1, j)) \in Seq(Bit)
        BY <3>1, WordsAre
      <3> QED
        BY <3>2, LenProperties
    <2>2. [j \in 0 .. n |-> Len(CodeBits(SubSeq(text, 1, j)))] \in [0 .. n -> Nat]
      BY <2>1
    <2> QED
      BY <2>2
  <1>3. f[0] = 0
    <2>1. SubSeq(text, 1, 0) = <<>> /\ 0 \in 0 .. n
      BY SubSeqEmpty
    <2>2. Len(<<>>) = 0
      BY EmptySeq
    <2> QED
      BY <1>2, <2>1, <2>2, NoCode
  <1>4. ASSUME NEW j \in 1 .. n
        PROVE f[j] = f[j - 1] + CodeOf(text[j])[2] /\ CodeOf(text[j])[2] \in Nat
    <2>1. WordStands(text, j)
      BY <1>1, WordsStand
    <2>2. PICK s \in Symbols : s = text[j]
      <3>1. text[j] \in Byte
        BY <1>1, ElementOfSeq
      <3> QED
        BY <3>1, OctetIsSymbol
    <2>3. Len(CodeOfBits(s)) = CodeOf(s)[2] /\ CodeOf(s)[2] \in Nat
      BY CodeIsBits
    <2>4. j \in 0 .. n /\ j - 1 \in 0 .. n
      OBVIOUS
    <2> QED
      BY <1>2, <2>1, <2>2, <2>3, <2>4 DEF WordStands
  <1> DEFINE Is(g) == g = [k \in 0 .. Len(text) |-> IF k = 0 THEN 0 ELSE g[k - 1] + CodeOf(text[k])[2]]
             chosen == CHOOSE g : Is(g)
  <1>5. CodeLen(text) = chosen[n]
    BY <1>1 DEF CodeLen
  <1>6. Is(f)
    <2>1. \A k \in 0 .. n : f[k] = IF k = 0 THEN 0 ELSE f[k - 1] + CodeOf(text[k])[2]
      BY <1>3, <1>4
    <2>2. f = [k \in 0 .. n |-> f[k]]
      OBVIOUS
    <2> QED
      BY <1>1, <2>1, <2>2
  <1>7. Is(chosen)
    <2> HIDE DEF Is
    <2> QED
      BY <1>6
  <1>8. chosen = [k \in 0 .. n |-> IF k = 0 THEN 0 ELSE chosen[k - 1] + CodeOf(text[k])[2]]
    BY <1>1, <1>7
  <1> HIDE DEF Is, chosen
  <1>9. chosen[0] = 0 /\ \A k \in 1 .. n : chosen[k] = chosen[k - 1] + CodeOf(text[k])[2]
    BY <1>8
  <1> DEFINE P == {k \in 0 .. n : chosen[k] = f[k]}
  <1>10. 0 \in P
    BY <1>3, <1>9
  <1>11. ASSUME NEW k \in 1 .. n, k - 1 \in P PROVE k \in P
    <2>1. chosen[k - 1] = f[k - 1] /\ k \in 0 .. n
      BY <1>11
    <2>2. chosen[k] = chosen[k - 1] + CodeOf(text[k])[2]
      BY <1>9
    <2>3. f[k] = f[k - 1] + CodeOf(text[k])[2]
      BY <1>4
    <2> QED
      BY <2>1, <2>2, <2>3
  <1>12. n \in P
    <2> HIDE DEF P
    <2>1. \A k \in 0 .. n : k \in P
      BY <1>10, <1>11, UpTo
    <2> QED
      BY <2>1
  <1>13. f[n] = Len(CodeBits(text))
    <2>1. n \in 0 .. n /\ SubSeq(text, 1, n) = text
      BY <1>1, SubSeqFull
    <2> QED
      BY <1>2, <2>1
  <1> QED
    BY <1>5, <1>12, <1>13

\* Down the tree along the code of a character: every node on the way is an inner
\* one, and the last is the leaf.
LEMMA WordRead ==
    ASSUME NEW bits \in Seq(Bit), NEW at \in Nat, NEW s \in Byte, NEW text \in Seq(Byte),
           Decoding(bits)[at] = Found(Root, 0, text), at + CodeOf(s)[2] <= Len(bits),
           \A i \in 1 .. CodeOf(s)[2] : bits[at + i] = CodeOfBits(s)[i]
    PROVE  Decoding(bits)[at + CodeOf(s)[2]] = Found(Root, 0, Append(text, s))
  <1>1. PICK n \in Nat : n = Len(bits)
    BY LenProperties
  <1>2. s \in Symbols
    BY OctetIsSymbol
  <1>3. PICK c \in Nat, l \in Nat \ {0} :
           c = CodeOf(s)[1] /\ l = CodeOf(s)[2] /\ c < Pow2[l] /\ CodeOf(s) = <<c, l>>
    <2>1. /\ CodeOf(s)[1] \in Nat /\ CodeOf(s)[2] \in 1 .. 30 /\ CodeOf(s)[1] < Pow2[CodeOf(s)[2]]
          /\ CodeOf(s) = <<CodeOf(s)[1], CodeOf(s)[2]>>
      BY <1>2, CodesAre
    <2>2. PICK l \in 1 .. 30 : l = CodeOf(s)[2]
      BY <2>1
    <2>3. l \in Nat \ {0}
      OBVIOUS
    <2> QED
      BY <2>1, <2>2, <2>3
  <1>4. PICK after : after = Decoding(bits)
           /\ \A k \in 1 .. n : after[k] = Descend(after[k - 1], bits[k], k > n - 8)
    BY <1>1, DecodingSteps
  <1>5. PICK way \in [0 .. l -> Nat] : \A i \in 0 .. l : way[i] = c \div Pow2[l - i]
    <2>1. ASSUME NEW i \in 0 .. l PROVE c \div Pow2[l - i] \in Nat
      <3>1. PICK p \in Nat \ {0} : p = Pow2[l - i]
        <4>1. l - i \in Nat
          OBVIOUS
        <4> QED
          BY <4>1, Doubling
      <3>2. c \div p \in Nat
        OBVIOUS
      <3> QED
        BY <3>1, <3>2
    <2>2. [i \in 0 .. l |-> c \div Pow2[l - i]] \in [0 .. l -> Nat]
      BY <2>1
    <2> QED
      BY <2>2
  <1>6. way[0] = 0 /\ way[l] = c
    <2>1. PICK p \in Nat \ {0} : p = Pow2[l]
      BY Doubling
    <2>2. c \div p = 0
      <3>1. c < p /\ 0 \in Nat
        BY <1>3, <2>1
      <3>2. (p * 0 + c) \div p = 0
        BY <3>1, Divided
      <3>3. p * 0 + c = c
        OBVIOUS
      <3> QED
        BY <3>2, <3>3
    <2>3. l - 0 = l /\ l - l = 0 /\ 0 \in 0 .. l /\ l \in 0 .. l
      OBVIOUS
    <2>4. way[l] = c \div 1
      BY <1>5, <2>3, Doubling
    <2> QED
      BY <1>5, <2>1, <2>2, <2>3, <2>4
  <1>7. ASSUME NEW i \in 1 .. l
        PROVE  /\ bits[at + i] \in Bit /\ way[i] = 2 * way[i - 1] + bits[at + i]
               /\ way[i - 1] \in Nat /\ way[i] \in Nat
    <2>1. i \in 0 .. l /\ i - 1 \in 0 .. l /\ l - i \in Nat /\ l - (i - 1) = (l - i) + 1
          /\ (l - i) + 1 \in Nat \ {0} /\ ((l - i) + 1) - 1 = l - i
      OBVIOUS
    <2>2. PICK p \in Nat \ {0} : p = Pow2[l - i] /\ Pow2[l - (i - 1)] = 2 * p
      <3>1. Pow2[l - i] \in Nat \ {0}
        BY <2>1, Doubling
      <3>2. Pow2[(l - i) + 1] = 2 * Pow2[((l - i) + 1) - 1]
        BY <2>1, Doubling
      <3> QED
        BY <2>1, <3>1, <3>2
    <2>3. PICK x \in Nat, y \in Nat : x = way[i] /\ y = way[i - 1]
      BY <2>1
    <2>4. x = c \div p /\ y = c \div (2 * p)
      BY <1>5, <2>1, <2>2, <2>3
    <2>5. PICK two \in Nat \ {0} : two = 2
      OBVIOUS
    <2>6. c \div (two * p) = (c \div p) \div two
      BY DividedTwice
    <2>7. y = x \div 2
      BY <2>4, <2>5, <2>6
    <2>8. bits[at + i] = x % 2
      <3>1. bits[at + i] = CodeOfBits(s)[i]
        BY <1>3
      <3>2. CodeOfBits(s) = BitsOf(c, l)
        BY <1>3 DEF CodeOfBits
      <3>3. BitsOf(c, l)[i] = (c \div Pow2[l - i]) % 2
        BY BitsAre
      <3> QED
        BY <2>2, <2>4, <3>1, <3>2, <3>3
    <2>9. x % 2 \in Bit /\ x = 2 * (x \div 2) + (x % 2)
      BY DEF Bit
    <2> QED
      BY <2>3, <2>7, <2>8, <2>9
  <1> DEFINE P == {i \in 0 .. l - 1 : \E left \in Nat : after[at + i] = Found(<<way[i], i>>, left, text)}
  <1>8. 0 \in P
    <2>1. 0 \in 0 .. l - 1 /\ at + 0 = at
      OBVIOUS
    <2>2. after[at + 0] = Found(<<way[0], 0>>, 0, text)
      BY <1>4, <1>6, <2>1 DEF Root
    <2> QED
      BY <2>1, <2>2
  <1>9. ASSUME NEW i \in 1 .. l, i - 1 \in P
        PROVE  \E left \in Nat, inLastByte \in BOOLEAN :
                  DescendsTo(<<way[i - 1], i - 1>>, left, text, inLastByte, <<way[i], i>>, after[at + i])
    <2>1. PICK left \in Nat : after[at + (i - 1)] = Found(<<way[i - 1], i - 1>>, left, text)
      BY <1>9
    <2>2. PICK bit \in Bit, x \in Nat, y \in Nat :
             bit = bits[at + i] /\ x = way[i] /\ y = way[i - 1] /\ x = 2 * y + bit
      <3>1. /\ bits[at + i] \in Bit /\ way[i] = 2 * way[i - 1] + bits[at + i]
            /\ way[i - 1] \in Nat /\ way[i] \in Nat
        BY <1>7
      <3> QED
        BY <3>1
    <2>3. PICK k \in 1 .. n : k = at + i /\ k - 1 = at + (i - 1)
      <3>1. at + i \in 1 .. n /\ (at + i) - 1 = at + (i - 1)
        BY <1>1, <1>3
      <3> QED
        BY <3>1
    <2>4. PICK inLastByte \in BOOLEAN : inLastByte = (k > n - 8)
      <3>1. (k > n - 8) \in BOOLEAN
        OBVIOUS
      <3> QED
        BY <3>1, Zenon
    <2>5. PICK d \in Nat : d = i - 1 /\ d + 1 = i
      OBVIOUS
    <2>6. PICK node \in Nat \X Nat : node = <<y, d>> /\ node[1] = y /\ node[2] = d
      <3>1. <<y, d>> \in Nat \X Nat /\ <<y, d>>[1] = y /\ <<y, d>>[2] = d
        OBVIOUS
      <3> QED
        BY <3>1
    <2>7. after[k] = Descend(Found(node, left, text), bit, inLastByte)
      BY <1>4, <2>1, <2>2, <2>3, <2>4, <2>5, <2>6
    <2>8. /\ Child(node, bit) = <<2 * node[1] + bit, node[2] + 1>>
          /\ DescendsTo(node, left, text, inLastByte, Child(node, bit),
                        Descend(Found(node, left, text), bit, inLastByte))
      BY Descends
    <2>9. Child(node, bit) = <<x, i>>
      BY <2>2, <2>5, <2>6, <2>8
    <2>10. DescendsTo(node, left, text, inLastByte, <<x, i>>, after[k])
      BY <2>7, <2>8, <2>9
    <2> QED
      BY <2>2, <2>3, <2>5, <2>6, <2>10
  <1>10. ASSUME NEW i \in 1 .. l - 1, i - 1 \in P PROVE i \in P
    <2>1. i \in 1 .. l /\ i \in 0 .. l - 1 /\ i \in 0 .. l
      OBVIOUS
    <2>2. PICK left \in Nat, inLastByte \in BOOLEAN :
             DescendsTo(<<way[i - 1], i - 1>>, left, text, inLastByte, <<way[i], i>>, after[at + i])
      BY <1>9, <1>10, <2>1
    <2>3. <<way[i], i>> \in Inner
      <3>1. l - i \in 1 .. l /\ l - (l - i) = i
        OBVIOUS
      <3>2. <<CodeOf(s)[1] \div Pow2[l - i], CodeOf(s)[2] - (l - i)>> \in Inner
        <4>1. l - i \in 1 .. CodeOf(s)[2]
          BY <1>3, <3>1
        <4>2. PICK nodes : nodes = {<<CodeOf(s)[1] \div Pow2[k], CodeOf(s)[2] - k>> : k \in 1 .. CodeOf(s)[2]}
          OBVIOUS
        <4>3. <<CodeOf(s)[1] \div Pow2[l - i], CodeOf(s)[2] - (l - i)>> \in nodes
          BY <4>1, <4>2, Zenon
        <4>4. nodes \in {{<<CodeOf(t)[1] \div Pow2[k], CodeOf(t)[2] - k>> : k \in 1 .. CodeOf(t)[2]} :
                         t \in Symbols}
          BY <1>2, <4>2, Zenon
        <4> QED
          BY <4>3, <4>4, Zenon DEF Inner
      <3> QED
        BY <1>3, <1>5, <2>1, <3>1, <3>2
    <2>4. <<way[i], i>> \notin DOMAIN Leaf
      BY <2>3, LeavesAre
    <2>5. PICK more \in Nat : more = IF inLastByte THEN left + 1 ELSE left
      OBVIOUS
    <2>6. after[at + i] = Found(<<way[i], i>>, more, text)
      BY <2>2, <2>3, <2>4, <2>5 DEF DescendsTo
    <2> QED
      BY <2>1, <2>6
  <1>11. l - 1 \in P
    <2> HIDE DEF P
    <2>1. l - 1 \in Nat /\ l - 1 \in 0 .. l - 1
      OBVIOUS
    <2>2. \A i \in 0 .. l - 1 : i \in P
      BY <1>8, <1>10, <2>1, UpTo
    <2> QED
      BY <2>1, <2>2
  <1>12. PICK left \in Nat, inLastByte \in BOOLEAN :
            DescendsTo(<<way[l - 1], l - 1>>, left, text, inLastByte, <<way[l], l>>, after[at + l])
    <2>1. l \in 1 .. l
      OBVIOUS
    <2> QED
      BY <1>9, <1>11, <2>1
  <1>13. <<way[l], l>> \in DOMAIN Leaf /\ Leaf[<<way[l], l>>] = s
    <2>1. CodeOf(s) \in DOMAIN Leaf /\ Leaf[CodeOf(s)] = s
      BY <1>2, LeavesAre
    <2>2. <<way[l], l>> = CodeOf(s)
      BY <1>3, <1>6
    <2> QED
      BY <2>1, <2>2
  <1>14. s # Eos
    BY DEF Byte, Eos
  <1>15. after[at + l] = Found(Root, 0, Append(text, s))
    BY <1>12, <1>13, <1>14 DEF DescendsTo
  <1> QED
    BY <1>3, <1>4, <1>15

\* The nodes that ones lead to from the root.
AllOnes(i) == <<Pow2[i] - 1, i>>

\* They are on the way to EOS, each below the one before.
LEMMA OnesLeadOn ==
    ASSUME NEW i \in 0 .. 29
    PROVE  /\ AllOnes(i) \in Nat \X Nat /\ AllOnes(i) \in Inner /\ AllOnes(i) \notin DOMAIN Leaf
           /\ Child(AllOnes(i), 1) = AllOnes(i + 1)
  <1>1. PICK eos \in Nat : eos = Pow2[30] - 1
    <2>1. 30 \in Nat
      OBVIOUS
    <2>2. PICK p \in Nat \ {0} : p = Pow2[30]
      BY <2>1, Doubling
    <2>3. p - 1 \in Nat
      OBVIOUS
    <2> QED
      BY <2>2, <2>3
  <1> DEFINE P == {k \in 0 .. 30 : eos \div Pow2[k] = Pow2[30 - k] - 1}
  <1>2. 0 \in P
    <2>1. Pow2[0] = 1 /\ 30 - 0 = 30 /\ 0 \in 0 .. 30
      BY Doubling
    <2>2. eos \div 1 = eos
      OBVIOUS
    <2> QED
      BY <1>1, <2>1, <2>2
  <1>3. ASSUME NEW k \in 1 .. 30, k - 1 \in P PROVE k \in P
    <2>1. k \in Nat \ {0} /\ k - 1 \in Nat /\ 30 - k \in Nat /\ 30 - (k - 1) \in Nat \ {0}
          /\ (30 - (k - 1)) - 1 = 30 - k /\ k \in 0 .. 30
      OBVIOUS
    <2>2. PICK p \in Nat \ {0} : p = Pow2[k - 1] /\ Pow2[k] = 2 * p
      BY <2>1, Doubling
    <2>3. PICK q \in Nat \ {0} : q = Pow2[30 - k] /\ Pow2[30 - (k - 1)] = 2 * q
      BY <2>1, Doubling
    <2>4. eos \div p = 2 * q - 1
      BY <1>3, <2>2, <2>3
    <2>5. PICK two \in Nat \ {0} : two = 2
      OBVIOUS
    <2>6. eos \div (two * p) = (eos \div p) \div two
      BY DividedTwice
    <2>7. eos \div Pow2[k] = (2 * q - 1) \div 2
      BY <2>2, <2>4, <2>5, <2>6
    <2>8. (2 * q - 1) \div 2 = q - 1
      OBVIOUS
    <2> QED
      BY <2>1, <2>3, <2>7, <2>8
  <1>4. eos \div Pow2[30 - i] = Pow2[i] - 1
    <2> HIDE DEF P
    <2>1. 30 \in Nat /\ 30 - i \in 0 .. 30 /\ 30 - (30 - i) = i
      OBVIOUS
    <2>2. 30 - i \in P
      BY <1>2, <1>3, <2>1, UpTo
    <2> QED
      BY <2>1, <2>2 DEF P
  <1>5. CodeOf(Eos) = <<eos, 30>> /\ Eos \in Symbols
    <2>1. CodeOf(Eos) = <<Pow2[30] - 1, 30>>
      BY HuffmanAssumption
    <2>2. Eos \in Symbols
      BY DEF Eos, Symbols
    <2> QED
      BY <1>1, <2>1, <2>2
  <1>6. AllOnes(i) \in Inner
    <2>1. CodeOf(Eos)[1] = eos /\ CodeOf(Eos)[2] = 30
      BY <1>5
    <2>2. 30 - i \in 1 .. 30 /\ 30 - (30 - i) = i
      OBVIOUS
    <2>3. PICK nodes : nodes = {<<CodeOf(Eos)[1] \div Pow2[k], CodeOf(Eos)[2] - k>> : k \in 1 .. CodeOf(Eos)[2]}
      OBVIOUS
    <2>4. <<CodeOf(Eos)[1] \div Pow2[30 - i], CodeOf(Eos)[2] - (30 - i)>> \in nodes
      BY <2>1, <2>2, <2>3, Zenon
    <2>5. nodes \in {{<<CodeOf(t)[1] \div Pow2[k], CodeOf(t)[2] - k>> : k \in 1 .. CodeOf(t)[2]} :
                     t \in Symbols}
      BY <1>5, <2>3, Zenon
    <2>6. <<CodeOf(Eos)[1] \div Pow2[30 - i], CodeOf(Eos)[2] - (30 - i)>> \in Inner
      BY <2>4, <2>5, Zenon DEF Inner
    <2> QED
      BY <1>4, <2>1, <2>2, <2>6 DEF AllOnes
  <1>7. AllOnes(i) \notin DOMAIN Leaf
    BY <1>6, LeavesAre
  <1>8. PICK p \in Nat \ {0} : p = Pow2[i] /\ Pow2[i + 1] = 2 * p
    <2>1. i \in Nat /\ i + 1 \in Nat \ {0} /\ (i + 1) - 1 = i
      OBVIOUS
    <2> QED
      BY <2>1, Doubling
  <1>9. AllOnes(i) = <<p - 1, i>> /\ p - 1 \in Nat /\ i \in Nat /\ AllOnes(i) \in Nat \X Nat
    BY <1>8 DEF AllOnes
  <1>10. Child(AllOnes(i), 1) = AllOnes(i + 1)
    <2>1. Child(AllOnes(i), 1) = <<2 * (p - 1) + 1, i + 1>>
      BY <1>9 DEF Child
    <2>2. 2 * (p - 1) + 1 = 2 * p - 1
      OBVIOUS
    <2> QED
      BY <1>8, <2>1, <2>2 DEF AllOnes
  <1> QED
    BY <1>6, <1>7, <1>9, <1>10

\* Up to seven ones are accepted as padding.
LEMMA OnesArePadding ==
    ASSUME NEW count \in 0 .. 7
    PROVE  PaddingAccepted(AllOnes(count), count)
  <1> DEFINE Is(g) == g = [k \in 0 .. count |->
                 IF k = 0 THEN AllOnes(count)
                 ELSE LET before == g[k - 1] IN IF before \in Inner THEN Child(before, 1) ELSE before]
             walk == CHOOSE g : Is(g)
  <1>1. PICK f : f = [k \in 0 .. count |-> AllOnes(count + k)]
    OBVIOUS
  <1>2. \A k \in 0 .. count : f[k] \in Inner /\ Child(f[k], 1) = AllOnes(count + k + 1)
    <2>1. ASSUME NEW k \in 0 .. count PROVE f[k] \in Inner /\ Child(f[k], 1) = AllOnes(count + k + 1)
      <3>1. PICK i \in 0 .. 29 : i = count + k
        OBVIOUS
      <3>2. AllOnes(i) \in Inner /\ Child(AllOnes(i), 1) = AllOnes(i + 1)
        BY OnesLeadOn
      <3> QED
        BY <1>1, <3>1, <3>2
    <2> QED
      BY <2>1
  <1>3. \A k \in 1 .. count : f[k] = Child(f[k - 1], 1) /\ f[k - 1] \in Inner
    <2>1. ASSUME NEW k \in 1 .. count PROVE f[k] = Child(f[k - 1], 1) /\ f[k - 1] \in Inner
      <3>1. k - 1 \in 0 .. count /\ k \in 0 .. count /\ count + (k - 1) + 1 = count + k
        OBVIOUS
      <3> QED
        BY <1>1, <1>2, <3>1
    <2> QED
      BY <2>1
  <1>4. f[0] = AllOnes(count)
    <2>1. 0 \in 0 .. count /\ count + 0 = count
      OBVIOUS
    <2> QED
      BY <1>1, <2>1
  <1>5. Is(f)
    <2>1. \A k \in 0 .. count : f[k] = IF k = 0 THEN AllOnes(count)
                     ELSE LET before == f[k - 1] IN IF before \in Inner THEN Child(before, 1) ELSE before
      BY <1>3, <1>4
    <2>2. f = [k \in 0 .. count |-> f[k]]
      BY <1>1
    <2> QED
      BY <2>1, <2>2
  <1>6. Is(walk)
    <2> HIDE DEF Is
    <2> QED
      BY <1>5
  <1>7. walk[0] = AllOnes(count)
        /\ \A k \in 1 .. count : walk[k] = IF walk[k - 1] \in Inner THEN Child(walk[k - 1], 1) ELSE walk[k - 1]
    <2>1. PICK w : w = walk
      OBVIOUS
    <2>2. w = [k \in 0 .. count |-> IF k = 0 THEN AllOnes(count)
                     ELSE LET before == w[k - 1] IN IF before \in Inner THEN Child(before, 1) ELSE before]
      BY <1>6, <2>1
    <2> HIDE DEF walk
    <2>3. w[0] = AllOnes(count)
          /\ \A k \in 1 .. count : w[k] = IF w[k - 1] \in Inner THEN Child(w[k - 1], 1) ELSE w[k - 1]
      BY <2>2
    <2> QED
      BY <2>1, <2>3
  <1> DEFINE P == {k \in 0 .. count : walk[k] = f[k]}
  <1> HIDE DEF walk, Is
  <1>8. 0 \in P
    BY <1>4, <1>7
  <1>9. ASSUME NEW k \in 1 .. count, k - 1 \in P PROVE k \in P
    <2>1. walk[k - 1] = f[k - 1] /\ k \in 0 .. count
      BY <1>9
    <2> QED
      BY <1>3, <1>7, <2>1
  <1>10. \A k \in 0 .. count : walk[k] \in Inner
    <2>1. \A k \in 0 .. count : k \in P
      <3> HIDE DEF P
      <3>1. count \in Nat
        OBVIOUS
      <3> QED
        BY <1>8, <1>9, <3>1, UpTo
    <2> QED
      BY <1>2, <2>1
  <1>11. PaddingAccepted(AllOnes(count), count) <=>
            /\ count <= 7
            /\ \A k \in 1 .. count : \/ walk[k] \in Inner
                                     \/ walk[k] \in DOMAIN Leaf /\ (k < count => Leaf[walk[k]] = Eos)
    BY DEF PaddingAccepted, walk, Is
  <1> QED
    BY <1>10, <1>11

\* One bit of padding.
LEMMA OneMoreOne ==
    ASSUME NEW i \in 0 .. 28, NEW text \in Seq(Byte)
    PROVE  Descend(Found(AllOnes(i), i, text), 1, TRUE) = Found(AllOnes(i + 1), i + 1, text)
  <1>1. PICK node \in Nat \X Nat : node = AllOnes(i) /\ Child(node, 1) = AllOnes(i + 1)
    <2>1. i \in 0 .. 29
      OBVIOUS
    <2> QED
      BY <2>1, OnesLeadOn
  <1>2. AllOnes(i + 1) \in Inner /\ AllOnes(i + 1) \notin DOMAIN Leaf
    <2>1. i + 1 \in 0 .. 29
      OBVIOUS
    <2> QED
      BY <2>1, OnesLeadOn
  <1>3. PICK one \in Bit, yes \in BOOLEAN, left \in Nat : one = 1 /\ yes = TRUE /\ left = i
    <2>1. 1 \in Bit /\ TRUE \in BOOLEAN /\ i \in Nat
      BY DEF Bit
    <2> QED
      BY <2>1, Zenon
  <1>4. DescendsTo(node, left, text, yes, Child(node, one), Descend(Found(node, left, text), one, yes))
    BY Descends
  <1>5. Descend(Found(node, left, text), one, yes)
           = Found(Child(node, one), IF yes THEN left + 1 ELSE left, text)
    BY <1>1, <1>2, <1>3, <1>4 DEF DescendsTo
  <1> QED
    BY <1>1, <1>3, <1>5

\* The bits that are written: the code of the text, and ones up to a whole byte.
LEMMA PaddedBits ==
    ASSUME NEW text \in Seq(Byte)
    PROVE  \E bits \in Seq(Bit), size \in Nat, free \in 0 .. 7, m \in Nat :
              /\ size = Len(CodeBits(text)) /\ Len(bits) = size + free /\ size + free = 8 * m
              /\ (\A i \in 1 .. size : bits[i] = CodeBits(text)[i])
              /\ (\A i \in 1 .. free : bits[size + i] = 1)
              /\ EncodeHuffman(text) = BytesOf(bits) /\ EncodedLen(text) = m
  <1>1. PICK code \in Seq(Bit), size \in Nat : code = CodeBits(text) /\ size = Len(code)
    <2>1. CodeBits(text) \in Seq(Bit)
      BY WordsAre
    <2> QED
      BY <2>1, LenProperties
  <1>2. PICK free \in 0 .. 7, m \in Nat :
           free = (8 - (size % 8)) % 8 /\ size + free = 8 * m /\ (size + 7) \div 8 = m
    <2>1. PICK q \in Nat, r \in 0 .. 7 : q = size \div 8 /\ r = size % 8 /\ size = 8 * q + r
      OBVIOUS
    <2>2. CASE r = 0
      <3>1. (8 - r) % 8 = 0 /\ size + 0 = 8 * q /\ (size + 7) \div 8 = q
        BY <2>1, <2>2
      <3> QED
        BY <2>1, <3>1
    <2>3. CASE r # 0
      <3>1. (8 - r) % 8 = 8 - r /\ size + (8 - r) = 8 * (q + 1) /\ (size + 7) \div 8 = q + 1
            /\ 8 - r \in 0 .. 7 /\ q + 1 \in Nat
        BY <2>1, <2>3
      <3> QED
        BY <2>1, <3>1
    <2> QED
      BY <2>2, <2>3
  <1>3. PICK ones \in Seq(Bit) : ones = [k \in 1 .. free |-> 1] /\ Len(ones) = free
           /\ \A k \in 1 .. free : ones[k] = 1
    <2>1. [k \in 1 .. free |-> 1] \in [1 .. free -> Bit] /\ free \in Nat
      BY DEF Bit
    <2>2. [k \in 1 .. free |-> 1] \in Seq(Bit)
      BY <2>1, SeqDef
    <2>3. Len([k \in 1 .. free |-> 1]) = free
      BY <2>1
    <2> QED
      BY <2>2, <2>3
  <1>4. PICK bits \in Seq(Bit) : bits = code \o ones /\ Len(bits) = size + free
           /\ \A i \in 1 .. size + free : bits[i] = IF i <= size THEN code[i] ELSE ones[i - size]
    <2>1. size = Len(code) /\ free = Len(ones)
      BY <1>1, <1>3
    <2>2. /\ code \o ones \in Seq(Bit)
          /\ Len(code \o ones) = Len(code) + Len(ones)
          /\ \A i \in 1 .. Len(code) + Len(ones) : (code \o ones)[i] =
                IF i <= Len(code) THEN code[i] ELSE ones[i - Len(code)]
      BY ConcatProperties
    <2>3. PICK bits \in Seq(Bit) : bits = code \o ones
      BY <2>2
    <2> QED
      BY <2>1, <2>2, <2>3
  <1>5. \A i \in 1 .. size : bits[i] = code[i]
    <2>1. \A i \in 1 .. size : i \in 1 .. size + free /\ i <= size
      OBVIOUS
    <2> QED
      BY <1>4, <2>1
  <1>6. \A i \in 1 .. free : bits[size + i] = 1
    <2>1. \A i \in 1 .. free : size + i \in 1 .. size + free /\ ~(size + i <= size) /\ (size + i) - size = i
      OBVIOUS
    <2> QED
      BY <1>3, <1>4, <2>1
  <1>7. EncodeHuffman(text) = BytesOf(bits)
    BY <1>1, <1>2, <1>3, <1>4 DEF EncodeHuffman
  <1>8. EncodedLen(text) = m
    BY <1>1, <1>2, CodeLenIs DEF EncodedLen
  <1> QED
    <2>1. size = Len(CodeBits(text)) /\ \A i \in 1 .. size : bits[i] = CodeBits(text)[i]
      BY <1>1, <1>5
    <2>2. Len(bits) = size + free /\ size + free = 8 * m
      BY <1>2, <1>4
    <2> QED
      BY <1>6, <1>7, <1>8, <2>1, <2>2

\* Every text is read from its code, character by character.
LEMMA TextRead ==
    ASSUME NEW text \in Seq(Byte), NEW bits \in Seq(Bit), NEW size \in Nat,
           size = Len(CodeBits(text)), size <= Len(bits),
           \A i \in 1 .. size : bits[i] = CodeBits(text)[i]
    PROVE  Decoding(bits)[size] = Found(Root, 0, text)
  <1>1. PICK n \in Nat : n = Len(text)
    BY LenProperties
  <1>2. PICK f \in [0 .. n -> Nat] : \A j \in 0 .. n : f[j] = Len(CodeBits(SubSeq(text, 1, j)))
    <2>1. ASSUME NEW j \in 0 .. n PROVE Len(CodeBits(SubSeq(text, 1, j))) \in Nat
      <3>1. SubSeq(text, 1, j) \in Seq(Byte)
        BY <1>1, Firsts
      <3>2. CodeBits(SubSeq(text, 1, j)) \in Seq(Bit)
        BY <3>1, WordsAre
      <3> QED
        BY <3>2, LenProperties
    <2>2. [j \in 0 .. n |-> Len(CodeBits(SubSeq(text, 1, j)))] \in [0 .. n -> Nat]
      BY <2>1
    <2> QED
      BY <2>2
  <1> DEFINE P == {j \in 0 .. n : Decoding(bits)[f[j]] = Found(Root, 0, SubSeq(text, 1, j))}
  <1>3. 0 \in P
    <2>1. SubSeq(text, 1, 0) = <<>> /\ 0 \in 0 .. n
      BY SubSeqEmpty
    <2>2. Len(<<>>) = 0
      BY EmptySeq
    <2>3. f[0] = 0
      BY <1>2, <2>1, <2>2, NoCode
    <2>4. Decoding(bits)[0] = Found(Root, 0, <<>>)
      BY DecodingSteps
    <2> QED
      BY <2>1, <2>3, <2>4
  <1>4. ASSUME NEW j \in 1 .. n, j - 1 \in P PROVE j \in P
    <2>1. j \in 0 .. n /\ j - 1 \in 0 .. n /\ j # 0 /\ j \in 0 .. Len(text) /\ j - 1 \in 0 .. Len(text)
          /\ j \in 1 .. Len(text)
      BY <1>1
    <2>2. PICK at \in Nat : at = f[j - 1] /\ at = Len(CodeBits(SubSeq(text, 1, j - 1)))
      BY <1>2, <2>1
    <2>3. PICK s \in Byte : s = text[j]
      BY <2>1, ElementOfSeq
    <2>4. PICK l \in Nat : l = CodeOf(s)[2] /\ Len(CodeOfBits(s)) = l
      BY OctetIsSymbol, CodeIsBits
    <2>5. WordStands(text, j)
      BY <2>1, WordsStand
    <2>6. /\ f[j] = at + l
          /\ at + l <= size
          /\ \A i \in 1 .. l : CodeBits(text)[at + i] = CodeOfBits(s)[i]
      BY <1>2, <2>1, <2>2, <2>3, <2>4, <2>5 DEF WordStands
    <2>7. \A i \in 1 .. l : bits[at + i] = CodeOfBits(s)[i]
      <3>1. \A i \in 1 .. l : at + i \in 1 .. size
        BY <2>6
      <3> QED
        BY <2>6, <3>1
    <2>8. PICK less \in Seq(Byte) : less = SubSeq(text, 1, j - 1)
      BY <2>1, Firsts
    <2>9. Decoding(bits)[at] = Found(Root, 0, less)
      BY <1>4, <2>2, <2>8
    <2>10. at + CodeOf(s)[2] <= Len(bits)
      <3>1. PICK e \in Nat : e = Len(bits)
        BY LenProperties
      <3>2. at + l <= size /\ size <= e
        BY <2>6, <3>1
      <3>3. at + l <= e
        BY <3>2
      <3> QED
        BY <2>4, <3>1, <3>3
    <2>11. Decoding(bits)[at + CodeOf(s)[2]] = Found(Root, 0, Append(less, s))
      <3>1. \A i \in 1 .. CodeOf(s)[2] : bits[at + i] = CodeOfBits(s)[i]
        BY <2>4, <2>7
      <3> QED
        BY <2>9, <2>10, <3>1, WordRead
    <2>12. SubSeq(text, 1, j) = Append(less, s)
      BY <2>1, <2>3, <2>8, Firsts
    <2> QED
      BY <2>1, <2>4, <2>6, <2>11, <2>12
  <1>5. n \in P
    <2> HIDE DEF P
    <2>1. \A j \in 0 .. n : j \in P
      BY <1>3, <1>4, UpTo
    <2> QED
      BY <2>1
  <1>6. SubSeq(text, 1, n) = text
    BY <1>1, SubSeqFull
  <1>7. f[n] = size
    <2>1. n \in 0 .. n
      OBVIOUS
    <2> QED
      BY <1>2, <1>6, <2>1
  <1> QED
    BY <1>5, <1>6, <1>7

\* Every string of bytes comes back from its Huffman code, which has the length
\* that encode_string announces.
THEOREM HuffmanComesBack ==
    ASSUME NEW text \in Seq(Byte)
    PROVE  /\ EncodeHuffman(text) \in Seq(Byte)
           /\ DecodeHuffman(EncodeHuffman(text)) = [is |-> "Done", text |-> text]
           /\ Len(EncodeHuffman(text)) = EncodedLen(text)
  <1>1. PICK bits \in Seq(Bit), size \in Nat, free \in 0 .. 7, m \in Nat :
           /\ size = Len(CodeBits(text)) /\ Len(bits) = size + free /\ size + free = 8 * m
           /\ (\A i \in 1 .. size : bits[i] = CodeBits(text)[i])
           /\ (\A i \in 1 .. free : bits[size + i] = 1)
           /\ EncodeHuffman(text) = BytesOf(bits) /\ EncodedLen(text) = m
    BY PaddedBits
  <1>2. PICK data \in Seq(Byte) : data = EncodeHuffman(text) /\ Len(data) = m /\ DataBits(data) = bits
    <2>1. Len(bits) = 8 * m
      BY <1>1
    <2>2. BytesOf(bits) \in Seq(Byte) /\ Len(BytesOf(bits)) = m /\ DataBits(BytesOf(bits)) = bits
      BY <2>1, BytesBack
    <2> QED
      BY <1>1, <2>2
  <1>3. PICK n \in Nat : n = 8 * m /\ n = size + free /\ n = Len(bits)
    BY <1>1
  <1>4. PICK after : after = Decoding(bits)
           /\ \A k \in 1 .. n : after[k] = Descend(after[k - 1], bits[k], k > n - 8)
    BY <1>3, DecodingSteps
  <1>5. after[size] = Found(Root, 0, text)
    <2>1. size <= Len(bits)
      BY <1>3
    <2> QED
      BY <1>1, <1>4, <2>1, TextRead
  <1> DEFINE P == {i \in 0 .. free : after[size + i] = Found(AllOnes(i), i, text)}
  <1>6. 0 \in P
    <2>1. size + 0 = size /\ 0 \in 0 .. free
      OBVIOUS
    <2>2. AllOnes(0) = Root
      BY Doubling DEF AllOnes, Root
    <2> QED
      BY <1>5, <2>1, <2>2
  <1>7. ASSUME NEW i \in 1 .. free, i - 1 \in P PROVE i \in P
    <2>1. size + i \in 1 .. n /\ (size + i) - 1 = size + (i - 1) /\ size + i > n - 8
          /\ i \in 0 .. free
      BY <1>3
    <2>2. after[size + i] = Descend(Found(AllOnes(i - 1), i - 1, text), 1, TRUE)
      <3>1. after[size + i] = Descend(after[(size + i) - 1], bits[size + i], size + i > n - 8)
        BY <1>4, <2>1
      <3>2. bits[size + i] = 1
        BY <1>1
      <3>3. after[(size + i) - 1] = Found(AllOnes(i - 1), i - 1, text)
        BY <1>7, <2>1
      <3>4. (size + i > n - 8) = TRUE
        BY <2>1
      <3> QED
        BY <3>1, <3>2, <3>3, <3>4
    <2>3. PICK h \in 0 .. 28 : h = i - 1 /\ h + 1 = i
      OBVIOUS
    <2>4. Descend(Found(AllOnes(h), h, text), 1, TRUE) = Found(AllOnes(h + 1), h + 1, text)
      BY OneMoreOne
    <2> QED
      BY <2>1, <2>2, <2>3, <2>4
  <1>8. after[n] = Found(AllOnes(free), free, text)
    <2> HIDE DEF P
    <2>1. free \in Nat /\ free \in 0 .. free
      OBVIOUS
    <2>2. free \in P
      BY <1>6, <1>7, <2>1, UpTo
    <2> QED
      BY <1>3, <2>2 DEF P
  <1>9. PICK last : last = after[n] /\ last.is = "Done" /\ last.node = AllOnes(free) /\ last.left = free
           /\ last.text = text
    BY <1>8 DEF Found
  <1>10. PaddingAccepted(last.node, last.left)
    BY <1>9, OnesArePadding
  <1>11. DecodeHuffman(data) = [is |-> "Done", text |-> text]
    <2>1. DecodeHuffman(data) =
             [is |-> IF last.is = "Done" /\ last.node # Root /\ ~PaddingAccepted(last.node, last.left)
                     THEN "InvalidPadding" ELSE last.is, text |-> last.text]
      BY <1>2, <1>3, <1>4, <1>9 DEF DecodeHuffman
    <2> QED
      BY <1>9, <1>10, <2>1
  <1> QED
    BY <1>1, <1>2, <1>11

\* Of the first byte, decode_integer sees the prefix only.
LEMMA OnlyThePrefix ==
    ASSUME NEW data \in Seq(Byte), NEW other \in Seq(Byte), NEW prefix \in Nat,
           data # <<>>, Len(other) = Len(data), data[1] % Pow2[prefix] = other[1] % Pow2[prefix],
           \A k \in 2 .. Len(data) : data[k] = other[k]
    PROVE  DecodeInteger(data, prefix) = DecodeInteger(other, prefix)
  <1>1. PICK n \in Nat \ {0} : n = Len(data) /\ n = Len(other)
    BY EmptySeq
  <1>2. other # <<>>
    BY <1>1, EmptySeq
  <1>3. PICK r, p : r = Reading(data, prefix) /\ p = Reading(other, prefix)
    OBVIOUS
  <1>4. /\ r[1] = [is |-> IF data[1] % Pow2[prefix] < Full(prefix) THEN "Done" ELSE "Reading",
                   value |-> data[1] % Pow2[prefix], used |-> 1]
        /\ \A k \in 2 .. n : r[k] = IF r[k - 1].is = "Reading"
                                    THEN Take(r[k - 1], data[k], 7 * (k - 2)) ELSE r[k - 1]
    BY <1>1, <1>3, ReadingSteps
  <1>5. /\ p[1] = [is |-> IF other[1] % Pow2[prefix] < Full(prefix) THEN "Done" ELSE "Reading",
                   value |-> other[1] % Pow2[prefix], used |-> 1]
        /\ \A k \in 2 .. n : p[k] = IF p[k - 1].is = "Reading"
                                    THEN Take(p[k - 1], other[k], 7 * (k - 2)) ELSE p[k - 1]
    BY <1>1, <1>2, <1>3, ReadingSteps
  <1> DEFINE P == {k \in 0 .. n : k > 0 => p[k] = r[k]}
  <1>6. 0 \in P
    OBVIOUS
  <1>7. ASSUME NEW k \in 1 .. n, k - 1 \in P PROVE k \in P
    <2>1. CASE k = 1
      BY <1>4, <1>5, <2>1
    <2>2. CASE k # 1
      <3>1. k \in 2 .. n /\ k \in 2 .. Len(data) /\ k - 1 > 0
        BY <1>1, <2>2
      <3>2. p[k - 1] = r[k - 1]
        BY <1>7, <3>1
      <3>3. p[k] = r[k]
        BY <1>4, <1>5, <3>1, <3>2
      <3> QED
        BY <3>3
    <2> QED
      BY <2>1, <2>2
  <1>8. p[n] = r[n]
    <2> HIDE DEF P
    <2>1. \A k \in 0 .. n : k \in P
      BY <1>6, <1>7, UpTo
    <2>2. n \in P /\ n > 0
      BY <2>1
    <2> QED
      BY <2>2 DEF P
  <1>9. /\ DecodeInteger(data, prefix) = IF r[n].is = "Reading"
                                         THEN [is |-> "Incomplete", value |-> 0, used |-> 0] ELSE r[n]
        /\ DecodeInteger(other, prefix) = IF p[n].is = "Reading"
                                          THEN [is |-> "Incomplete", value |-> 0, used |-> 0] ELSE p[n]
    BY <1>1, <1>2, <1>3, ReadToTheEnd
  <1> QED
    BY <1>8, <1>9

\* The bytes of an integer behind a mark: the first one holds the mark, and the
\* others do not depend on it.
LEMMA MarkedBytes ==
    ASSUME NEW prefix \in 1 .. 8, NEW value \in Nat
    PROVE  \E first \in 0 .. Full(prefix), rest \in Seq(Byte) :
              \A mark \in Nat : EncodeInteger(value, prefix, mark) = <<mark + first>> \o rest
  <1>1. PICK full \in Nat : full = Full(prefix)
    BY PrefixFits
  <1>2. CASE value < full
    <2>1. <<>> \in Seq(Byte) /\ value \in 0 .. full
      BY <1>2, EmptySeq
    <2>2. ASSUME NEW mark \in Nat PROVE EncodeInteger(value, prefix, mark) = <<mark + value>> \o <<>>
      <3>1. EncodeInteger(value, prefix, mark) = <<mark + value>>
        BY <1>1, <1>2 DEF EncodeInteger
      <3>2. <<mark + value>> \o <<>> = <<mark + value>>
        OBVIOUS
      <3> QED
        BY <3>1, <3>2
    <2> QED
      BY <1>1, <2>1, <2>2
  <1>3. CASE ~(value < full)
    <2>1. PICK m \in Nat : m = value - full
      BY <1>3
    <2>2. Groups[m] \in Seq(Byte) /\ full \in 0 .. full
      BY GroupsAddUp DEF AddUp
    <2>3. \A mark \in Nat : EncodeInteger(value, prefix, mark) = <<mark + full>> \o Groups[m]
      BY <1>1, <1>3, <2>1 DEF EncodeInteger
    <2> QED
      BY <1>1, <2>2, <2>3
  <1> QED
    BY <1>2, <1>3

\* Some bytes are read as the value, whatever follows, under the mark.
ReadsAs(out, value, prefix, mark, junk) ==
    /\ out \in Seq(Byte) /\ Len(out) \in Nat \ {0}
    /\ out \o junk # <<>> /\ (out \o junk)[1] \in mark .. mark + Full(prefix)
    /\ DecodeInteger(out \o junk, prefix) = [is |-> "Done", value |-> value, used |-> Len(out)]

\* Every value of a word comes back under a mark, which the first byte tells.
LEMMA MarkedComesBack ==
    ASSUME NEW prefix \in 1 .. 8, NEW value \in 0 .. WordMax, NEW q \in Nat, NEW mark \in Nat,
           mark = Pow2[prefix] * q, mark + Full(prefix) < 256, NEW junk \in Seq(Byte)
    PROVE  ReadsAs(EncodeInteger(value, prefix, mark), value, prefix, mark, junk)
  <1>1. PICK full \in Nat, p \in Nat \ {0} : full = Full(prefix) /\ p = Pow2[prefix] /\ p = full + 1
    <2>1. Full(prefix) \in Nat /\ Pow2[prefix] = Full(prefix) + 1
      BY PrefixFits
    <2>2. prefix \in Nat
      OBVIOUS
    <2>3. Pow2[prefix] \in Nat \ {0}
      BY <2>2, Doubling
    <2> QED
      BY <2>1, <2>3
  <1>2. value \in Nat
    BY WordEnds
  <1>3. PICK first \in 0 .. full, rest \in Seq(Byte) :
           \A m \in Nat : EncodeInteger(value, prefix, m) = <<m + first>> \o rest
    BY <1>1, <1>2, MarkedBytes
  <1>4. PICK b \in Byte, c \in Byte : b = mark + first /\ c = first /\ b \in mark .. mark + full
    <2>1. mark + full < 256
      BY <1>1
    <2>2. mark + first \in 0 .. 255 /\ first \in 0 .. 255 /\ mark + first \in mark .. mark + full
      <3>1. PICK x \in Nat, y \in Nat : x = first /\ x <= full /\ y = mark + x
        <4>1. first \in Nat /\ first <= full /\ mark + first \in Nat
          OBVIOUS
        <4> QED
          BY <4>1
      <3>2. y < 256 /\ x < 256 /\ y \in mark .. mark + full
        BY <2>1, <3>1
      <3>3. y \in 0 .. 255 /\ x \in 0 .. 255
        BY <3>2
      <3> QED
        BY <3>1, <3>2, <3>3
    <2> QED
      BY <2>2 DEF Byte
  <1>5. PICK out \in Seq(Byte), plain \in Seq(Byte), r \in Nat :
           /\ out = <<b>> \o rest /\ plain = <<c>> \o rest /\ r = Len(rest)
           /\ Len(out) = r + 1 /\ Len(plain) = r + 1 /\ out[1] = b /\ plain[1] = c
           /\ \A i \in 1 .. r : out[i + 1] = rest[i] /\ plain[i + 1] = rest[i]
    <2>1. /\ <<b>> \o rest \in Seq(Byte) /\ Len(<<b>> \o rest) = Len(rest) + 1 /\ Len(rest) \in Nat
          /\ (<<b>> \o rest)[1] = b /\ \A i \in 1 .. Len(rest) : (<<b>> \o rest)[i + 1] = rest[i]
      BY OneInFront
    <2>2. /\ <<c>> \o rest \in Seq(Byte) /\ Len(<<c>> \o rest) = Len(rest) + 1
          /\ (<<c>> \o rest)[1] = c /\ \A i \in 1 .. Len(rest) : (<<c>> \o rest)[i + 1] = rest[i]
      BY OneInFront
    <2>3. PICK out \in Seq(Byte), plain \in Seq(Byte), r \in Nat :
             out = <<b>> \o rest /\ plain = <<c>> \o rest /\ r = Len(rest)
      BY <2>1, <2>2
    <2>4. Len(out) = r + 1 /\ Len(plain) = r + 1 /\ out[1] = b /\ plain[1] = c
      BY <2>1, <2>2, <2>3
    <2>5. \A i \in 1 .. r : out[i + 1] = rest[i] /\ plain[i + 1] = rest[i]
      BY <2>1, <2>2, <2>3
    <2> QED
      BY <2>3, <2>4, <2>5
  <1>6. EncodeInteger(value, prefix, mark) = out /\ EncodeInteger(value, prefix, 0) = plain
    <2>1. 0 \in Nat /\ 0 + first = first
      OBVIOUS
    <2> QED
      BY <1>3, <1>4, <1>5, <2>1
  <1>7. DecodeInteger(plain \o junk, prefix) = [is |-> "Done", value |-> value, used |-> r + 1]
    BY <1>5, <1>6, IntegerComesBack
  <1>8. PICK data \in Seq(Byte), other \in Seq(Byte), j \in Nat :
           /\ data = out \o junk /\ other = plain \o junk /\ Len(data) = r + 1 + j /\ Len(other) = r + 1 + j
           /\ \A i \in 1 .. r + 1 : data[i] = out[i] /\ other[i] = plain[i]
           /\ \A i \in 1 .. r + 1 + j : ~(i <= r + 1) => data[i] = junk[i - (r + 1)] /\ other[i] = junk[i - (r + 1)]
    <2>1. /\ out \o junk \in Seq(Byte) /\ Len(out \o junk) = Len(out) + Len(junk)
          /\ \A i \in 1 .. Len(out) + Len(junk) :
                (out \o junk)[i] = IF i <= Len(out) THEN out[i] ELSE junk[i - Len(out)]
      BY ConcatProperties
    <2>2. /\ plain \o junk \in Seq(Byte) /\ Len(plain \o junk) = Len(plain) + Len(junk)
          /\ \A i \in 1 .. Len(plain) + Len(junk) :
                (plain \o junk)[i] = IF i <= Len(plain) THEN plain[i] ELSE junk[i - Len(plain)]
      BY ConcatProperties
    <2>3. PICK j \in Nat : j = Len(junk)
      BY LenProperties
    <2>4. PICK data \in Seq(Byte), other \in Seq(Byte) : data = out \o junk /\ other = plain \o junk
      BY <2>1, <2>2
    <2>5. /\ Len(data) = r + 1 + j /\ Len(other) = r + 1 + j
          /\ \A i \in 1 .. r + 1 + j : data[i] = IF i <= r + 1 THEN out[i] ELSE junk[i - (r + 1)]
          /\ \A i \in 1 .. r + 1 + j : other[i] = IF i <= r + 1 THEN plain[i] ELSE junk[i - (r + 1)]
      BY <1>5, <2>1, <2>2, <2>3, <2>4
    <2>6. \A i \in 1 .. r + 1 : data[i] = out[i] /\ other[i] = plain[i]
      BY <2>5
    <2>7. \A i \in 1 .. r + 1 + j :
             ~(i <= r + 1) => data[i] = junk[i - (r + 1)] /\ other[i] = junk[i - (r + 1)]
      BY <2>5
    <2> QED
      BY <2>4, <2>5, <2>6, <2>7
  <1>9. data # <<>> /\ data[1] = b /\ other[1] = c
    <2>1. 1 \in 1 .. r + 1 /\ Len(data) # 0
      BY <1>8
    <2> QED
      BY <1>5, <1>8, <2>1, EmptySeq
  <1>10. data[1] % Pow2[prefix] = other[1] % Pow2[prefix]
    <2>1. first < p /\ first \in Nat
      BY <1>1
    <2>2. (p * q + first) % p = first
      BY <2>1, Divided
    <2>3. first % p = first
      BY <2>1, NoMore
    <2>4. b = p * q + first
      BY <1>1, <1>4
    <2> QED
      BY <1>1, <1>4, <1>9, <2>2, <2>3, <2>4
  <1>11. ASSUME NEW k \in 2 .. Len(data) PROVE data[k] = other[k]
    <2>1. k \in 1 .. r + 1 + j
      BY <1>8
    <2>2. CASE k <= r + 1
      <3>1. PICK i \in 1 .. r : k = i + 1
        BY <2>1, <2>2
      <3>2. k \in 1 .. r + 1
        BY <2>2
      <3> QED
        BY <1>5, <1>8, <3>1, <3>2
    <2>3. CASE ~(k <= r + 1)
      BY <1>8, <2>1, <2>3
    <2> QED
      BY <2>2, <2>3
  <1>12. DecodeInteger(data, prefix) = DecodeInteger(other, prefix)
    <2>1. prefix \in Nat /\ Len(other) = Len(data)
      BY <1>8
    <2> QED
      BY <1>9, <1>10, <1>11, <2>1, OnlyThePrefix
  <1>13. DecodeInteger(out \o junk, prefix) = [is |-> "Done", value |-> value, used |-> Len(out)]
    BY <1>5, <1>7, <1>8, <1>12
  <1>14. out \in Seq(Byte) /\ Len(out) \in Nat \ {0} /\ out \o junk # <<>>
         /\ (out \o junk)[1] \in mark .. mark + Full(prefix)
    <2>1. Len(out) \in Nat \ {0}
      BY <1>5
    <2> QED
      BY <1>1, <1>4, <1>8, <1>9, <2>1
  <1> QED
    BY <1>6, <1>13, <1>14 DEF ReadsAs

\* Three parts one behind the other: what stands between two of them is found
\* there, and what stands behind the first.
Parts(a, b, c) ==
    LET all == (a \o b) \o c
    IN /\ all = a \o (b \o c) /\ all \in Seq(Byte) /\ b \o c \in Seq(Byte) /\ a \o b \in Seq(Byte)
       /\ Len(all) = Len(a) + Len(b) + Len(c) /\ Len(a \o b) = Len(a) + Len(b)
       /\ Len(a) \in Nat /\ Len(b) \in Nat /\ Len(c) \in Nat
       /\ SubSeq(all, Len(a) + 1, Len(a) + Len(b)) = b
       /\ Behind(all, Len(a)) = b \o c

\* Three sequences of bytes stand so.
LEMMA Between ==
    ASSUME NEW a \in Seq(Byte), NEW b \in Seq(Byte), NEW c \in Seq(Byte)
    PROVE  Parts(a, b, c)
  <1>1. PICK m \in Nat, n \in Nat, l \in Nat : m = Len(a) /\ n = Len(b) /\ l = Len(c)
    BY LenProperties
  <1>2. PICK ab \in Seq(Byte), bc \in Seq(Byte), abc \in Seq(Byte) :
           /\ ab = a \o b /\ bc = b \o c /\ abc = ab \o c /\ abc = a \o bc
           /\ Len(ab) = m + n /\ Len(abc) = m + n + l
    <2>1. a \o b \in Seq(Byte) /\ b \o c \in Seq(Byte) /\ (a \o b) \o c = a \o (b \o c) /\ Len(a \o b) = m + n
      BY <1>1, ConcatProperties, ConcatAssociative
    <2>2. (a \o b) \o c \in Seq(Byte) /\ Len((a \o b) \o c) = Len(a \o b) + Len(c)
      BY <2>1, ConcatProperties
    <2> QED
      BY <1>1, <2>1, <2>2
  <1>3. ab = SubSeq(abc, 1, m + n)
    <2>1. SubSeq(ab \o c, 1, Len(ab)) = ab
      BY EndToEnd
    <2> QED
      BY <1>2, <2>1
  <1>4. \A i \in 1 .. n : abc[m + i] = b[i]
    <2>1. ASSUME NEW i \in 1 .. n PROVE abc[m + i] = b[i]
      <3>1. m + i \in 1 .. m + n /\ ~(m + i <= m) /\ (m + i) - m = i /\ m + i \in 1 .. Len(ab)
        BY <1>2
      <3>2. ab[m + i] = b[i]
        <4>1. \A k \in 1 .. Len(a) + Len(b) : (a \o b)[k] = IF k <= Len(a) THEN a[k] ELSE b[k - Len(a)]
          BY ConcatProperties
        <4> QED
          BY <1>1, <1>2, <3>1, <4>1
      <3>3. (ab \o c)[m + i] = ab[m + i]
        <4>1. \A k \in 1 .. Len(ab) : (ab \o c)[k] = ab[k]
          BY InFront
        <4> QED
          BY <3>1, <4>1
      <3> QED
        BY <1>2, <3>2, <3>3
    <2> QED
      BY <2>1
  <1>5. SubSeq(abc, m + 1, m + n) = b
    <2>1. PICK low \in Nat, high \in Nat : low = m + 1 /\ high = m + n /\ high <= Len(abc) /\ low <= high + 1
      <3>1. m + 1 \in Nat /\ m + n \in Nat /\ m + n <= Len(abc) /\ m + 1 <= (m + n) + 1
        BY <1>2
      <3> QED
        BY <3>1
    <2>2. PICK part : part = SubSeq(abc, low, high)
      OBVIOUS
    <2>3. part = [i \in 1 .. n |-> abc[i + m]]
      <3>1. part = [i \in 1 .. (high - low) + 1 |-> abc[(i + low) - 1]]
        BY <2>2
      <3>2. (high - low) + 1 = n /\ \A i \in 1 .. n : (i + low) - 1 = i + m
        BY <2>1
      <3> QED
        BY <3>1, <3>2
    <2>4. b = [i \in 1 .. n |-> b[i]]
      BY <1>1
    <2>5. \A i \in 1 .. n : abc[i + m] = b[i]
      <3>1. \A i \in 1 .. n : i + m = m + i
        OBVIOUS
      <3> QED
        BY <1>4, <3>1
    <2> QED
      BY <2>1, <2>2, <2>3, <2>4, <2>5
  <1>6. Behind(abc, m) = bc
    <2>1. Drop(a \o bc, Len(a)) = bc
      BY EndToEnd
    <2> QED
      BY <1>1, <1>2, <2>1 DEF Drop, Behind
  <1> QED
    BY <1>1, <1>2, <1>5, <1>6 DEF Parts

\* The prefixes of strings and of fields.
LEMMA PrefixesOfFields ==
    /\ Pow2[7] = 128 /\ Full(7) = 127 /\ 7 \in 1 .. 8
    /\ Pow2[6] = 64 /\ Full(6) = 63 /\ 6 \in 1 .. 8
  <1>1. Pow2[0 + 7] = 128 * Pow2[0] /\ Pow2[0] = 1
    <2>1. 0 \in Nat
      OBVIOUS
    <2> QED
      BY <2>1, SevenMore, Doubling
  <1>2. 7 \in Nat \ {0} /\ 7 - 1 = 6 /\ 0 + 7 = 7 /\ 6 \in Nat
    OBVIOUS
  <1>3. Pow2[7] = 2 * Pow2[6] /\ Pow2[6] \in Nat
    BY <1>2, Doubling
  <1>4. Pow2[7] = 128 /\ Pow2[6] = 64
    BY <1>1, <1>2, <1>3
  <1> QED
    BY <1>4 DEF Full

\* A string of bytes with its length in front, under the mark that says how it
\* is written.
LEMMA CountedString ==
    ASSUME NEW bytes \in Seq(Byte), NEW huffman \in BOOLEAN, NEW mark,
           mark = (IF huffman THEN 128 ELSE 0), NEW out,
           out = EncodeInteger(Len(bytes), 7, mark) \o bytes, Len(out) <= WordMax,
           NEW junk \in Seq(Byte)
    PROVE  /\ out \in Seq(Byte) /\ Len(out) \in Nat \ {0}
           /\ DecodeString(out \o junk) = Text(bytes, huffman, Len(out))
  <1>1. PICK l \in Nat : l = Len(bytes)
    BY LenProperties
  <1>2. PICK q \in Nat, m \in Nat :
           m = mark /\ m = Pow2[7] * q /\ m + Full(7) < 256 /\ m = IF huffman THEN 128 ELSE 0
    <2>1. CASE huffman
      <3>1. mark = 128 * 1 /\ 128 + 127 < 256 /\ 128 \in Nat /\ mark = 128
        BY <2>1
      <3> QED
        BY <2>1, <3>1, PrefixesOfFields
    <2>2. CASE ~huffman
      <3>1. mark = 128 * 0 /\ 0 + 127 < 256 /\ mark = 0
        BY <2>2
      <3> QED
        BY <2>2, <3>1, PrefixesOfFields
    <2> QED
      BY <2>1, <2>2
  <1>3. PICK head \in Seq(Byte) : head = EncodeInteger(l, 7, m)
    <2>1. PICK first \in 0 .. Full(7), rest \in Seq(Byte) :
             \A any \in Nat : EncodeInteger(l, 7, any) = <<any + first>> \o rest
      BY PrefixesOfFields, MarkedBytes
    <2>2. first \in 0 .. 127 /\ m + 127 < 256
      BY <1>2, <2>1, PrefixesOfFields
    <2>3. m + first \in 0 .. 255
      BY <2>2
    <2>4. PICK x \in Byte : x = m + first
      BY <2>3 DEF Byte
    <2>5. <<x>> \o rest \in Seq(Byte)
      BY OneInFront
    <2> QED
      BY <2>1, <2>4, <2>5
  <1>4. out = head \o bytes
    BY <1>1, <1>2, <1>3
  <1>5. PICK back \in Seq(Byte), data \in Seq(Byte), h \in Nat, j \in Nat :
           /\ back = bytes \o junk /\ data = out \o junk /\ data = head \o back /\ h = Len(head)
           /\ j = Len(junk) /\ out \in Seq(Byte) /\ Len(out) = h + l /\ Len(data) = h + l + j
           /\ SubSeq(data, h + 1, h + l) = bytes
    <2>1. out = head \o bytes
      BY <1>4
    <2>2. Parts(head, bytes, junk)
      BY Between
    <2> QED
      BY <1>1, <2>1, <2>2 DEF Parts
  <1>6. l \in 0 .. WordMax
    <2>1. h + l <= WordMax
      BY <1>5
    <2> QED
      BY <2>1, WordEnds
  <1>7. /\ h \in Nat \ {0} /\ data[1] \in m .. m + 127
        /\ DecodeInteger(data, 7) = [is |-> "Done", value |-> l, used |-> h]
    <2>1. PICK prefix \in 1 .. 8 : prefix = 7
      OBVIOUS
    <2>2. m = Pow2[prefix] * q /\ m + Full(prefix) < 256
      BY <1>2, <2>1
    <2>3. ReadsAs(EncodeInteger(l, prefix, m), l, prefix, m, back)
      BY <1>6, <2>2, MarkedComesBack
    <2> QED
      BY <1>3, <1>5, <2>1, <2>3, PrefixesOfFields DEF ReadsAs
  <1>8. PICK length : length = DecodeInteger(data, 7) /\ length.is = "Done" /\ length.value = l /\ length.used = h
    BY <1>7
  <1>9. PICK end \in Nat : end = h + l /\ end = length.used + length.value /\ end = Len(out)
    BY <1>5, <1>8
  <1>10. PICK available : available = Len(data)
    OBVIOUS
  <1>11. DecodeString(data) = IF end > WordMax THEN Failed("InvalidInteger")
                ELSE IF end > available THEN Failed("Incomplete")
                ELSE Text(SubSeq(data, length.used + 1, end), data[1] >= 128, end)
    <2>1. length = DecodeInteger(data, 7) /\ length.is = "Done" /\ end = length.used + length.value
          /\ available = Len(data)
      BY <1>8, <1>9, <1>10
    <2> QED
      BY <2>1 DEF DecodeString, StringEnd, Try
  <1>12. ~(end > WordMax) /\ ~(end > available)
    <2>1. end <= WordMax /\ available = end + j
      BY <1>5, <1>9, <1>10
    <2> QED
      BY <2>1, WordEnds
  <1>13. DecodeString(data) = Text(SubSeq(data, length.used + 1, end), data[1] >= 128, end)
    BY <1>11, <1>12
  <1>14. (data[1] >= 128) = huffman
    <2>1. PICK x \in Nat : x = data[1] /\ x >= m /\ x <= m + 127
      BY <1>7
    <2>2. CASE huffman
      <3>1. x >= 128 /\ huffman = TRUE
        BY <1>2, <2>1, <2>2
      <3> QED
        BY <2>1, <3>1
    <2>3. CASE ~huffman
      <3>1. ~(x >= 128) /\ huffman = FALSE
        BY <1>2, <2>1, <2>3
      <3> QED
        BY <2>1, <3>1
    <2> QED
      BY <2>2, <2>3
  <1>15. DecodeString(data) = Text(bytes, huffman, Len(out))
    BY <1>5, <1>8, <1>9, <1>13, <1>14, Zenon
  <1>16. Len(out) \in Nat \ {0}
    BY <1>5, <1>7
  <1> QED
    BY <1>5, <1>15, <1>16

\* Every text that is written as a string comes back, in Huffman code or not.
LEMMA StringComesBack ==
    ASSUME NEW text \in DOMAIN Octets, Len(EncodeString(text)) <= WordMax, NEW junk \in Seq(Byte)
    PROVE  /\ EncodeString(text) \in Seq(Byte) /\ Len(EncodeString(text)) \in Nat \ {0}
           /\ DecodeString(EncodeString(text) \o junk)
                 = [is |-> "Done", what |-> Octets[text], used |-> Len(EncodeString(text))]
  <1>1. PICK plain \in Seq(Byte) : plain = Octets[text]
    BY HpackFormatAssumption DEF Byte
  <1>2. PICK code \in Seq(Byte) : code = EncodeHuffman(plain) /\ Len(code) = EncodedLen(plain)
           /\ DecodeHuffman(code) = [is |-> "Done", text |-> plain]
    BY HuffmanComesBack
  <1>3. PICK out : out = EncodeString(text)
    OBVIOUS
  <1>4. CASE EncodedLen(plain) < Len(plain)
    <2>1. out = EncodeInteger(Len(code), 7, 128) \o code
      BY <1>1, <1>2, <1>3, <1>4 DEF EncodeString
    <2>2. out \in Seq(Byte) /\ Len(out) \in Nat \ {0} /\ DecodeString(out \o junk) = Text(code, TRUE, Len(out))
      <3>1. PICK yes \in BOOLEAN, mark \in Nat : yes = TRUE /\ mark = 128 /\ mark = IF yes THEN 128 ELSE 0
        OBVIOUS
      <3>2. out = EncodeInteger(Len(code), 7, mark) \o code /\ Len(out) <= WordMax
        BY <1>3, <2>1, <3>1
      <3>3. out \in Seq(Byte) /\ Len(out) \in Nat \ {0} /\ DecodeString(out \o junk) = Text(code, yes, Len(out))
        BY <3>1, <3>2, CountedString
      <3> QED
        BY <3>1, <3>3
    <2>3. \A used : Text(code, TRUE, used) = [is |-> "Done", what |-> plain, used |-> used]
      BY <1>2 DEF Text
    <2> QED
      BY <1>1, <1>3, <2>2, <2>3
  <1>5. CASE ~(EncodedLen(plain) < Len(plain))
    <2>1. out = EncodeInteger(Len(plain), 7, 0) \o plain
      BY <1>1, <1>3, <1>5 DEF EncodeString
    <2>2. out \in Seq(Byte) /\ Len(out) \in Nat \ {0} /\ DecodeString(out \o junk) = Text(plain, FALSE, Len(out))
      <3>1. PICK no \in BOOLEAN, mark \in Nat : no = FALSE /\ mark = 0 /\ mark = IF no THEN 128 ELSE 0
        OBVIOUS
      <3>2. out = EncodeInteger(Len(plain), 7, mark) \o plain /\ Len(out) <= WordMax
        BY <1>3, <2>1, <3>1
      <3>3. out \in Seq(Byte) /\ Len(out) \in Nat \ {0} /\ DecodeString(out \o junk) = Text(plain, no, Len(out))
        BY <3>1, <3>2, CountedString
      <3> QED
        BY <3>1, <3>3
    <2>3. \A used : Text(plain, FALSE, used) = [is |-> "Done", what |-> plain, used |-> used]
      BY DEF Text
    <2> QED
      BY <1>1, <1>3, <2>2, <2>3
  <1> QED
    BY <1>4, <1>5

\* The entries of the static table have the indices from 1 to its length.
LEMMA StaticTableIs ==
    StaticLen \in Nat /\ DOMAIN ENTRIES = 1 .. StaticLen
  <1>1. PICK S : S = {Entries1[k] : k \in 1 .. 31} \cup {Entries32[k] : k \in 1 .. 30}
    OBVIOUS
  <1>2. Entries1 \in Seq(S)
    <2>1. Entries1 = [k \in 1 .. 31 |-> Entries1[k]]
      BY DEF Entries1
    <2>2. 31 \in Nat /\ Entries1 \in [1 .. 31 -> S]
      BY <1>1, <2>1
    <2> QED
      BY <2>2, SeqDef
  <1>3. Entries32 \in Seq(S)
    <2>1. Entries32 = [k \in 1 .. 30 |-> Entries32[k]]
      BY DEF Entries32
    <2>2. 30 \in Nat /\ Entries32 \in [1 .. 30 -> S]
      BY <1>1, <2>1
    <2> QED
      BY <2>2, SeqDef
  <1>4. ENTRIES \in Seq(S)
    BY <1>2, <1>3, ConcatProperties DEF ENTRIES
  <1> QED
    BY <1>4, LenProperties DEF StaticLen

\* The least of some numbers is one of them.
LEMMA LeastIsOne ==
    ASSUME NEW n \in Nat, NEW at \in SUBSET (1 .. n), at # {}
    PROVE  Least(at) \in at /\ Least(at) \in 1 .. n
  <1>1. at \in SUBSET Nat
    OBVIOUS
  <1>2. \E k \in at : \A j \in at : k <= j
    BY <1>1, LeastNumber
  <1>3. Least(at) \in at
    BY <1>2, Zenon DEF Least
  <1> QED
    BY <1>3

\* What encode_header finds in the tables is there, under the index it gives.
Holds(index, table, field) == Known(index, table) /\ GetHeader(index, table) = field
Names(index, table, field) == Known(index, table) /\ GetHeader(index, table)[1] = field[1]

\* It is there for every field that it looks up.
LEMMA Lookup ==
    ASSUME NEW table, NEW field, Indexable(table)
    PROVE  /\ Len(table) \in Nat
           /\ StaticFind(field).exact => Holds(StaticFind(field).at, table, field)
           /\ StaticFind(field).at # 0 => Names(StaticFind(field).at, table, field)
           /\ DynamicField(table, field) # 0
                => Holds(DynamicIndex(DynamicField(table, field)), table, field)
           /\ DynamicName(table, field) # 0
                => Names(DynamicIndex(DynamicName(table, field)), table, field)
  <1>1. PICK n \in Nat, e \in Nat : n = Len(table) /\ e = StaticLen /\ DOMAIN table = 1 .. n
           /\ DOMAIN ENTRIES = 1 .. e
    <2>1. Len(table) \in Nat /\ DOMAIN table = 1 .. Len(table)
      BY LenProperties DEF Indexable
    <2> QED
      BY <2>1, StaticTableIs
  <1>2. ASSUME NEW k \in 1 .. e
        PROVE  Known(k, table) /\ GetHeader(k, table) = ENTRIES[k]
    <2>1. k \in 1 .. e + n /\ k <= e
      OBVIOUS
    <2> QED
      BY <1>1, <2>1 DEF Known, GetHeader
  <1>3. ASSUME NEW k \in 1 .. n
        PROVE  Known(DynamicIndex(k), table) /\ GetHeader(DynamicIndex(k), table) = table[k]
    <2>1. e + k \in 1 .. e + n /\ ~(e + k <= e) /\ (e + k) - e = k
      OBVIOUS
    <2> QED
      BY <1>1, <2>1 DEF Known, GetHeader, DynamicIndex
  <1>4. PICK both \in SUBSET (1 .. e), name \in SUBSET (1 .. e) :
           /\ both = {k \in DOMAIN ENTRIES : ENTRIES[k] = field}
           /\ name = {k \in DOMAIN ENTRIES : ENTRIES[k][1] = field[1]}
    BY <1>1
  <1>5. /\ StaticFind(field).exact = (both # {})
        /\ StaticFind(field).at = IF both # {} THEN Least(both) ELSE IF name # {} THEN Least(name) ELSE 0
    BY <1>4 DEF StaticFind
  <1>6. both # {} => Holds(StaticFind(field).at, table, field)
    <2> SUFFICES ASSUME both # {} PROVE Holds(StaticFind(field).at, table, field)
      OBVIOUS
    <2>1. PICK k \in both : k = StaticFind(field).at
      BY <1>5, LeastIsOne
    <2>2. k \in 1 .. e /\ ENTRIES[k] = field
      BY <1>4
    <2> QED
      BY <1>2, <2>1, <2>2 DEF Holds
  <1>7. both = {} /\ name # {} => Names(StaticFind(field).at, table, field)
    <2> SUFFICES ASSUME both = {}, name # {} PROVE Names(StaticFind(field).at, table, field)
      OBVIOUS
    <2>1. PICK k \in name : k = StaticFind(field).at
      BY <1>5, LeastIsOne
    <2>2. k \in 1 .. e /\ ENTRIES[k][1] = field[1]
      BY <1>4
    <2> QED
      BY <1>2, <2>1, <2>2 DEF Names
  <1>8. ASSUME NEW at \in SUBSET (1 .. n), Newest(at) # 0
        PROVE  Newest(at) \in at /\ Newest(at) \in 1 .. n
    <2>1. at # {} /\ Newest(at) = Least(at)
      BY <1>8 DEF Newest
    <2> QED
      BY <2>1, LeastIsOne
  <1>9. DynamicField(table, field) # 0 => Holds(DynamicIndex(DynamicField(table, field)), table, field)
    <2> SUFFICES ASSUME DynamicField(table, field) # 0
                 PROVE  Holds(DynamicIndex(DynamicField(table, field)), table, field)
      OBVIOUS
    <2>1. PICK at \in SUBSET (1 .. n) : at = {k \in DOMAIN table : table[k] = field}
      BY <1>1
    <2>2. DynamicField(table, field) = Newest(at)
      BY <2>1 DEF DynamicField
    <2>3. PICK k \in 1 .. n : k = DynamicField(table, field) /\ k \in at
      BY <1>8, <2>2
    <2> QED
      BY <1>3, <2>1, <2>3 DEF Holds
  <1>10. DynamicName(table, field) # 0 => Names(DynamicIndex(DynamicName(table, field)), table, field)
    <2> SUFFICES ASSUME DynamicName(table, field) # 0
                 PROVE  Names(DynamicIndex(DynamicName(table, field)), table, field)
      OBVIOUS
    <2>1. PICK at \in SUBSET (1 .. n) : at = {k \in DOMAIN table : table[k][1] = field[1]}
      BY <1>1
    <2>2. DynamicName(table, field) = Newest(at)
      BY <2>1 DEF DynamicName
    <2>3. PICK k \in 1 .. n : k = DynamicName(table, field) /\ k \in at
      BY <1>8, <2>2
    <2> QED
      BY <1>3, <2>1, <2>3 DEF Names
  <1>11. StaticFind(field).at # 0 => Names(StaticFind(field).at, table, field)
    <2>1. both # {} => Names(StaticFind(field).at, table, field)
      BY <1>6 DEF Holds, Names
    <2> QED
      BY <1>5, <1>7, <2>1
  <1> QED
    BY <1>1, <1>5, <1>6, <1>9, <1>10, <1>11

\* The value behind some bytes comes back, and the text it spells.
LEMMA ValueComesBack ==
    ASSUME NEW front \in Seq(Byte), NEW text \in DOMAIN Octets, Len(EncodeString(text)) <= WordMax,
           NEW junk \in Seq(Byte), NEW name
    PROVE  /\ Parts(front, EncodeString(text), junk)
           /\ DecodeString(Behind((front \o EncodeString(text)) \o junk, Len(front)))
                 = [is |-> "Done", what |-> Octets[text], used |-> Len(EncodeString(text))]
           /\ Spelt(Octets[text]) = text
           /\ ValueBehind((front \o EncodeString(text)) \o junk, name, Len(front))
                 = [is |-> "Done", what |-> <<name, text>>, used |-> Len(front) + Len(EncodeString(text))]
  <1>1. PICK string \in Seq(Byte) : string = EncodeString(text)
           /\ DecodeString(string \o junk) = [is |-> "Done", what |-> Octets[text], used |-> Len(string)]
    BY StringComesBack
  <1>2. Parts(front, string, junk)
    BY Between
  <1>3. Behind((front \o string) \o junk, Len(front)) = string \o junk
    BY <1>2 DEF Parts
  <1>4. Spelt(Octets[text]) = text
    <2>1. \E t \in DOMAIN Octets : Octets[t] = Octets[text]
      OBVIOUS
    <2>2. PICK t \in DOMAIN Octets :
             Octets[t] = Octets[text] /\ t = CHOOSE u \in DOMAIN Octets : Octets[u] = Octets[text]
      BY <2>1, Zenon
    <2>3. t = text
      BY <2>2, HpackFormatAssumption
    <2> QED
      BY <2>1, <2>2, <2>3, Zenon DEF Spelt
  <1>5. PICK value : value = DecodeString(string \o junk) /\ value.is = "Done" /\ value.what = Octets[text]
           /\ value.used = Len(string)
    BY <1>1
  <1>6. ValueBehind((front \o string) \o junk, name, Len(front))
           = [is |-> "Done", what |-> <<name, Spelt(value.what)>>, used |-> Len(front) + value.used]
    BY <1>3, <1>5 DEF ValueBehind, Try
  <1> QED
    BY <1>1, <1>2, <1>3, <1>4, <1>5, <1>6

\* The bytes are read as the field, whatever the limit of the table is.
ReadAsField(out, field, table, junk) ==
    \A most : DecodeField(out \o junk, table, most) = [is |-> "Done", what |-> field, used |-> Len(out)]

\* An index that the tables know is a value of a word.
LEMMA KnownFits ==
    ASSUME NEW table, Indexable(table), NEW index, Known(index, table)
    PROVE  index \in Nat \ {0} /\ index \in 0 .. WordMax
  <1>1. PICK n \in Nat, e \in Nat : n = Len(table) /\ e = StaticLen /\ e + n <= WordMax
    BY StaticTableIs, LenProperties DEF Indexable
  <1>2. index \in 1 .. e + n
    BY <1>1 DEF Known
  <1>3. PICK w \in Nat : w = WordMax
    BY WordEnds
  <1>4. index \in Nat \ {0} /\ index \in 0 .. w
    BY <1>1, <1>2, <1>3
  <1> QED
    BY <1>3, <1>4

\* An integer under one of the two marks is read back, and the first byte tells
\* which of them it stands under.
SeenAs(out, value, prefix, low, high, junk) ==
    /\ out \in Seq(Byte) /\ out \o junk # <<>> /\ (out \o junk)[1] \in low .. high
    /\ DecodeInteger(out \o junk, prefix) = [is |-> "Done", value |-> value, used |-> Len(out)]

\* It does for every index that a word holds, behind the mark of an indexed
\* field and behind that of a literal one.
LEMMA IndexComesBack ==
    ASSUME NEW index \in 0 .. WordMax, NEW junk \in Seq(Byte)
    PROVE  /\ SeenAs(EncodeInteger(index, 7, 128), index, 7, 128, 255, junk)
           /\ SeenAs(EncodeInteger(index, 6, 64), index, 6, 64, 127, junk)
  <1>1. ASSUME NEW prefix \in 1 .. 8, NEW mark \in Nat, NEW full \in Nat, full = Full(prefix),
               mark = Pow2[prefix], mark + full < 256
        PROVE  SeenAs(EncodeInteger(index, prefix, mark), index, prefix, mark, mark + full, junk)
    <2>1. PICK one \in Nat : one = 1 /\ mark = mark * one
      OBVIOUS
    <2>2. ReadsAs(EncodeInteger(index, prefix, mark), index, prefix, mark, junk)
      BY <1>1, <2>1, MarkedComesBack
    <2> QED
      BY <1>1, <2>2 DEF ReadsAs, SeenAs
  <1>2. SeenAs(EncodeInteger(index, 7, 128), index, 7, 128, 255, junk)
    <2>1. PICK prefix \in 1 .. 8, mark \in Nat, full \in Nat, top \in Nat :
             prefix = 7 /\ mark = 128 /\ full = 127 /\ top = 255 /\ top = mark + full /\ mark + full < 256
      OBVIOUS
    <2>2. SeenAs(EncodeInteger(index, prefix, mark), index, prefix, mark, mark + full, junk)
      BY <1>1, <2>1, PrefixesOfFields
    <2> QED
      BY <2>1, <2>2
  <1>3. SeenAs(EncodeInteger(index, 6, 64), index, 6, 64, 127, junk)
    <2>1. PICK prefix \in 1 .. 8, mark \in Nat, full \in Nat, top \in Nat :
             prefix = 6 /\ mark = 64 /\ full = 63 /\ top = 127 /\ top = mark + full /\ mark + full < 256
      OBVIOUS
    <2>2. SeenAs(EncodeInteger(index, prefix, mark), index, prefix, mark, mark + full, junk)
      BY <1>1, <2>1, PrefixesOfFields
    <2> QED
      BY <2>1, <2>2
  <1> QED
    BY <1>2, <1>3

\* A field of the tables comes back by its index.
LEMMA IndexedBack ==
    ASSUME NEW table, Indexable(table), NEW field, NEW index, Holds(index, table, field),
           NEW junk \in Seq(Byte)
    PROVE  ReadAsField(EncodeIndexed(index), field, table, junk)
  <1>1. Known(index, table) /\ GetHeader(index, table) = field
    BY DEF Holds
  <1>2. index \in 0 .. WordMax
    BY <1>1, KnownFits
  <1>3. PICK out, data : out = EncodeInteger(index, 7, 128) /\ data = out \o junk
    OBVIOUS
  <1>4. out = EncodeIndexed(index)
    BY <1>3 DEF EncodeIndexed
  <1>5. SeenAs(out, index, 7, 128, 255, junk)
    BY <1>2, <1>3, IndexComesBack
  <1>6. /\ data # <<>> /\ data[1] \in 128 .. 255
        /\ DecodeInteger(data, 7) = [is |-> "Done", value |-> index, used |-> Len(out)]
    BY <1>3, <1>5 DEF SeenAs
  <1>7. PICK first \in 128 .. 255 : first = data[1]
    BY <1>6
  <1>8. first >= 128
    OBVIOUS
  <1>9. \A most : DecodeField(data, table, most) = DecodeIndexed(data, table)
    BY <1>6, <1>7, <1>8 DEF DecodeField
  <1>10. PICK read : read = DecodeInteger(data, 7) /\ read.is = "Done" /\ read.value = index
                     /\ read.used = Len(out)
    BY <1>6
  <1>11. DecodeIndexed(data, table) = [is |-> "Done", what |-> field, used |-> Len(out)]
    BY <1>1, <1>10 DEF DecodeIndexed, Try
  <1> QED
    BY <1>3, <1>4, <1>9, <1>11 DEF ReadAsField

\* A literal field is decoded behind the integer in front.
LEMMA LiteralRead ==
    ASSUME NEW data, NEW table, NEW index, NEW used, data # <<>>, data[1] \in 64 .. 127,
           DecodeInteger(data, 6) = [is |-> "Done", value |-> index, used |-> used]
    PROVE  \A most : DecodeField(data, table, most) =
              IF index = 0 THEN NameBehind(data, used)
              ELSE IF ~Known(index, table) THEN Failed("InvalidIndex")
              ELSE ValueBehind(data, GetHeader(index, table)[1], used)
  <1>1. PICK first \in 64 .. 127 : first = data[1]
    OBVIOUS
  <1>2. ~(first >= 128) /\ first >= 64
    OBVIOUS
  <1>3. \A most : DecodeField(data, table, most) = DecodeLiteral(data, table, 6)
    BY <1>1, <1>2 DEF DecodeField
  <1>4. PICK read : read = DecodeInteger(data, 6) /\ read.is = "Done" /\ read.value = index
                    /\ read.used = used
    OBVIOUS
  <1>5. DecodeLiteral(data, table, 6) =
           IF read.value = 0 THEN NameBehind(data, read.used)
           ELSE IF ~Known(read.value, table) THEN Failed("InvalidIndex")
           ELSE ValueBehind(data, GetHeader(read.value, table)[1], read.used)
    BY <1>4 DEF DecodeLiteral, NameBehind, ValueBehind, Try
  <1> QED
    BY <1>3, <1>4, <1>5

\* A field comes back whose name is in the tables and whose value is written out.
LEMMA LiteralIndexedBack ==
    ASSUME NEW table, Indexable(table), NEW field, field = <<field[1], field[2]>>,
           field[2] \in DOMAIN Octets, Len(EncodeString(field[2])) <= WordMax,
           NEW index, Names(index, table, field), NEW junk \in Seq(Byte)
    PROVE  ReadAsField(EncodeLiteralIndexed(index, field[2]), field, table, junk)
  <1>1. Known(index, table) /\ GetHeader(index, table)[1] = field[1]
    BY DEF Names
  <1>2. index \in 0 .. WordMax /\ index # 0
    BY <1>1, KnownFits
  <1>3. PICK text \in DOMAIN Octets : text = field[2]
    OBVIOUS
  <1>4. PICK string \in Seq(Byte) : string = EncodeString(text)
    BY <1>3, StringComesBack
  <1>5. string \o junk \in Seq(Byte)
    BY ConcatProperties
  <1>6. SeenAs(EncodeInteger(index, 6, 64), index, 6, 64, 127, string \o junk)
    BY <1>2, <1>5, IndexComesBack
  <1>7. PICK front \in Seq(Byte) : front = EncodeInteger(index, 6, 64)
    BY <1>6 DEF SeenAs
  <1>8. EncodeLiteralIndexed(index, field[2]) = front \o string
    BY <1>3, <1>4, <1>7 DEF EncodeLiteralIndexed
  <1>9. /\ Parts(front, string, junk)
         /\ ValueBehind((front \o string) \o junk, field[1], Len(front))
               = [is |-> "Done", what |-> <<field[1], text>>, used |-> Len(front) + Len(string)]
    <2>1. Len(EncodeString(text)) <= WordMax
      BY <1>3
    <2>2. PICK name : name = field[1]
      OBVIOUS
    <2>3. /\ Parts(front, EncodeString(text), junk)
          /\ ValueBehind((front \o EncodeString(text)) \o junk, name, Len(front))
                = [is |-> "Done", what |-> <<name, text>>, used |-> Len(front) + Len(EncodeString(text))]
      BY <2>1, ValueComesBack
    <2> QED
      BY <1>4, <2>2, <2>3
  <1>10. PICK data : data = (front \o string) \o junk
    OBVIOUS
  <1>11. data = front \o (string \o junk) /\ Len(front \o string) = Len(front) + Len(string)
    BY <1>9, <1>10 DEF Parts
  <1>12. /\ data # <<>> /\ data[1] \in 64 .. 127
         /\ DecodeInteger(data, 6) = [is |-> "Done", value |-> index, used |-> Len(front)]
    BY <1>6, <1>7, <1>11 DEF SeenAs
  <1>13. PICK used : used = Len(front)
    OBVIOUS
  <1>14. \A most : DecodeField(data, table, most) = ValueBehind(data, field[1], used)
    BY <1>1, <1>2, <1>12, <1>13, LiteralRead
  <1>15. \A most : DecodeField(data, table, most)
                      = [is |-> "Done", what |-> field, used |-> Len(front \o string)]
    BY <1>3, <1>9, <1>10, <1>11, <1>13, <1>14
  <1> QED
    BY <1>8, <1>10, <1>15 DEF ReadAsField

\* A field comes back whose name and value are written out.
LEMMA LiteralNewBack ==
    ASSUME NEW table, NEW field, field = <<field[1], field[2]>>,
           field[1] \in DOMAIN Octets, Len(EncodeString(field[1])) <= WordMax,
           field[2] \in DOMAIN Octets, Len(EncodeString(field[2])) <= WordMax,
           NEW junk \in Seq(Byte)
    PROVE  ReadAsField(EncodeLiteralNew(field), field, table, junk)
  <1>1. 0 \in 0 .. WordMax
    <2>1. WordMax \in Nat
      BY WordEnds
    <2> QED
      BY <2>1
  <1>2. PICK name \in DOMAIN Octets, text \in DOMAIN Octets : name = field[1] /\ text = field[2]
    OBVIOUS
  <1>3. PICK first \in Seq(Byte), second \in Seq(Byte) :
           first = EncodeString(name) /\ second = EncodeString(text)
    <2>1. EncodeString(name) \in Seq(Byte)
      BY <1>2, StringComesBack
    <2>2. EncodeString(text) \in Seq(Byte)
      BY <1>2, StringComesBack
    <2> QED
      BY <2>1, <2>2
  <1>4. PICK behind \in Seq(Byte) : behind = second \o junk
    BY ConcatProperties
  <1>5. first \o behind \in Seq(Byte)
    BY ConcatProperties
  <1>6. SeenAs(EncodeInteger(0, 6, 64), 0, 6, 64, 127, first \o behind)
    BY <1>1, <1>5, IndexComesBack
  <1>7. EncodeInteger(0, 6, 64) = <<64>>
    <2>1. 0 < Full(6) /\ 64 + 0 = 64
      BY PrefixesOfFields
    <2> QED
      BY <2>1 DEF EncodeInteger
  <1>8. PICK front \in Seq(Byte) : front = <<64>> /\ front = EncodeInteger(0, 6, 64)
    BY <1>6, <1>7 DEF SeenAs
  <1>9. /\ Parts(front, first, behind) /\ Spelt(Octets[name]) = name
         /\ DecodeString(Behind((front \o first) \o behind, Len(front)))
               = [is |-> "Done", what |-> Octets[name], used |-> Len(first)]
    BY <1>2, <1>3, ValueComesBack
  <1>10. PICK head \in Seq(Byte) : head = front \o first
    BY ConcatProperties
  <1>11. /\ Parts(head, second, junk)
         /\ ValueBehind((head \o second) \o junk, name, Len(head))
               = [is |-> "Done", what |-> <<name, text>>, used |-> Len(head) + Len(second)]
    <2>1. Len(EncodeString(text)) <= WordMax
      BY <1>2
    <2>2. /\ Parts(head, EncodeString(text), junk)
          /\ ValueBehind((head \o EncodeString(text)) \o junk, name, Len(head))
                = [is |-> "Done", what |-> <<name, text>>, used |-> Len(head) + Len(EncodeString(text))]
      BY <2>1, ValueComesBack
    <2> QED
      BY <1>3, <2>2
  <1>12. PICK data, out : data = (head \o second) \o junk /\ out = head \o second
    OBVIOUS
  <1>13. /\ data = (front \o first) \o behind /\ data = front \o (first \o behind)
         /\ Len(head) = Len(front) + Len(first) /\ Len(out) = Len(head) + Len(second)
    <2>1. data = head \o behind /\ Len(out) = Len(head) + Len(second)
      BY <1>4, <1>11, <1>12 DEF Parts
    <2> QED
      BY <1>9, <1>10, <2>1 DEF Parts
  <1>14. out = EncodeLiteralNew(field)
    BY <1>2, <1>3, <1>8, <1>10, <1>12 DEF EncodeLiteralNew
  <1>15. PICK used : used = Len(front)
    OBVIOUS
  <1>16. /\ data # <<>> /\ data[1] \in 64 .. 127
         /\ DecodeInteger(data, 6) = [is |-> "Done", value |-> 0, used |-> used]
    BY <1>6, <1>8, <1>13, <1>15 DEF SeenAs
  <1>17. \A most : DecodeField(data, table, most) = NameBehind(data, used)
    BY <1>16, LiteralRead
  <1>18. PICK read : /\ read = DecodeString(Behind(data, used)) /\ read.is = "Done"
                     /\ read.what = Octets[name] /\ read.used = Len(first)
    BY <1>9, <1>13, <1>15
  <1>19. NameBehind(data, used) = ValueBehind(data, Spelt(read.what), used + read.used)
    BY <1>18 DEF NameBehind, Try
  <1>20. NameBehind(data, used) = ValueBehind(data, name, Len(head))
    BY <1>9, <1>13, <1>15, <1>18, <1>19
  <1>21. NameBehind(data, used) = [is |-> "Done", what |-> field, used |-> Len(out)]
    BY <1>2, <1>11, <1>12, <1>13, <1>20
  <1> QED
    BY <1>12, <1>14, <1>17, <1>21 DEF ReadAsField

\* The decoder reads the field that the encoder wrote, and all of its bytes,
\* whatever follows: by an index of the static or of the dynamic table, or as
\* strings, with Huffman coding and without.
THEOREM FieldComesBack ==
    ASSUME NEW table, Indexable(table), NEW field, field = <<field[1], field[2]>>,
           Spellable(field, table), NEW junk \in Seq(Byte), NEW most,
           \A text \in DOMAIN Octets : Len(EncodeString(text)) <= WordMax
    PROVE  DecodeField(EncodeField(field, table) \o junk, table, most)
              = [is |-> "Done", what |-> field, used |-> Len(EncodeField(field, table))]
  <1>1. PICK static, at, named : /\ static = StaticFind(field) /\ at = DynamicField(table, field)
                                 /\ named = DynamicName(table, field)
    OBVIOUS
  <1>2. PICK out : out = EncodeField(field, table)
    OBVIOUS
  <1>3. out = IF static.exact THEN EncodeIndexed(static.at)
              ELSE IF at # 0 THEN EncodeIndexed(DynamicIndex(at))
              ELSE IF static.at # 0 THEN EncodeLiteralIndexed(static.at, field[2])
              ELSE IF named # 0 THEN EncodeLiteralIndexed(DynamicIndex(named), field[2])
              ELSE EncodeLiteralNew(field)
    BY <1>1, <1>2 DEF EncodeField
  <1>4. /\ static.exact => Holds(static.at, table, field)
        /\ at # 0 => Holds(DynamicIndex(at), table, field)
        /\ static.at # 0 => Names(static.at, table, field)
        /\ named # 0 => Names(DynamicIndex(named), table, field)
    BY <1>1, Lookup
  <1>5. static.exact \/ at # 0 \/ (field[2] \in DOMAIN Octets
                                   /\ (static.at # 0 \/ named # 0 \/ field[1] \in DOMAIN Octets))
    BY <1>1 DEF Spellable
  <1>6. ReadAsField(out, field, table, junk)
    <2>1. CASE static.exact
      BY <1>3, <1>4, <2>1, IndexedBack
    <2>2. CASE ~static.exact /\ at # 0
      BY <1>3, <1>4, <2>2, IndexedBack
    <2>3. CASE ~static.exact /\ at = 0 /\ static.at # 0
      <3>1. out = EncodeLiteralIndexed(static.at, field[2])
        BY <1>3, <2>3
      <3> QED
        BY <1>4, <1>5, <2>3, <3>1, LiteralIndexedBack
    <2>4. CASE ~static.exact /\ at = 0 /\ static.at = 0 /\ named # 0
      <3>1. out = EncodeLiteralIndexed(DynamicIndex(named), field[2])
        BY <1>3, <2>4
      <3> QED
        BY <1>4, <1>5, <2>4, <3>1, LiteralIndexedBack
    <2>5. CASE ~static.exact /\ at = 0 /\ static.at = 0 /\ named = 0
      <3>1. out = EncodeLiteralNew(field)
        BY <1>3, <2>5
      <3> QED
        BY <1>5, <2>5, <3>1, LiteralNewBack
    <2> QED
      BY <2>1, <2>2, <2>3, <2>4, <2>5
  <1> QED
    BY <1>2, <1>6 DEF ReadAsField

-------------------------------------------------------------------------------
(***************************************************************************)
(* The codings of Codings: what holds of all inputs holds of every step.   *)
(***************************************************************************)

\* Every input is one of its kind, and every output what the coding makes of it.
Taken ==
    /\ input.coding = "decode integer" => input.of \in IntegerData
    /\ input.coding = "encode integer" => input.of \in IntegerValues
    /\ input.coding = "decode Huffman" => input.of \in HuffmanData
    /\ input.coding = "encode Huffman" => input.of \in HuffmanTexts
    /\ input.coding = "encode field"   => input.of \in Fields \X Tables
    /\ input.coding = "decode field"   => input.of \in FieldData \X Tables
    /\ input.coding = "encode frame"   => input.of \in FrameValues
    /\ input.coding = "decode frame"   => input.of \in FrameData

Made ==
    /\ After("decode integer") => output = DecodeInteger(input.of[2], input.of[1])
    /\ After("encode integer") => output = EncodeInteger(input.of[2], input.of[1], 0)
    /\ After("decode Huffman") => output = DecodeHuffman(input.of)
    /\ After("encode Huffman") => output = EncodeHuffman(input.of)
    /\ After("encode field")   => output = EncodeField(input.of[1], input.of[2])
    /\ After("decode field")   => output = DecodeField(input.of[1], input.of[2], MaxTableSize)
    /\ After("encode frame")   => output = EncodeFrame(input.of)
    /\ After("decode frame")   =>
          output = DecodeFrame(WriteHeader(Len(input.of[4]), input.of[1], input.of[2], input.of[3])
                               \o input.of[4] \o Junk)

Coded == Taken /\ Made

\* It holds of what the codings start with, and every coding keeps it.
LEMMA CodingSteps == CodingSpec => []Coded
  <1>1. CodingInit => Coded
    <2>1. \A coding, set : input \in Tagged(coding, set) => input.coding = coding /\ input.of \in set
      BY DEF Tagged
    <2>2. CodingInit => \A coding : ~After(coding)
      BY DEF CodingInit, After
    <2>3. ASSUME CodingInit
          PROVE  \/ input.coding = "decode integer" /\ input.of \in IntegerData
                 \/ input.coding = "encode integer" /\ input.of \in IntegerValues
                 \/ input.coding = "decode Huffman" /\ input.of \in HuffmanData
                 \/ input.coding = "encode Huffman" /\ input.of \in HuffmanTexts
                 \/ input.coding = "encode field"   /\ input.of \in Fields \X Tables
                 \/ input.coding = "decode field"   /\ input.of \in FieldData \X Tables
                 \/ input.coding = "encode frame"   /\ input.of \in FrameValues
                 \/ input.coding = "decode frame"   /\ input.of \in FrameData
      BY <2>1, <2>3, Zenon DEF CodingInit
    <2> QED
      BY <2>2, <2>3 DEF Coded, Taken, Made
  <1>2. Coded /\ [CodingNext]_codingVars => Coded'
    <2> SUFFICES ASSUME Coded, [CodingNext]_codingVars PROVE Coded'
      OBVIOUS
    <2>1. CASE IntegerIn
      BY <2>1 DEF IntegerIn, Apply, After, Coded, Taken, Made
    <2>2. CASE IntegerOut
      BY <2>2 DEF IntegerOut, Apply, After, Coded, Taken, Made
    <2>3. CASE HuffmanIn
      BY <2>3 DEF HuffmanIn, Apply, After, Coded, Taken, Made
    <2>4. CASE HuffmanOut
      BY <2>4 DEF HuffmanOut, Apply, After, Coded, Taken, Made
    <2>5. CASE FieldIn
      BY <2>5 DEF FieldIn, Apply, After, Coded, Taken, Made
    <2>6. CASE FieldOut
      BY <2>6 DEF FieldOut, Apply, After, Coded, Taken, Made
    <2>7. CASE FrameIn
      BY <2>7 DEF FrameIn, Apply, After, Coded, Taken, Made
    <2>8. CASE FrameOut
      BY <2>8 DEF FrameOut, Apply, After, Coded, Taken, Made
    <2>9. CASE UNCHANGED codingVars
      <3>1. input' = input /\ output' = output
        BY <2>9 DEF codingVars
      <3>2. Taken'
        BY <3>1 DEF Coded, Taken
      <3>3. Made'
        BY <3>1 DEF Coded, Made, After
      <3> QED
        BY <3>2, <3>3 DEF Coded
    <2> QED
      BY <2>1, <2>2, <2>3, <2>4, <2>5, <2>6, <2>7, <2>8, <2>9 DEF CodingNext
  <1> QED
    BY <1>1, <1>2, PTL DEF CodingSpec

\* decode_integer computes with one word and never loses a bit of the number.
THEOREM IntegerDecodedExactlyHolds ==
    CodingSpec => []IntegerDecodedExactly
  <1>1. Coded => IntegerDecodedExactly
    <2> SUFFICES ASSUME Coded, After("decode integer")
                 PROVE  LET meaning == Meaning(input.of[2], input.of[1])
                        IN output.is = meaning.is /\ (meaning.is = "Done" => output = meaning)
      BY DEF IntegerDecodedExactly
    <2>1. input.of \in Nat \X Seq(Byte)
      BY CodingsAssumption DEF Coded, Taken, Made, After, ByteString
    <2>2. PICK prefix \in Nat, data \in Seq(Byte) : prefix = input.of[1] /\ data = input.of[2]
      BY <2>1
    <2>3. output = DecodeInteger(data, prefix)
      BY <2>2 DEF Coded, Made
    <2>4. /\ DecodeInteger(data, prefix).is = Meaning(data, prefix).is
          /\ Meaning(data, prefix).is = "Done" => DecodeInteger(data, prefix) = Meaning(data, prefix)
      BY IntegerExact
    <2> QED
      BY <2>2, <2>3, <2>4
  <1> QED
    BY <1>1, CodingSteps, PTL

\* Every value of a word comes back, whatever bytes follow it.
THEOREM IntegerRoundTripHolds ==
    CodingSpec => []IntegerRoundTrip
  <1>1. Coded => IntegerRoundTrip
    <2> SUFFICES ASSUME Coded, After("encode integer")
                 PROVE  DecodeInteger(output \o Junk, input.of[1])
                           = [is |-> "Done", value |-> input.of[2], used |-> Len(output)]
      BY DEF IntegerRoundTrip
    <2>1. input.of \in (1 .. 8) \X (0 .. WordMax)
      BY CodingsAssumption DEF Coded, Taken, Made, After
    <2>2. PICK prefix \in 1 .. 8, value \in 0 .. WordMax : prefix = input.of[1] /\ value = input.of[2]
      BY <2>1
    <2>3. PICK junk \in Seq(Byte) : junk = Junk
      BY CodingsAssumption DEF ByteString
    <2>4. output = EncodeInteger(value, prefix, 0)
      BY <2>2 DEF Coded, Made
    <2>5. DecodeInteger(EncodeInteger(value, prefix, 0) \o junk, prefix)
             = [is |-> "Done", value |-> value, used |-> Len(EncodeInteger(value, prefix, 0))]
      BY IntegerComesBack
    <2> QED
      BY <2>2, <2>3, <2>4, <2>5
  <1> QED
    BY <1>1, CodingSteps, PTL

\* A field that was read lies within the bytes, and cut short it is not read.
THEOREM FieldDelimitsItselfHolds ==
    CodingSpec => []FieldDelimitsItself
  <1>1. Coded => FieldDelimitsItself
    <2> SUFFICES ASSUME Coded, After("decode field"), output.is = "Done"
                 PROVE  /\ output.used \in 1 .. Len(input.of[1])
                        /\ \A n \in 0 .. output.used - 1 :
                              DecodeField(SubSeq(input.of[1], 1, n), input.of[2], MaxTableSize).is
                                 = "Incomplete"
      BY DEF FieldDelimitsItself
    <2>1. input.of \in Seq(Byte) \X Tables
      BY CodingsAssumption DEF Coded, Taken, After, ByteString
    <2>2. PICK data \in Seq(Byte), table \in Tables : data = input.of[1] /\ table = input.of[2]
      BY <2>1
    <2>3. PICK most : most = MaxTableSize
      OBVIOUS
    <2>4. output = DecodeField(data, table, most)
      BY <2>2, <2>3 DEF Coded, Made
    <2>5. PICK all : all = output /\ all.is = "Done"
      OBVIOUS
    <2>6. /\ all.used \in 1 .. Len(data)
          /\ \A n \in 0 .. all.used - 1 : DecodeField(SubSeq(data, 1, n), table, most).is = "Incomplete"
      BY <2>4, <2>5, FieldCuts
    <2> QED
      BY <2>2, <2>3, <2>5, <2>6, Zenon
  <1> QED
    BY <1>1, CodingSteps, PTL

\* Of what the Huffman decoder is given, everything that decodes has one reading.
THEOREM HuffmanUnambiguousHolds == CodingSpec => []HuffmanUnambiguous
  <1>1. Coded => HuffmanUnambiguous
    <2> SUFFICES ASSUME Coded, After("decode Huffman"), output.is = "Done"
                 PROVE  /\ IsPrefix(CodeBits(output.text), DataBits(input.of))
                        /\ 8 * Len(input.of) - Len(CodeBits(output.text)) < 8
      BY DEF HuffmanUnambiguous
    <2>1. input.of \in HuffmanData /\ output = DecodeHuffman(input.of)
      BY DEF Coded, Taken, Made, After
    <2>2. PICK data \in Seq(Byte) : data = input.of
      BY <2>1, CodingsAssumption DEF ByteString
    <2>3. DecodeHuffman(data).is = "Done" /\ output = DecodeHuffman(data)
      BY <2>1, <2>2
    <2>4. /\ IsPrefix(CodeBits(DecodeHuffman(data).text), DataBits(data))
          /\ 8 * Len(data) - Len(CodeBits(DecodeHuffman(data).text)) < 8
      BY <2>3, HuffmanReadOneWay
    <2> QED
      BY <2>2, <2>3, <2>4
  <1> QED
    BY <1>1, CodingSteps, PTL

\* Whatever the Huffman encoder is given comes back.
THEOREM HuffmanRoundTripHolds == CodingSpec => []HuffmanRoundTrip
  <1>1. Coded => HuffmanRoundTrip
    <2> SUFFICES ASSUME Coded, After("encode Huffman")
                 PROVE  /\ DecodeHuffman(output) = [is |-> "Done", text |-> input.of]
                        /\ Len(output) = EncodedLen(input.of)
      BY DEF HuffmanRoundTrip
    <2>1. input.of \in HuffmanTexts /\ output = EncodeHuffman(input.of)
      BY DEF Coded, Taken, Made, After
    <2>2. PICK text \in Seq(Byte) : text = input.of
      BY <2>1, CodingsAssumption DEF ByteString
    <2>3. /\ DecodeHuffman(EncodeHuffman(text)) = [is |-> "Done", text |-> text]
          /\ Len(EncodeHuffman(text)) = EncodedLen(text)
      BY HuffmanComesBack
    <2> QED
      BY <2>1, <2>2, <2>3
  <1> QED
    BY <1>1, CodingSteps, PTL

\* Every field that can be written comes back, whichever representation the
\* encoder chose.
THEOREM FieldRoundTripHolds == CodingSpec => []FieldRoundTrip
  <1>1. Coded => FieldRoundTrip
    <2> SUFFICES ASSUME Coded, After("encode field")
                 PROVE  DecodeField(output \o Junk, input.of[2], MaxTableSize)
                           = [is |-> "Done", what |-> input.of[1], used |-> Len(output)]
      BY DEF FieldRoundTrip
    <2>1. input.of \in Fields \X Tables /\ output = EncodeField(input.of[1], input.of[2])
      BY DEF Coded, Taken, Made, After
    <2>2. PICK field \in Fields, table \in Tables : field = input.of[1] /\ table = input.of[2]
      BY <2>1
    <2>3. PICK junk \in Seq(Byte) : junk = Junk
      BY CodingsAssumption DEF ByteString
    <2>4. field = <<field[1], field[2]>> /\ Indexable(table) /\ Spellable(field, table)
      BY CodingsAssumption
    <2>5. \A text \in DOMAIN Octets : Len(EncodeString(text)) <= WordMax
      BY CodingsAssumption
    <2>6. DecodeField(EncodeField(field, table) \o junk, table, MaxTableSize)
             = [is |-> "Done", what |-> field, used |-> Len(EncodeField(field, table))]
      BY <2>4, <2>5, FieldComesBack
    <2> QED
      BY <2>1, <2>2, <2>3, <2>6
  <1> QED
    BY <1>1, CodingSteps, PTL

\* Every frame that can be written comes back, with nothing taken of what
\* follows it.
THEOREM FrameRoundTripHolds ==
    CodingSpec => []FrameRoundTrip
  <1>1. Coded => FrameRoundTrip
    <2> SUFFICES ASSUME Coded, After("encode frame")
                 PROVE  DecodeFrame(output \o Junk) = [frame |-> input.of, rest |-> Junk]
      BY DEF FrameRoundTrip
    <2>1. PICK f : f = input.of /\ f \in FrameValues /\ output = EncodeFrame(f)
      BY DEF Coded, Taken, Made, After
    <2>2. f \in Sendable /\ PayloadLen(Outline(f)) \in Word24 /\ Junk \in ByteString
      BY <2>1, CodingsAssumption
    <2>3. DecodeFrame(EncodeFrame(f) \o Junk) = [frame |-> f, rest |-> Junk]
      BY <2>2, FrameComesBack
    <2> QED
      BY <2>1, <2>3
  <1> QED
    BY <1>1, CodingSteps, PTL

\* The header with nothing behind it.
LEMMA HeaderAlone ==
    ASSUME NEW length \in Word24, NEW code \in Byte, NEW flags \in Byte, NEW id \in Word31
    PROVE  PeekHeader(WriteHeader(length, code, flags, id))
              = [length |-> length, code |-> code, flags |-> flags, id |-> id]
  <1>1. PICK w : w = WriteHeader(length, code, flags, id)
    OBVIOUS
  <1>2. PICK none \in Seq(Byte) : none = <<>>
    BY EmptySeq
  <1>3. w \in Seq(Byte) /\ PeekHeader(w \o none)
              = [length |-> length, code |-> code, flags |-> flags, id |-> id]
    BY <1>1, HeaderRead
  <1>4. w \o none = w
    BY <1>2, <1>3, ConcatEmptySeq
  <1> QED
    BY <1>1, <1>3, <1>4

\* A stream id is a number.
LEMMA StreamIdIsNumber == Word31 \subseteq Nat
  BY SMT DEF Word31

\* On any payload under any flags the parsers do as module Frames says.
THEOREM FrameAsOutlinedHolds ==
    CodingSpec => []FrameAsOutlined
  <1>1. Coded => FrameAsOutlined
    <2> SUFFICES ASSUME Coded, After("decode frame")
                 PROVE  FrameAsOutlined
      BY DEF FrameAsOutlined
    <2>1. input.of \in Byte \X Byte \X Word31 \X {p \in ByteString : Len(p) \in Word24}
      BY CodingsAssumption DEF Coded, Taken, After
    <2>2. PICK code \in Byte, flags \in Byte, id \in Word31, payload \in Seq(Byte) :
             /\ code = input.of[1] /\ flags = input.of[2] /\ id = input.of[3] /\ payload = input.of[4]
             /\ Len(payload) \in Word24
      BY <2>1 DEF ByteString
    <2>3. Len(payload) \in Word24
      BY <2>2
    <2>4. PICK junk \in Seq(Byte) : junk = Junk
      BY CodingsAssumption DEF ByteString
    <2>5. PICK h : h = [length |-> Len(payload), code |-> code, flags |-> flags, id |-> id]
      OBVIOUS
    <2>6. h \in ReadHeader /\ h.length = Len(payload)
      <3>1. Len(payload) \in Nat
        BY LenProperties
      <3>2. id \in Nat
        BY StreamIdIsNumber
      <3> QED
        BY <2>5, <3>1, <3>2 DEF ReadHeader
    <2>7. PeekHeader(WriteHeader(Len(input.of[4]), input.of[1], input.of[2], input.of[3])) = h
      <3>1. PeekHeader(WriteHeader(Len(payload), code, flags, id)) = h
        BY <2>2, <2>5, HeaderAlone
      <3> QED
        BY <2>2, <3>1
    <2>8. output = [frame |-> ParseFrame(h, payload), rest |-> Junk]
      <3>1. DecodeFrame(WriteHeader(Len(payload), code, flags, id) \o payload \o Junk)
               = [frame |-> ParseFrame(h, payload), rest |-> Junk]
        <4>1. DecodeFrame(WriteHeader(Len(payload), code, flags, id) \o payload \o junk)
                 = [frame |-> ParseFrame([length |-> Len(payload), code |-> code, flags |-> flags,
                                          id |-> id], payload),
                    rest  |-> junk]
          BY <2>3, FrameCut
        <4> QED
          BY <2>5, <2>4, <4>1
      <3>2. output = DecodeFrame(WriteHeader(Len(payload), code, flags, id) \o payload \o Junk)
        BY <2>2 DEF Coded, Made
      <3> QED
        BY <3>1, <3>2
    <2>9. Agree(h, payload)
      BY <2>6, ParsersAsOutlined
    <2>10. /\ Parses(WireOutline(h, payload)) <=> output.frame # Rejected
           /\ Parses(WireOutline(h, payload)) => Outline(output.frame) = Parsed(WireOutline(h, payload))
           /\ output.rest = Junk
      <3>1. output.frame = ParseFrame(h, payload) /\ output.rest = Junk
        BY <2>8
      <3> QED
        BY <2>9, <3>1 DEF Agree
    <2>11. WireOutline(h, input.of[4]) = WireOutline(h, payload)
      BY <2>2
    <2> QED
      BY <2>7, <2>10, <2>11 DEF FrameAsOutlined
  <1> QED
    BY <1>1, CodingSteps, PTL
===============================================================================
