-------------------------------- MODULE Codings -------------------------------
(***************************************************************************)
(* The codings of the library put to the test: each step applies one of    *)
(* them to one input, and the properties compare the result with a         *)
(* definition that owes nothing to the algorithm, or with what the other   *)
(* direction makes of it.  The codings have no state of their own, so a    *)
(* behaviour is one step long.                                             *)
(***************************************************************************)
EXTENDS HpackFormat, FrameFormat

CONSTANTS
    IntegerData,    \* bytes for decode_integer: <<prefix bits, bytes>>
    IntegerValues,  \* values for encode_integer: <<prefix bits, value>>
    HuffmanData,    \* bytes for the Huffman decoder
    HuffmanTexts,   \* strings for the encoder
    Fields,         \* header fields
    Tables,         \* dynamic tables, newest field first
    FieldData,      \* bytes for decode_header
    FrameData,      \* a frame header and a payload: <<code, flags, id, payload>>
    FrameValues,    \* frames for the encoder
    Junk,           \* what comes behind the bytes that are decoded
    Nothing         \* no output yet

\* What encode_header writes of a field as a string has bytes.
Spellable(field, table) ==
    \/ StaticFind(field).exact \/ DynamicField(table, field) # 0
    \/ /\ field[2] \in DOMAIN Octets
       /\ \/ StaticFind(field).at # 0 \/ DynamicName(table, field) # 0
          \/ field[1] \in DOMAIN Octets

\* A table of fields whose indices a word can hold.
Indexable(table) ==
    /\ table \in Seq({table[k] : k \in DOMAIN table})
    /\ StaticLen + Len(table) <= WordMax

\* Prefixes and values that the integer coding is used with, bytes for the
\* decoders, fields and strings that can be written and whose lengths a word can
\* hold, and frames whose payload a header can announce.
ASSUME CodingsAssumption ==
    /\ IntegerData \subseteq Nat \X ByteString
    /\ IntegerValues \subseteq (1 .. 8) \X (0 .. WordMax)
    /\ HuffmanData \subseteq ByteString
    /\ HuffmanTexts \subseteq ByteString
    /\ \A f \in Fields, t \in Tables : f = <<f[1], f[2]>> /\ Indexable(t) /\ Spellable(f, t)
    /\ \A text \in DOMAIN Octets : Len(EncodeString(text)) <= WordMax
    /\ FieldData \subseteq ByteString
    /\ FrameValues \subseteq {f \in Sendable : PayloadLen(Outline(f)) \in Word24}
    /\ FrameData \subseteq Byte \X Byte \X Word31 \X {p \in ByteString : Len(p) \in Word24}
    /\ Junk \in ByteString

VARIABLES
    input,      \* what a coding is applied to: its name and its argument
    output      \* what it made of it

codingVars == <<input, output>>

Tagged(coding, set) == {[coding |-> coding, of |-> x] : x \in set}

CodingInit ==
    /\ output = Nothing
    /\ \/ input \in Tagged("decode integer", IntegerData)
       \/ input \in Tagged("encode integer", IntegerValues)
       \/ input \in Tagged("decode Huffman", HuffmanData)
       \/ input \in Tagged("encode Huffman", HuffmanTexts)
       \/ input \in Tagged("encode field", Fields \X Tables)
       \/ input \in Tagged("decode field", FieldData \X Tables)
       \/ input \in Tagged("encode frame", FrameValues)
       \/ input \in Tagged("decode frame", FrameData)

Apply(coding, result(_)) ==
    /\ output = Nothing
    /\ input.coding = coding
    /\ output' = result(input.of)
    /\ UNCHANGED input

MaxTableSize == 4096

IntegerIn  == Apply("decode integer", LAMBDA x : DecodeInteger(x[2], x[1]))
IntegerOut == Apply("encode integer", LAMBDA x : EncodeInteger(x[2], x[1], 0))
HuffmanIn  == Apply("decode Huffman", LAMBDA x : DecodeHuffman(x))
HuffmanOut == Apply("encode Huffman", LAMBDA x : EncodeHuffman(x))
FieldOut   == Apply("encode field",   LAMBDA x : EncodeField(x[1], x[2]))
FieldIn    == Apply("decode field",   LAMBDA x : DecodeField(x[1], x[2], MaxTableSize))
FrameOut   == Apply("encode frame",   LAMBDA x : EncodeFrame(x))
FrameIn    == Apply("decode frame",
                    LAMBDA x : DecodeFrame(WriteHeader(Len(x[4]), x[1], x[2], x[3]) \o x[4] \o Junk))

CodingNext ==
    \/ IntegerIn \/ IntegerOut
    \/ HuffmanIn \/ HuffmanOut
    \/ FieldIn \/ FieldOut
    \/ FrameIn \/ FrameOut

CodingSpec == CodingInit /\ [][CodingNext]_codingVars

After(coding) == output # Nothing /\ input.coding = coding
-------------------------------------------------------------------------------
(***************************************************************************)
(* Integers                                                                *)
(***************************************************************************)

\* The number that the bytes up to the n-th stand for, however large.
Meant(data, prefixBits) ==
    LET upTo[n \in 1 .. Len(data)] ==
            IF n = 1 THEN data[1] % Pow2[prefixBits]
            ELSE upTo[n - 1] + (data[n] % 128) * Pow2[7 * (n - 2)]
    IN upTo

\* What an integer is by definition: it ends at the first byte without the top
\* bit, unless a byte before or there lies outside the word or takes the number
\* out of it; without such an end it is incomplete.
Meaning(data, prefixBits) ==
    LET ends   == {k \in 2 .. Len(data) : data[k] < 128}
        beyond == {k \in 2 .. Len(data) :
                      7 * (k - 2) >= WordBits \/ Meant(data, prefixBits)[k] > WordMax}
        Number(k) == [is |-> "Done", value |-> Meant(data, prefixBits)[k], used |-> k]
        None(error) == [is |-> error, value |-> 0, used |-> 0]
    IN IF data = <<>> THEN None("Incomplete")
       ELSE IF data[1] % Pow2[prefixBits] < Full(prefixBits) THEN Number(1)
       ELSE IF \E k \in beyond : \A j \in ends : k <= j THEN None("InvalidInteger")
       ELSE IF ends = {} THEN None("Incomplete")
       ELSE Number(Least(ends))

\* decode_integer computes with one word and never loses a bit of the number:
\* it gives the number and its length, refuses exactly the numbers that need
\* more than a word, and asks for more exactly when the end is missing.
IntegerDecodedExactly ==
    After("decode integer") =>
        LET meaning == Meaning(input.of[2], input.of[1])
        IN output.is = meaning.is /\ (meaning.is = "Done" => output = meaning)

\* Every value of a word comes back, whatever bytes follow it.
IntegerRoundTrip ==
    After("encode integer") =>
        DecodeInteger(output \o Junk, input.of[1])
            = [is |-> "Done", value |-> input.of[2], used |-> Len(output)]

(***************************************************************************)
(* Huffman code                                                            *)
(***************************************************************************)

\* What decodes has one reading: the code of the text is what the data starts
\* with, and less than a byte is left over.
HuffmanUnambiguous ==
    After("decode Huffman") /\ output.is = "Done" =>
        /\ IsPrefix(CodeBits(output.text), DataBits(input.of))
        /\ 8 * Len(input.of) - Len(CodeBits(output.text)) < 8

\* Every string comes back, and has the length that encode_string announced.
HuffmanRoundTrip ==
    After("encode Huffman") =>
        /\ DecodeHuffman(output) = [is |-> "Done", text |-> input.of]
        /\ Len(output) = EncodedLen(input.of)

(***************************************************************************)
(* Header fields                                                           *)
(***************************************************************************)

\* The decoder reads the field that the encoder wrote, and all of its bytes,
\* whichever representation was chosen: in particular both ends number the
\* static and the dynamic entries alike.
FieldRoundTrip ==
    After("encode field") =>
        DecodeField(output \o Junk, input.of[2], MaxTableSize)
            = [is |-> "Done", what |-> input.of[1], used |-> Len(output)]

\* Whatever the bytes are, a field that was read lies within them, and cut short
\* anywhere it is not read at all, least of all as another one.
FieldDelimitsItself ==
    After("decode field") /\ output.is = "Done" =>
        /\ output.used \in 1 .. Len(input.of[1])
        /\ \A n \in 0 .. output.used - 1 :
              DecodeField(SubSeq(input.of[1], 1, n), input.of[2], MaxTableSize).is = "Incomplete"

(***************************************************************************)
(* Frames                                                                  *)
(***************************************************************************)

\* Every frame that can be written comes back, with nothing taken of what
\* follows it.
FrameRoundTrip ==
    After("encode frame") =>
        DecodeFrame(output \o Junk) = [frame |-> input.of, rest |-> Junk]

\* On any payload under any flags the parsers do as module Frames says, from the
\* type, the length, the padding and the one value it looks at: which frames are
\* refused, and how much of what the accepted ones carry.
FrameAsOutlined ==
    After("decode frame") =>
        LET h    == PeekHeader(WriteHeader(Len(input.of[4]), input.of[1], input.of[2], input.of[3]))
            seen == WireOutline(h, input.of[4])
        IN /\ Parses(seen) <=> output.frame # Rejected
           /\ Parses(seen) => Outline(output.frame) = Parsed(seen)
           /\ output.rest = Junk
===============================================================================
