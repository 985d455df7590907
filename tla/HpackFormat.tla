------------------------------ MODULE HpackFormat -----------------------------
(***************************************************************************)
(* hpack/encode.rs and hpack/decode.rs: one header field as bytes, given   *)
(* the dynamic table that encoder and decoder have (module Hpack has what  *)
(* happens to the tables): which representation is written, strings with   *)
(* and without Huffman coding, and the index space that the static and the *)
(* dynamic table share.                                                    *)
(*                                                                         *)
(* A field is <<name, value>>, each a text.                                *)
(***************************************************************************)
EXTENDS HpackInteger, Huffman, StaticTable

CONSTANT Octets     \* the bytes of each text that is written as a string

\* Texts are told apart by their bytes.
ASSUME HpackFormatAssumption ==
    \A t \in DOMAIN Octets : /\ Octets[t] \in Seq(0 .. 255)
                             /\ \A u \in DOMAIN Octets : Octets[t] = Octets[u] => t = u

\* The text that some bytes spell.
Spelt(bytes) == IF \E t \in DOMAIN Octets : Octets[t] = bytes
                THEN CHOOSE t \in DOMAIN Octets : Octets[t] = bytes
                ELSE "another text"
-------------------------------------------------------------------------------
\* encode_string: in Huffman code when that is shorter.
EncodeString(text) ==
    LET plain == Octets[text]
        size  == EncodedLen(plain)
    IN IF size < Len(plain)
       THEN EncodeInteger(size, 7, 128) \o EncodeHuffman(plain)
       ELSE EncodeInteger(Len(plain), 7, 0) \o plain

\* What encode_header looks up in the dynamic table, newest field first.
Newest(at) == IF at = {} THEN 0 ELSE Least(at)
DynamicField(table, field) == Newest({k \in DOMAIN table : table[k] = field})
DynamicName(table, field)  == Newest({k \in DOMAIN table : table[k][1] = field[1]})

\* SEEDED FAULT: the first entry of the dynamic table gets the static table's last index.
DynamicIndexLow(k) == StaticLen + k - 1

\* The index of the k-th entry of the dynamic table.
DynamicIndex(k) == StaticLen + k

EncodeIndexed(index) == EncodeInteger(index, 7, 128)
EncodeLiteralIndexed(index, value) == EncodeInteger(index, 6, 64) \o EncodeString(value)
EncodeLiteralNew(field) == <<64>> \o EncodeString(field[1]) \o EncodeString(field[2])

\* encode_header
EncodeField(field, table) ==
    LET static == StaticFind(field) IN
    IF static.exact THEN EncodeIndexed(static.at)
    ELSE IF DynamicField(table, field) # 0
         THEN EncodeIndexed(DynamicIndex(DynamicField(table, field)))
    ELSE IF static.at # 0
         THEN EncodeLiteralIndexed(static.at, field[2])
    ELSE IF DynamicName(table, field) # 0
         THEN EncodeLiteralIndexed(DynamicIndex(DynamicName(table, field)), field[2])
    ELSE EncodeLiteralNew(field)

\* encode_table_size_update
EncodeSizeUpdate(size) == EncodeInteger(size, 5, 32)
-------------------------------------------------------------------------------
Failed(error) == [is |-> error, what |-> <<>>, used |-> 0]

\* &data[from..]
Behind(data, used) == SubSeq(data, used + 1, Len(data))

\* SEEDED FAULT: a string that runs past the data is taken to end with it.
StringEndCapped(used, length, available) ==
    [is |-> "Done", end |-> IF used + length < available THEN used + length ELSE available]

\* checked_string_end
StringEnd(used, length, available) ==
    [is  |-> IF used + length > WordMax THEN "InvalidInteger"
             ELSE IF used + length > available THEN "Incomplete" ELSE "Done",
     end |-> used + length]

\* The operator `?`: an error is the result of all that it is a part of.
Try(result, next(_)) == IF result.is # "Done" THEN Failed(result.is) ELSE next(result)

\* decode_string: the text and how many bytes it took, or an error.
Text(octets, huffman, used) ==
    LET decoded == DecodeHuffman(octets) IN
    IF ~huffman THEN [is |-> "Done", what |-> octets, used |-> used]
    ELSE IF decoded.is # "Done" THEN Failed("HuffmanError")
    ELSE [is |-> "Done", what |-> decoded.text, used |-> used]
DecodeString(data) ==
    Try(DecodeInteger(data, 7), LAMBDA length :
        Try(StringEnd(length.used, length.value, Len(data)), LAMBDA string :
            Text(SubSeq(data, length.used + 1, string.end), data[1] >= 128, string.end)))

\* get_header
Known(index, table) == index \in 1 .. StaticLen + Len(table)
GetHeader(index, table) ==
    IF index <= StaticLen THEN ENTRIES[index] ELSE table[index - StaticLen]

\* decode_indexed
DecodeIndexed(data, table) ==
    Try(DecodeInteger(data, 7), LAMBDA index :
        IF ~Known(index.value, table) THEN Failed("InvalidIndex")
        ELSE [is |-> "Done", what |-> GetHeader(index.value, table), used |-> index.used])

\* decode_literal_indexed and decode_literal_not_indexed, which differ in the
\* prefix: the name by index or as a string, then the value.
DecodeLiteral(data, table, prefixBits) ==
    LET WithValue(name, used) ==
            Try(DecodeString(Behind(data, used)), LAMBDA value :
                [is |-> "Done", what |-> <<name, Spelt(value.what)>>, used |-> used + value.used])
    IN Try(DecodeInteger(data, prefixBits), LAMBDA index :
           IF index.value = 0
           THEN Try(DecodeString(Behind(data, index.used)), LAMBDA name :
                    WithValue(Spelt(name.what), index.used + name.used))
           ELSE IF ~Known(index.value, table) THEN Failed("InvalidIndex")
           ELSE WithValue(GetHeader(index.value, table)[1], index.used))

\* decode_table_size_update
DecodeSizeUpdate(data, maxTableSize) ==
    Try(DecodeInteger(data, 5), LAMBDA size :
        IF size.value > maxTableSize THEN Failed("InvalidTableSize")
        ELSE [is |-> "Done", what |-> <<size.value>>, used |-> size.used])

\* decode_header: by the highest bit of the first byte that is set.
DecodeField(data, table, maxTableSize) ==
    IF data = <<>> THEN Failed("Incomplete")
    ELSE IF data[1] >= 128 THEN DecodeIndexed(data, table)
    ELSE IF data[1] >= 64 THEN DecodeLiteral(data, table, 6)
    ELSE IF data[1] >= 32 THEN DecodeSizeUpdate(data, maxTableSize)
    ELSE DecodeLiteral(data, table, 4)
===============================================================================
