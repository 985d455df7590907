-------------------------------- MODULE Huffman -------------------------------
(***************************************************************************)
(* hpack/huffman.rs: the static Huffman code of header strings, with the   *)
(* code table of the source.  A string is a sequence of bytes, and a code  *)
(* word is a node of the tree that the code builds from the table: <<the   *)
(* bits that lead to it as a number, how many they are>>.                  *)
(***************************************************************************)
EXTENDS Bits, SequencesExt

\* HUFFMAN_ENCODE: code and bits, of the bytes 0 to 255 and of EOS.
Codes0 == <<
    <<\h1ff8,13>>, <<\h7fffd8,23>>, <<\hfffffe2,28>>, <<\hfffffe3,28>>, <<\hfffffe4,28>>,
    <<\hfffffe5,28>>, <<\hfffffe6,28>>, <<\hfffffe7,28>>, <<\hfffffe8,28>>, <<\hffffea,24>>,
    <<\h3ffffffc,30>>, <<\hfffffe9,28>>, <<\hfffffea,28>>, <<\h3ffffffd,30>>,
    <<\hfffffeb,28>>, <<\hfffffec,28>>, <<\hfffffed,28>>, <<\hfffffee,28>>,
    <<\hfffffef,28>>, <<\hffffff0,28>>, <<\hffffff1,28>>, <<\hffffff2,28>>,
    <<\h3ffffffe,30>>, <<\hffffff3,28>>, <<\hffffff4,28>>, <<\hffffff5,28>>,
    <<\hffffff6,28>>, <<\hffffff7,28>>, <<\hffffff8,28>>, <<\hffffff9,28>>,
    <<\hffffffa,28>>, <<\hffffffb,28>>>>
Codes32 == <<
    <<\h14,6>>, <<\h3f8,10>>, <<\h3f9,10>>, <<\hffa,12>>, <<\h1ff9,13>>, <<\h15,6>>,
    <<\hf8,8>>, <<\h7fa,11>>, <<\h3fa,10>>, <<\h3fb,10>>, <<\hf9,8>>, <<\h7fb,11>>,
    <<\hfa,8>>, <<\h16,6>>, <<\h17,6>>, <<\h18,6>>, <<\h0,5>>, <<\h1,5>>, <<\h2,5>>,
    <<\h19,6>>, <<\h1a,6>>, <<\h1b,6>>, <<\h1c,6>>, <<\h1d,6>>, <<\h1e,6>>, <<\h1f,6>>,
    <<\h5c,7>>, <<\hfb,8>>, <<\h7ffc,15>>, <<\h20,6>>, <<\hffb,12>>, <<\h3fc,10>>>>
Codes64 == <<
    <<\h1ffa,13>>, <<\h21,6>>, <<\h5d,7>>, <<\h5e,7>>, <<\h5f,7>>, <<\h60,7>>, <<\h61,7>>,
    <<\h62,7>>, <<\h63,7>>, <<\h64,7>>, <<\h65,7>>, <<\h66,7>>, <<\h67,7>>, <<\h68,7>>,
    <<\h69,7>>, <<\h6a,7>>, <<\h6b,7>>, <<\h6c,7>>, <<\h6d,7>>, <<\h6e,7>>, <<\h6f,7>>,
    <<\h70,7>>, <<\h71,7>>, <<\h72,7>>, <<\hfc,8>>, <<\h73,7>>, <<\hfd,8>>, <<\h1ffb,13>>,
    <<\h7fff0,19>>, <<\h1ffc,13>>, <<\h3ffc,14>>, <<\h22,6>>>>
Codes96 == <<
    <<\h7ffd,15>>, <<\h3,5>>, <<\h23,6>>, <<\h4,5>>, <<\h24,6>>, <<\h5,5>>, <<\h25,6>>,
    <<\h26,6>>, <<\h27,6>>, <<\h6,5>>, <<\h74,7>>, <<\h75,7>>, <<\h28,6>>, <<\h29,6>>,
    <<\h2a,6>>, <<\h7,5>>, <<\h2b,6>>, <<\h76,7>>, <<\h2c,6>>, <<\h8,5>>, <<\h9,5>>,
    <<\h2d,6>>, <<\h77,7>>, <<\h78,7>>, <<\h79,7>>, <<\h7a,7>>, <<\h7b,7>>, <<\h7ffe,15>>,
    <<\h7fc,11>>, <<\h3ffd,14>>, <<\h1ffd,13>>, <<\hffffffc,28>>>>
Codes128 == <<
    <<\hfffe6,20>>, <<\h3fffd2,22>>, <<\hfffe7,20>>, <<\hfffe8,20>>, <<\h3fffd3,22>>,
    <<\h3fffd4,22>>, <<\h3fffd5,22>>, <<\h7fffd9,23>>, <<\h3fffd6,22>>, <<\h7fffda,23>>,
    <<\h7fffdb,23>>, <<\h7fffdc,23>>, <<\h7fffdd,23>>, <<\h7fffde,23>>, <<\hffffeb,24>>,
    <<\h7fffdf,23>>, <<\hffffec,24>>, <<\hffffed,24>>, <<\h3fffd7,22>>, <<\h7fffe0,23>>,
    <<\hffffee,24>>, <<\h7fffe1,23>>, <<\h7fffe2,23>>, <<\h7fffe3,23>>, <<\h7fffe4,23>>,
    <<\h1fffdc,21>>, <<\h3fffd8,22>>, <<\h7fffe5,23>>, <<\h3fffd9,22>>, <<\h7fffe6,23>>,
    <<\h7fffe7,23>>, <<\hffffef,24>>>>
Codes160 == <<
    <<\h3fffda,22>>, <<\h1fffdd,21>>, <<\hfffe9,20>>, <<\h3fffdb,22>>, <<\h3fffdc,22>>,
    <<\h7fffe8,23>>, <<\h7fffe9,23>>, <<\h1fffde,21>>, <<\h7fffea,23>>, <<\h3fffdd,22>>,
    <<\h3fffde,22>>, <<\hfffff0,24>>, <<\h1fffdf,21>>, <<\h3fffdf,22>>, <<\h7fffeb,23>>,
    <<\h7fffec,23>>, <<\h1fffe0,21>>, <<\h1fffe1,21>>, <<\h3fffe0,22>>, <<\h1fffe2,21>>,
    <<\h7fffed,23>>, <<\h3fffe1,22>>, <<\h7fffee,23>>, <<\h7fffef,23>>, <<\hfffea,20>>,
    <<\h3fffe2,22>>, <<\h3fffe3,22>>, <<\h3fffe4,22>>, <<\h7ffff0,23>>, <<\h3fffe5,22>>,
    <<\h3fffe6,22>>, <<\h7ffff1,23>>>>
Codes192 == <<
    <<\h3ffffe0,26>>, <<\h3ffffe1,26>>, <<\hfffeb,20>>, <<\h7fff1,19>>, <<\h3fffe7,22>>,
    <<\h7ffff2,23>>, <<\h3fffe8,22>>, <<\h1ffffec,25>>, <<\h3ffffe2,26>>, <<\h3ffffe3,26>>,
    <<\h3ffffe4,26>>, <<\h7ffffde,27>>, <<\h7ffffdf,27>>, <<\h3ffffe5,26>>, <<\hfffff1,24>>,
    <<\h1ffffed,25>>, <<\h7fff2,19>>, <<\h1fffe3,21>>, <<\h3ffffe6,26>>, <<\h7ffffe0,27>>,
    <<\h7ffffe1,27>>, <<\h3ffffe7,26>>, <<\h7ffffe2,27>>, <<\hfffff2,24>>, <<\h1fffe4,21>>,
    <<\h1fffe5,21>>, <<\h3ffffe8,26>>, <<\h3ffffe9,26>>, <<\hffffffd,28>>, <<\h7ffffe3,27>>,
    <<\h7ffffe4,27>>, <<\h7ffffe5,27>>>>
Codes224 == <<
    <<\hfffec,20>>, <<\hfffff3,24>>, <<\hfffed,20>>, <<\h1fffe6,21>>, <<\h3fffe9,22>>,
    <<\h1fffe7,21>>, <<\h1fffe8,21>>, <<\h7ffff3,23>>, <<\h3fffea,22>>, <<\h3fffeb,22>>,
    <<\h1ffffee,25>>, <<\h1ffffef,25>>, <<\hfffff4,24>>, <<\hfffff5,24>>, <<\h3ffffea,26>>,
    <<\h7ffff4,23>>, <<\h3ffffeb,26>>, <<\h7ffffe6,27>>, <<\h3ffffec,26>>, <<\h3ffffed,26>>,
    <<\h7ffffe7,27>>, <<\h7ffffe8,27>>, <<\h7ffffe9,27>>, <<\h7ffffea,27>>,
    <<\h7ffffeb,27>>, <<\hffffffe,28>>, <<\h7ffffec,27>>, <<\h7ffffed,27>>,
    <<\h7ffffee,27>>, <<\h7ffffef,27>>, <<\h7fffff0,27>>, <<\h3ffffee,26>>>>
EosCode == <<\h3fffffff,30>>

Eos == 256
CodeTable == Codes0 \o Codes32 \o Codes64 \o Codes96 \o Codes128 \o Codes160 \o Codes192
             \o Codes224 \o <<EosCode>>
CodeOf(symbol) == CodeTable[symbol + 1]
Symbols == 0 .. Eos
-------------------------------------------------------------------------------
\* The bits of a string, and of encoded data.
CodeBits(text) == FlattenSeq([k \in DOMAIN text |-> BitsOf(CodeOf(text[k])[1], CodeOf(text[k])[2])])
DataBits(data) == FlattenSeq([k \in DOMAIN data |-> BitsOf(data[k], 8)])

\* How many bits the code of a string has.
CodeLen(text) ==
    LET upTo[k \in 0 .. Len(text)] ==
            IF k = 0 THEN 0 ELSE upTo[k - 1] + CodeOf(text[k])[2]
    IN upTo[Len(text)]

\* SEEDED FAULT: a last byte that is not full is not counted.
EncodedLenDown(text) == CodeLen(text) \div 8

\* encoded_len
EncodedLen(text) == (CodeLen(text) + 7) \div 8

\* encode: padded with ones to a whole byte.
EncodeHuffman(text) ==
    LET bits == CodeBits(text)
        free == (8 - (Len(bits) % 8)) % 8
    IN BytesOf(bits \o [k \in 1 .. free |-> 1])
-------------------------------------------------------------------------------
\* build_decode_tree
Root  == <<0, 0>>
Leaf  == [node \in {CodeOf(s) : s \in Symbols} |-> CHOOSE s \in Symbols : CodeOf(s) = node]
Inner == UNION {{<<CodeOf(s)[1] \div Pow2[k], CodeOf(s)[2] - k>> : k \in 1 .. CodeOf(s)[2]} : s \in Symbols}
Child(node, bit) == <<2 * node[1] + bit, node[2] + 1>>

\* What the table is: codes of 1 to 30 bits, all of them different and none on the
\* way to another, and the greatest of 30 bits for EOS.
ASSUME HuffmanAssumption ==
    /\ \A s \in Symbols : /\ CodeOf(s) \in Nat \X (1 .. 30)
                          /\ CodeOf(s)[1] < Pow2[CodeOf(s)[2]]
                          /\ CodeOf(s) \notin Inner
                          /\ \A t \in Symbols : CodeOf(s) = CodeOf(t) => s = t
    /\ CodeOf(Eos) = <<Pow2[30] - 1, 30>>

\* SEEDED FAULT: the padding may be longer than a byte has room for.
PaddingAcceptedAny(node, count) == TRUE

\* decode, after the last bit: the unfinished node may be padding if all ones
\* from it, as often as bits were left over, keep inside the tree or reach EOS.
\* That the left over bits are themselves ones is not looked at.
PaddingAccepted(node, count) ==
    LET walk[k \in 0 .. count] ==
            IF k = 0 THEN node
            ELSE LET before == walk[k - 1] IN IF before \in Inner THEN Child(before, 1) ELSE before
    IN /\ count <= 7
       /\ \A k \in 1 .. count : \/ walk[k] \in Inner
                                \/ walk[k] \in DOMAIN Leaf /\ (k < count => Leaf[walk[k]] = Eos)

\* decode, one bit, unless there was an error.  Bits left over are counted in
\* the last byte only.
Descend(before, bit, inLastByte) ==
    LET node == Child(before.node, bit) IN
    IF before.is # "Done" THEN before
    ELSE IF node \in DOMAIN Leaf
    THEN IF Leaf[node] = Eos THEN [before EXCEPT !.is = "EosEncountered"]
         ELSE [before EXCEPT !.node = Root, !.left = 0, !.text = Append(@, Leaf[node])]
    ELSE IF node \in Inner
         THEN [before EXCEPT !.node = node, !.left = IF inLastByte THEN @ + 1 ELSE @]
         ELSE [before EXCEPT !.is = "InvalidCode"]

\* What decode knows after each bit.
Decoding(bits) ==
    LET after[k \in 0 .. Len(bits)] ==
            IF k = 0 THEN [is |-> "Done", node |-> Root, left |-> 0, text |-> <<>>]
            ELSE Descend(after[k - 1], bits[k], k > Len(bits) - 8)
    IN after

\* decode
DecodeHuffman(data) ==
    LET last == Decoding(DataBits(data))[8 * Len(data)]
    IN [is   |-> IF last.is = "Done" /\ last.node # Root /\ ~PaddingAccepted(last.node, last.left)
                 THEN "InvalidPadding" ELSE last.is,
        text |-> last.text]
===============================================================================
