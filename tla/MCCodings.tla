------------------------------- MODULE MCCodings ------------------------------
EXTENDS Codings, TLC

Strings(set, n) == UNION {[1 .. k -> set] : k \in 0 .. n}

\* First bytes that fill the prefix, under marks, and that do not; then bytes at
\* the ends of the digit range, enough of them to shift past the word.
FirstBytes(p) == {0, 2^p - 2, 2^p - 1, 255, 254}
Tails == Strings({0, 1, 127, 128, 255}, 4)
IntegerSamples ==
    UNION {{<<p, <<first>> \o tail>> : first \in FirstBytes(p), tail \in Tails} : p \in 4 .. 7}
    \cup {<<p, <<>>>> : p \in 4 .. 7}

ValueSamples ==
    (4 .. 7) \X (0 .. 400 \cup 16380 .. 16530 \cup {WordMax - 1, WordMax})

\* All bytes, and bytes whose codes are short, of eight bits, long and longest.
SomeBytes == {48, 58, 38, 92, 0, 10, 128, 249, 255}
TextSamples == Strings(0 .. 255, 1) \cup Strings(SomeBytes, 3)

\* 30 ones are EOS.
CodedBytes == {0, 31, 127, 184, 248, 252, 254, 255}
DataSamples == Strings(0 .. 255, 1) \cup Strings(CodedBytes, 4)

\* Texts as they are and in Huffman code, with one that is just too long for one
\* byte of length.
OctetsOf == "" :> <<>> @@ "GET" :> <<71, 69, 84>> @@ "/" :> <<47>> @@ "x" :> <<120>>
            @@ "\\" :> <<92>> @@ "x-a" :> <<120, 45, 97>>
            @@ "age" :> <<97, 103, 101>> @@ "old" :> <<111, 108, 100>>
            @@ "late" :> <<108, 97, 116, 101>> @@ "later" :> <<108, 97, 116, 101, 114>>
            @@ "long" :> [k \in 1 .. 128 |-> 92] @@ "zeros" :> [k \in 1 .. 6 |-> 48]

\* Entry k of the large table is the only one of its value; the indices of its
\* entries pass the limits of the 6-bit and the 7-bit prefix.
LargeTable == <<<<"x", "/">>, <<"x-a", "x">>>>
              \o [k \in 1 .. 63 |-> <<"old", "x">>]
              \o <<<<"age", "/">>, <<"late", "x">>, <<"later", "x">>>>
TableSamples == {<<>>, <<<<"x-a", "GET">>, <<"x", "">>, <<"age", "x">>>>, LargeTable}

FieldSamples ==
    {ENTRIES[k] : k \in DOMAIN ENTRIES}
    \cup {<<name, value>> : name \in {"x", "x-a", "age", ":path", "zeros"},
                            value \in {"", "GET", "\\", "long", "zeros"}}
    \cup {<<"age", "/">>, <<"late", "x">>, <<"later", "x">>, <<"late", "/">>, <<"later", "/">>}

\* Any bytes, and what the encoder may write.
FieldDataSamples == Strings({0, 1, 3, 63, 64, 127, 130, 190, 255}, 4)
                    \cup {EncodeField(f, t) : f \in FieldSamples, t \in TableSamples}

Payloads ==
    Strings({0, 1, 3, 255}, 3)
    \cup {<<n>> \o [k \in 1 .. m |-> 7] : n \in {0, 3, 4, 5, 6, 128}, m \in 3 .. 12}
    \cup {<<0, id, 0, 0, hi, lo>> : id \in 1 .. 7, hi \in {0, 1, 64, 128}, lo \in {0, 1, 2}}
    \cup {<<0, 5, 0, 0, 63, 255>>, <<0, 5, 1, 0, 0, 0>>, <<0, 4, 127, 255, 255, 255, 0, 2, 0, 0, 0, 2>>}
FlagSamples == {0, 1, 4, 8, 32, 45}
FrameDataSamples == (0 .. 10) \X FlagSamples \X {0, 2147483647} \X Payloads

Ids == {1, 256, 16909060, 2147483647}
Blocks == {<<>>, <<130>>, <<1, 2, 3, 4, 5>>}
Priorities == [exclusive : BOOLEAN, dependency : {0, 16909060, 2147483647}, weight : {0, 255}]
Words == {<<0, 0>>, <<1, 2>>, <<65535, 65535>>}
Settings == [code : {1, 3, 4, 5, 6, 7, 65535}, value : {<<1, 2>>, <<255, 65535>>}]
FrameSamples ==
    [type : {"DATA"}, id : Ids, endStream : BOOLEAN, data : Blocks]
    \cup [type : {"HEADERS"}, id : Ids, endStream : BOOLEAN, endHeaders : BOOLEAN,
          priority : {<<>>} \cup {<<p>> : p \in Priorities}, block : Blocks]
    \cup [type : {"PRIORITY"}, id : Ids, priority : Priorities]
    \cup [type : {"RST_STREAM"}, id : Ids, error : Words]
    \cup [type : {"SETTINGS"}, ack : {FALSE}, settings : {<<>>} \cup {<<s>> : s \in Settings}
          \cup {<<s, t>> : s \in Settings, t \in Settings}]
    \cup [type : {"SETTINGS"}, ack : {TRUE}, settings : {<<>>}]
    \cup [type : {"PUSH_PROMISE"}, id : Ids, endHeaders : BOOLEAN, promised : Ids, block : Blocks]
    \cup [type : {"PING"}, ack : BOOLEAN, data : {[k \in 1 .. 8 |-> k], [k \in 1 .. 8 |-> 255]}]
    \cup [type : {"GOAWAY"}, last : Ids, error : Words, data : Blocks]
    \cup [type : {"WINDOW_UPDATE"}, id : Ids \cup {0}, increment : Ids]
    \cup [type : {"CONTINUATION"}, id : Ids, endHeaders : BOOLEAN, block : Blocks]
    \cup [type : {"UNKNOWN"}, code : {10, 255}, flags : {0, 255}, id : Ids \cup {0}, data : Blocks]

JunkBytes == <<255, 0>>
===============================================================================
