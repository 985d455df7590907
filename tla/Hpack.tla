--------------------------------- MODULE Hpack --------------------------------
(***************************************************************************)
(* hpack/table.rs, encode.rs and decode.rs: header compression in one      *)
(* direction, from the encoder of one end over the ordered stream of       *)
(* HEADERS frames to the decoder of the other.  Encoder and decoder each   *)
(* keep a dynamic table and must change it alike, or an index means one    *)
(* field to one and another field to the other.  The encoder is this       *)
(* library's or another one, which may also write what this one never      *)
(* does: literals that are not indexed and updates of the table's size.    *)
(*                                                                         *)
(* A field is a name and a value.  An instruction of a block keeps what    *)
(* matters to the tables: an index into the dynamic table stays an index,  *)
(* an entry of the static table and a literal string stand for themselves. *)
(***************************************************************************)
EXTENDS Naturals, Sequences, SequencesExt, FiniteSets

CONSTANTS
    Fields,         \* header fields, [name, value]
    Size(_),        \* HeaderField::size of a field
    StaticFields,   \* fields the static table has with their value
    StaticNames,    \* names it has
    TableSize,      \* DEFAULT_TABLE_SIZE
    HeaderLists,    \* the header lists of requests or responses
    SettingsSizes,  \* SETTINGS_HEADER_TABLE_SIZE values of the decoding end
    RefusedLists,   \* those a server gets in frames it refuses for their stream id
    MaxBlocks,      \* bound on the blocks sent
    OtherLists,     \* the header lists of another library,
    UpdateSizes,    \* the size updates it writes
    MaxOtherBlocks  \* and the bound on its blocks

ASSUME HpackAssumption ==
    /\ \A f \in Fields : f = [name |-> f.name, value |-> f.value] /\ Size(f) \in Nat \ {0}
    /\ StaticFields \subseteq Fields
    /\ \A f \in StaticFields : f.name \in StaticNames
    /\ TableSize \in Nat
    /\ HeaderLists \subseteq Seq(Fields) \ {<<>>}
    /\ SettingsSizes \subseteq Nat
    /\ RefusedLists \subseteq HeaderLists
    /\ MaxBlocks \in Nat
    /\ OtherLists \subseteq HeaderLists
    /\ UpdateSizes \subseteq 0 .. TableSize
    /\ MaxOtherBlocks \in Nat

VARIABLES
    sender,     \* whose encoder it is, This library's or an Other one
    encoder,    \* dynamic table of the encoder: entries, newest first, and max_size
    decoder,    \* dynamic table of the decoder
    frames,     \* header blocks on their way
    encoded,    \* history: the header lists encoded
    decoded     \* the header lists that came out, or an error in place of one

vars == <<sender, encoder, decoder, frames, encoded, decoded>>

EmptyTable == [entries |-> <<>>, maxSize |-> TableSize]

Init ==
    /\ sender \in {"This", "Other"}
    /\ encoder = EmptyTable /\ decoder = EmptyTable
    /\ frames = <<>>
    /\ encoded = <<>> /\ decoded = <<>>
-------------------------------------------------------------------------------
(***************************************************************************)
(* The dynamic table                                                       *)
(***************************************************************************)
\* The sizes of the newest entries, of any number of them, and of all.
Sums(entries) ==
    LET upTo[k \in 0 .. Len(entries)] == IF k = 0 THEN 0 ELSE upTo[k - 1] + Size(entries[k])
    IN upTo
Total(entries) == Sums(entries)[Len(entries)]

\* evict: the newest entries that fit the limit stay.
Fit(entries, limit) ==
    LET kept == {k \in 0 .. Len(entries) : Sums(entries)[k] <= limit}
    IN SubSeq(entries, 1, CHOOSE k \in kept : \A j \in kept : j <= k)

\* SEEDED FAULT: a field too large for the table leaves the table alone.
InsertedUnlessLarge(t, f) ==
    IF Size(f) > t.maxSize THEN t
    ELSE [t EXCEPT !.entries = <<f>> \o Fit(@, t.maxSize - Size(f))]

\* insert: a field too large for the table empties it.
Inserted(t, f) ==
    [t EXCEPT !.entries = IF Size(f) > t.maxSize THEN <<>>
                          ELSE <<f>> \o Fit(@, t.maxSize - Size(f))]

\* SEEDED FAULT: entries are evicted only by the next insertion.
ResizedLazily(t, size) == [t EXCEPT !.maxSize = size]

\* set_max_size
Resized(t, size) == [entries |-> Fit(t.entries, size), maxSize |-> size]

\* find: the newest entry that is f, and the newest that has its name; 0 is None.
Newest(at) == IF at = {} THEN 0 ELSE CHOOSE k \in at : \A j \in at : k <= j
FindField(t, f) == Newest({k \in DOMAIN t.entries : t.entries[k] = f})
FindName(t, f)  == Newest({k \in DOMAIN t.entries : t.entries[k].name = f.name})

(***************************************************************************)
(* Coding of one field: [op, at, field], where at is an index or 0.  A     *)
(* size update is an instruction too, with the size in place of an index.  *)
(***************************************************************************)

\* encode_header: which representation, in the order of the match there.
Represent(t, f) ==
    IF f \in StaticFields THEN [op |-> "Static", at |-> 0, field |-> f]
    ELSE IF FindField(t, f) # 0 THEN [op |-> "Indexed", at |-> FindField(t, f), field |-> <<>>]
    ELSE IF f.name \in StaticNames \/ FindName(t, f) = 0
         THEN [op |-> "Literal", at |-> 0, field |-> f]
    ELSE [op |-> "Literal", at |-> FindName(t, f), field |-> f.value]

EncodeHeader(t, f) ==
    LET i == Represent(t, f)
    IN [instr |-> i, table |-> IF i.op = "Literal" THEN Inserted(t, f) ELSE t]

\* The instruction for a field that is not to be indexed, and for a size.
Unindexed(t, f) == [Represent(t, f) EXCEPT !.op = IF @ = "Literal" THEN "Unindexed" ELSE @]
SizeUpdate(size) == [op |-> "Update", at |-> size, field |-> <<>>]

\* decode_header: the field, if the index is one of the table's; a size, if it
\* is no more than max_table_size, the default.
Resolves(t, i) == i.at <= IF i.op = "Update" THEN TableSize ELSE Len(t.entries)
FieldOf(t, i) ==
    CASE i.op = "Indexed"                             -> t.entries[i.at]
      [] i.op \in {"Literal", "Unindexed"} /\ i.at # 0 ->
            [name |-> t.entries[i.at].name, value |-> i.field]
      [] OTHER                                        -> i.field

\* SEEDED FAULT: the decoder keeps literals that are not to be indexed.
DecodeHeaderKeepsAll(t, i) == CASE i.op \in {"Literal", "Unindexed"} -> Inserted(t, FieldOf(t, i))
                                [] i.op = "Update"                  -> Resized(t, i.at)
                                [] OTHER                            -> t

DecodeHeader(t, i) == CASE i.op = "Literal" -> Inserted(t, FieldOf(t, i))
                        [] i.op = "Update"  -> Resized(t, i.at)
                        [] OTHER            -> t

(***************************************************************************)
(* Coding of a block                                                       *)
(***************************************************************************)
EncodeNext(before, f) ==
    LET one == EncodeHeader(before.table, f)
    IN [block |-> Append(before.block, one.instr), table |-> one.table]

EncodeSteps(t, list) ==
    LET upTo[k \in 0 .. Len(list)] ==
            IF k = 0 THEN [block |-> <<>>, table |-> t] ELSE EncodeNext(upTo[k - 1], list[k])
    IN upTo
EncodeBlock(t, list) == EncodeSteps(t, list)[Len(list)]

\* What stands in decoded for a block that does not decode.
Error == <<>>

\* An instruction that does not resolve ends the block; the entries inserted
\* before it stay.
DecodeNext(before, i) ==
    IF ~before.ok \/ ~Resolves(before.table, i) THEN [before EXCEPT !.ok = FALSE, !.list = Error]
    ELSE [ok    |-> TRUE,
          list  |-> IF i.op = "Update" THEN before.list
                    ELSE Append(before.list, FieldOf(before.table, i)),
          table |-> DecodeHeader(before.table, i)]

DecodeSteps(t, block) ==
    LET upTo[k \in 0 .. Len(block)] ==
            IF k = 0 THEN [ok |-> TRUE, list |-> <<>>, table |-> t]
            ELSE DecodeNext(upTo[k - 1], block[k])
    IN upTo
DecodeBlock(t, block) == DecodeSteps(t, block)[Len(block)]
-------------------------------------------------------------------------------
\* start_request or send_headers: headers are encoded when the frame is.
SendHeaders(list) ==
    /\ sender = "This"
    /\ Len(encoded) < MaxBlocks
    /\ LET result == EncodeBlock(encoder, list) IN
       /\ frames' = Append(frames, result.block)
       /\ encoder' = result.table
    /\ encoded' = Append(encoded, list)
    /\ UNCHANGED <<sender, decoder, decoded>>

\* Another library sends headers.  It may index none of them, and may have
\* changed the size of its table, of which it then tells first.
SendOther(block, table, list) ==
    /\ sender = "Other"
    /\ Len(encoded) < MaxOtherBlocks
    /\ frames' = Append(frames, block)
    /\ encoder' = table
    /\ encoded' = Append(encoded, list)
    /\ UNCHANGED <<sender, decoder, decoded>>

SendUnindexed(list) ==
    SendOther([k \in DOMAIN list |-> Unindexed(encoder, list[k])], encoder, list)

SendUpdated(size, list) ==
    LET result == EncodeBlock(Resized(encoder, size), list)
    IN SendOther(<<SizeUpdate(size)>> \o result.block, result.table, list)

\* handle_settings: set_table_size.  The encoder resizes its table at once and
\* writes no size update, so the decoder's table keeps its size.
RecvSettings(size) ==
    /\ sender = "This"
    /\ encoder' = Resized(encoder, size)
    /\ UNCHANGED <<sender, decoder, frames, encoded, decoded>>

\* handle_headers
RecvHeaders ==
    /\ frames # <<>>
    /\ frames' = Tail(frames)
    /\ LET result == DecodeBlock(decoder, Head(frames)) IN
       /\ decoder' = result.table
       /\ decoded' = Append(decoded, result.list)
    /\ UNCHANGED <<sender, encoder, encoded>>

\* handle_headers of the server, for a stream id it refuses: trailers, for one.
\* It returns before the block is decoded.  The list is then of no interest and
\* counts as arrived.
RefuseHeaders ==
    /\ frames # <<>>
    /\ encoded[Len(decoded) + 1] \in RefusedLists
    /\ frames' = Tail(frames)
    /\ decoded' = Append(decoded, encoded[Len(decoded) + 1])
    /\ UNCHANGED <<sender, encoder, decoder, encoded>>

Next ==
    \/ \E list \in HeaderLists : SendHeaders(list)
    \/ \E size \in SettingsSizes : RecvSettings(size)
    \/ \E list \in OtherLists : SendUnindexed(list)
    \/ \E size \in UpdateSizes, list \in OtherLists : SendUpdated(size, list)
    \/ RecvHeaders
    \/ RefuseHeaders

Spec == Init /\ [][Next]_vars
-------------------------------------------------------------------------------
\* No table holds more than its size, and no entry is of no size.
TypeOK ==
    /\ sender \in {"This", "Other"}
    /\ \A t \in {encoder, decoder} :
          /\ t.entries \in Seq(Fields)
          /\ t.maxSize \in Nat
          /\ Total(t.entries) <= t.maxSize
    /\ Len(frames) = Len(encoded) - Len(decoded)

\* The header lists that come out are those that went in, in order, whatever
\* was evicted and resized on the way.
Channel == INSTANCE Fifo WITH sent <- encoded, received <- decoded
HeadersArrive == Channel!Spec

\* When nothing is on its way, the encoder's entries are the newest of the
\* decoder's: every index the encoder may use names the same field there, also
\* after the encoder's table was made smaller without a word to the decoder.
TablesInStep == frames = <<>> => IsPrefix(encoder.entries, decoder.entries)
===============================================================================
