# A TLA+ verification of http2-proto

http2-proto is a sans-I/O HTTP/2 library: a client connection over a transport
(plain or TLS), a server connection, frame coding and HPACK. It has no threads
and no clock. What makes it hard is *order*: the driver feeds bytes, writes
bytes, polls events and makes calls in any order it likes, the peer sends any
frame at any time, and every handler changes several pieces of state that must
stay in step. The modules here state what must hold in every such order, TLC
checks it on small instances, and TLAPS proves every safety property of a
passing run for all values of the constants.

All paths below are relative to the repository (`src/connection/mod.rs` ...).

## 1. Inventory

| Component | State it keeps | Operations | Depends on |
|---|---|---|---|
| `connection/flow_control.rs` `FlowControl` | window (i32), initial, consumed (u32), threshold | consume, should_update, reset_pending, increase_window, adjust_window, set_initial_window | - |
| `connection/stream.rs` `Stream` | stream state, send and receive window, bytes received | send_data, send_end_stream, recv_data, recv_end_stream, increase_send_window, adjust_send_window, reset | - |
| `connection/settings.rs` | four settings of each side | setters | - |
| `connection/mod.rs` `Connection` (client) | state, settings, streams, next id, flow control, HPACK coders, read and write buffer, events | on_transport_ready, on_recv/feed_data, nine frame handlers, start_request, send_data, poll_events, pending_send/advance_send | all others; owns its transport |
| `connection/server.rs` `ServerConnection` | the same, last client stream id, got_preface | feed_data/process, nine handlers, send_headers, send_data, send_goaway, reset_stream, remove_stream, poll_events, pending_send/advance_send | all but the transport |
| `transport/` | TLS state, four byte buffers | on_recv, recv, send, pending_send, advance_send, shutdown | rustls (external) |
| `frame/decode.rs` | max_frame_size; works on the read buffer | decode | - |
| `frame/encode.rs` | max_frame_size | encode | - |
| `hpack/table.rs`, `encode.rs`, `decode.rs` | one dynamic table per coder | insert, find, get, set_max_size; encode; decode | - |
| `hpack/huffman.rs` | none | encode, decode | - |
| `frame/types.rs`, `frame/error.rs`, `lib.rs` | none | plain data | - |

How they interact. The driver calls `on_recv` or `feed_data`; the bytes go
through the transport into `read_buf`; `process_frames` decodes and handles
frames until more bytes are needed; handlers change the streams and the one
`FlowControl` of the connection, append to `write_buf` and push events. The
client's handlers and calls then flush `write_buf` into the transport at once,
which may refuse (not ready) or take part of it; the server leaves `write_buf`
to the driver. Events wait for `poll_events`.

What is hard, and what makes each component correct:

* **FlowControl** is one object for two directions: `send_data` and
  `handle_data` consume from the same window, and `reset_pending` refills it.
  Correct: window and counter equal the traffic of both directions, the window
  is never negative (it is read `as usize`), the peer is never starved of
  credit.
* **Stream** has a state driven by END_STREAM and RST_STREAM of both sides and
  a window driven by SETTINGS, WINDOW_UPDATE and DATA in any order. Correct:
  the state claims only what crossed the wire and never moves back; the window
  is what was allowed less what was sent.
* **Connection** has a small state machine (WaitingPreface, WaitingSettings,
  Open, Draining) driven by the transport, the peer and the application at once.
  Correct: draining is final and admits nothing new; the preface precedes all
  else; a write taken in part loses, repeats or reorders nothing; data received
  is delivered.
* **ServerConnection**, besides that: each request id once, growing; GOAWAY
  covers what was delivered.
* **Frame decoder**: what is decoded does not depend on how the bytes were
  split into reads, a bad frame costs no more than itself, the buffer is bounded.
* **HPACK**: the peer's dynamic table equals ours at each block, whatever
  is rejected, evicted or resized.
* **Codings** (frames, HPACK integers and strings, Huffman): what was written
  comes back, all of it and nothing of what follows; what is malformed is
  refused and not read as something else.
* **The two ends together**: they agree on every window, and no exchange
  whose bodies fit the windows of their stream is left waiting for credit.

The complete list of hazards, each at its line and with the properties that
cover it, is in `PROJECT.json`.

## 2. Modules

| Module | Models |
|---|---|
| `MachineInt` | i32, u32 and usize arithmetic of a release build, with the widths as constants |
| `FlowControl`, `Stream` | the two objects as records, one operator per method |
| `Endpoint` | variables, handlers and properties that the two connections share |
| `Connection` | the client: `Endpoint` with transport, flushing, request ids |
| `ServerConnection` | the server: `Endpoint` with preface, request ids, GOAWAY, removal |
| `Link` | a `Connection` and a `ServerConnection` joined by two byte streams, with applications and drivers |
| `Exchange` | abstract: what a client and a server promise their applications. `Link` implements it |
| `Frames` | pure: which frames there are, as lengths: what the encoder writes, which wire frames the decoder accepts and as what |
| `FrameReader` | the read buffer, `FrameDecoder::decode` and the loop of `process_frames` over a byte stream that arrives in pieces |
| `Hpack` | two dynamic tables, encoder and decoder, over the ordered stream of HEADERS frames |
| `Fifo` | abstract: messages come out as they went in, each once, in order. `FrameReader` and `Hpack` implement it |
| `FrameHeader`, `FrameFormat` | pure: the bytes of a frame header, of every payload, and the parse functions |
| `Bits` | pure: powers of two, numbers as bits and bits as numbers |
| `HpackInteger`, `Huffman`, `StaticTable`, `HpackFormat` | pure: the bytes of integers, strings, and header fields, and their decoders |
| `Codings` | one application of one of these codings to one input, with the properties of the result |
| `MCConnection`, `MCServerConnection`, `MCLink`, `MCFrameReader`, `MCHpack`, `MCCodings` | values for the TLC runs |
| `Endpoint_proofs` | lemmas about what the two connections share, and about the moves of their streams |
| `Connection_proofs`, `ServerConnection_proofs`, `Hpack_proofs` | theorems of the modules they are named after |
| `Wire_proofs` | theorems of `FrameReader` and of everything that `Codings` puts to the test: frames, integers, the Huffman code, header fields |
| `LinkMoves_proofs` | the invariant of `Link`, and what each of its steps moves |
| `Link_proofs` | theorems of `Link`: each move keeps the invariant, and each step is one of `Exchange` |
| `Induction` | induction over numbers, for the proofs about recursive functions, what products and quotients are, and the parts of a sequence |

`Connection` and `ServerConnection` EXTEND `Endpoint`, which EXTENDS
`FlowControl` and `Stream`, which EXTEND `MachineInt`; `Link` INSTANCEs the two
connections, each with variables of its own. `FrameReader` and `FrameFormat`
EXTEND `Frames`; `Codings` EXTENDS `FrameFormat` and `HpackFormat`. The
`_proofs` modules EXTEND what they prove about.

The handlers of `mod.rs` and `server.rs` are the same text but for output and
HEADERS; `Endpoint` has each of them once, without output, and the two
connections conjoin the output. An action is a whole handler or call, its flush
included, for one frame.

Correspondence of state: `state`, `streams`, `flow`, `remote`, `writeBuf`,
`events`, `nextStreamId`, `lastClientStreamId`, `transport` are the fields of
the same name; `gotSettings` is `got_settings`; `preface` is `got_preface` plus whether the
bytes in the buffer are wrong; `sock` is what the transport has taken and the
socket has not. `sent`, `credit`, `rcvd`, `granted`, `delivered`, `ended`
and `announced` are history: no guard reads them but the bounds below, and
`SendReset`, which takes the streams the application has heard of from `ended`.
`ended[i]` says which ends of stream i crossed the wire: "local", "remote",
"reset", and "lost" for a peer's END_STREAM on a frame that was refused.
In `FrameReader`, `wire` and `fed` give the contents of `read_buf`: the decoder
consumes whole frames, so the buffer is the bytes of `wire` from the start of
frame `next` to `fed`. In `Hpack`, `encoder` and `decoder` are the two
`DynamicTable`s; the table's running `size` is the sum over its entries there,
and `sender` says whether the encoder is this library's or one that also writes
literals without indexing and size updates. In `Link`, what one end has ready
to be sent (`cSock`, `sWriteBuf`) is the stream towards the other: the driver
takes the first frame from there and feeds it in. `said` and `heard` are the
messages of each direction of each stream: as an application hands them over,
and as the frames bring them that the other end takes. (That a frame which was
handled becomes an event is `DataDelivered`, of the client alone.) The
client's application offers all that is left of a body; the server's offers no
more than a frame of the client's at a time, because the server's `send_data`
does not look at that limit (section 3). In `FrameReader`, what a frame on the
wire means is `Carried`: the frame that `encode.rs`, or another peer's encoder with
padding, writes so. It does not mention the decoder; what no frame is written as is
malformed and means nothing.

Abstractions. In the connections a frame is a record of type, id, length and
END_STREAM, a header block decodes or does not, events keep their kind and
stream; in `FrameReader` a frame is lengths and the one value its parser looks
at, and `FrameAsOutlined` checks that the parsers over bytes accept just
those frames. In `HpackFormat` a table entry is two strings, and strings stand
for their bytes. Calls that fail before they change anything and frames that
are ignored are not steps. Machine integers wrap, as in a release build; a
debug build panics at the same step. The frames of one read are separate steps
between which the application may act, which allows more than the code does and
so weakens no safety property.

Operators marked `SEEDED FAULT` stand before the operator they falsify. No
specification uses them; each is a plausible bug that one property detects.

## 3. Runs

Constants shrink the code's numbers and keep their relations: `I32Max` 15
(31 in `Link`, where `MaxTraffic` is the 27 that the window leaves) for 2^31-1, `USizeMod` 128 (256) (so a negative i32 read as
usize exceeds every length), `DefaultWindow` 4 for 65535 (threshold 2),
`DefaultMaxFrame` 3 for 16384, `WordBits` 15 for the 64 of usize in HPACK
integers. Bounds, all in guards: `MaxTraffic` (bytes of DATA), `MaxCredit` (credit
per window), `MaxQueue` (frames encoded and not written), `MaxEvents` (events
not polled), `MaxRequests`, `MaxFrames`, `MaxBlocks`, `MaxOtherBlocks`.
`PeerFrames` and `AppCalls` restrict a run to what its question is about;
together the runs use every frame and every call.

| Run | Question | Why the bounds suffice |
|---|---|---|
| `client_flow` | Do the two ledgers stay exact with uploads, downloads, credit and resizing in any order? Is the window ever negative, the peer ever starved? Are bytes delivered and frames in order under a handshake, partial writes and failure? | The traffic is more than the window and three times the threshold; one grant of 7 nearly and a second one does pass I32Max; two streams share the window; a write of more than `WriteLimit` exists once SETTINGS raises the frame size; two HEADERS and DATA share the queue |
| `client_lifecycle` | Do stream states follow the wire, forward only? Is every END_STREAM of a frame that is not refused recorded? Is draining final? | Two streams, every frame on each of them and on an unknown one, refused ones among them, both END_STREAM values |
| `server_lifecycle` | The same of the server, with request ids, GOAWAY of both sides, resets and removal | Ids 1, 2, 3: a used, an even and a new one in each state; DATA is empty here (`link` has the traffic); an increment of 14 is too large for any window |
| `link` | Are both ledgers exact? Do the two ends agree on the windows? Does each message arrive as it was handed over, and is every request answered? | Two exchanges: one with three bytes each way, one with two down, in windows of four: the bodies together exceed the shared window in both directions, no one exceeds its stream's; a reset at any point of either, GOAWAY at any time |
| `frame_reader` | Is what is handled what was meant, each frame once and in order, whatever the reads? Is the buffer bounded? What follows a frame that is too large? | Three frames of thirteen kinds (five that this library encodes, eight of other peers: padding that leaves one byte, or just the fixed part, padding too long by one in each case, malformed, oversized); reads of 0, 1, 8 and 21 bytes put a boundary inside headers and payloads and several frames into one read; real header and payload lengths |
| `hpack` | Do header lists arrive as they were sent, through evictions, resizing up to the default table size, and what other encoders write? | A table of four units, fields of one to three: four blocks fill it, evict and refill it; sizes 0 to 4 make each entry too large for the table once; another encoder's three blocks put a size update or a literal without indexing between two that index |
| `codings` | Is what is decoded what was encoded? Is what is malformed refused? | Some 78,000 inputs: integers of every prefix in all tails of up to four bytes from the ends of the digit range, which pass the word; all strings of up to one byte and those of up to three (four, when decoding) bytes from codes of each length; all static fields and 30 others over tables that pass the 6-bit and 7-bit index; every frame type with every flag, payload lengths around each fixed part, padding and setting limits |

`frame_reader` and `hpack` check the abstract `Fifo` as a property, `link` the
abstract `Exchange` (under `said` and `heard`, which only record what
`Connection` and `ServerConnection` were given and gave): a bad frame, a refused
block, a resize, an unfinished read, SETTINGS, WINDOW_UPDATE and polling
are all stutters of it.

`StreamLedger` and `AcceptedEndRecorded` are checked of the client, and proved of
both ends. `ConnLedger`
of the server is checked by `link` (`LedgersExact`) and proved,
`ConnWindowNonNegative` and `PeerNotStarved` of the server are proved (section
4).

Two things `link` shows that are not evident from the code. Every byte of DATA
is taken out of the connection window of both ends, and a WINDOW_UPDATE refills
both, so the two `FlowControl`s are equal whenever nothing is under way
(`ConnectionWindowsAgree`), although neither is what the RFC means by a window;
that is why two ends of this library never deadlock. And both directions of an
exchange draw on the one window, so an upload slows the response.

Fairness. The library runs only when called, so the connections alone promise
nothing and their runs state no fairness. `Link` assumes `WF_vars(Work)`: as
long as the drivers or the applications have something to do, one of them does
something. It is weak fairness of all of it together, not of each action: a
driver's loop feeds what arrives, polls and writes what is pending, and an
application takes up what it was told of and calls again what returned
WouldBlock or was done in part. Resets and GOAWAY are not part of `Work`.

The runs that TLC must find violated show where the code differs from what
the repository says of it (`PROJECT.json`, `findings`, quotes the lines):

| Run | Property | What happens |
|---|---|---|
| `client_sent_credit` | SentWithinCredit | received DATA refills the window that bounds sending |
| `client_stream_window` | StreamSendWithinWindow | a stream window made negative by SETTINGS is read as usize and limits nothing |
| `server_trailers` | PeerEndRecorded | trailers are refused as a used stream id, and the END_STREAM they carry is lost: the stream counts as receiving for ever |
| `hpack_rejected` | HeadersArrive | a HEADERS frame refused for its id is not decoded, later blocks decode wrongly |
| `link_stall` | RequestsAnswered | a body longer than the initial window of its stream never arrives: no WINDOW_UPDATE for a stream is ever sent |

Known divergences. These were met while modelling, the models show them, and
the passing properties are stated so that they do not depend on them; no run is
spent on them but where one is named:

* `reset_pending` adds unchecked (`flow_control.rs:73`): after sends, and
  WINDOW_UPDATEs each of which was accepted, the sum can pass i32::MAX, and the
  window wraps negative; `CHANGELOG.md:14` says that windows no longer
  overflow. The ledger properties are conditional on the peer's credit.
* What an end sent is granted to the peer as credit with the next WINDOW_UPDATE
  (`mod.rs:453`): with traffic both ways the peer's window grows for ever, and
  after about 2^31 bytes an honest WINDOW_UPDATE is rejected.
* `adjust_send_window` adds unchecked (`stream.rs:133`): SETTINGS that raise the
  initial window after WINDOW_UPDATEs can wrap a stream's window, where the RFC asks
  for an error. `StreamLedger` counts modulo 2^32 and holds over it.
* `handle_data` changes stream and flow control before the flush that can fail
  (`mod.rs:462`); when it fails, the Data event is never pushed. `DataDelivered` is
  about a transport that is ready.
* The Huffman decoder checks padding by walking on from the unfinished code, so
  it accepts some padding that is not ones: 0xb8, the code of ':' and a zero,
  decodes to ":", where `huffman.rs:1165` says that padding "that isn't all 1s"
  is an error. `HuffmanUnambiguous` holds all the same.
* `start_request` with end_stream leaves the client's stream Open
  (`mod.rs:509`), so `EndStreamRecorded` is checked of the server only.
* `send_data` never asks `can_send` (`mod.rs:537`, `server.rs:486`): DATA goes
  out on streams that were ended or reset. In `Link` the applications stop at
  the end of a message.
* The first SETTINGS opens the connection whatever its state was
  (`mod.rs:346`): a GOAWAY before it is forgotten (hence `gotSettings` in
  `DrainingIsFinal`), and SETTINGS in the read that ends the TLS handshake open a
  connection whose preface is then never sent.
* After a wrong preface the server keeps the bytes and pushes another error at
  every later call (`server.rs:139`).
* After 2^30 requests the client's ids start over and replace streams it keeps
  (`mod.rs:503`); the runs stay below that.
* `has_pending_send` counts `write_buf`, which `pending_send` does not show
  (`mod.rs:600`).
* The server opens requests after `send_goaway` (`server.rs:339`).
* A frame that is refused loses the END_STREAM it carries, and the connection
  goes on with a stream that waits for an end which has come. That is so of the
  server's trailers (`server.rs:350`, run `server_trailers`), of a HEADERS frame of
  the client whose block HPACK rejects (`mod.rs:412` returns before
  `recv_end_stream`), and of any frame that the decoder rejects. In `ended` such an
  end is "lost": `PeerEndRecorded` speaks of all ends and fails of both
  connections, `AcceptedEndRecorded` of the others, and holds.
* A frame with padding and nothing else is refused (`decode.rs:475`, `>=`), though
  the line above it says that the padding "must not exceed remaining payload", as
  RFC 9113 does: an empty DATA frame with END_STREAM, padded, is lost.
  `HandlesWhatWasSaid` holds of peers that do not write such frames
  (`NothingOnlyPadded`): with one in `ForeignFrames` TLC finds it violated.
* The server's `send_data` does not look at the peer's max_frame_size
  (`server.rs:486`; the client's does, `mod.rs:548`): more than 16384 bytes within
  the window go out as one DATA frame, which the client's decoder refuses.
* `process_frames` stops at a frame that does not parse (`mod.rs:265`); whole
  frames behind it wait for the next call, hence `outcome = "More"` in
  `NothingLeftWhole` and `BufferBounded`.
* A header table size above the default is used by the encoder without the
  size update that would tell the decoder (`encode.rs:43`); `hpack` stays at
  or below it.
* A block that the server refuses undecoded is lost to its table with all it says
  (`server.rs:350`, run `hpack_rejected`): a size update too, which the model's other
  encoder never puts into such a block.
* Padding is not charged to flow control (`mod.rs:450`): `PeerNotStarved` speaks
  of a peer that does not pad.

## 4. Proofs

Each `_proofs` module proves its theorems for every value of the constants that
satisfies the assumptions (in effect: widths are those of machine integers, the
default window fits i32 and is at least 2, inputs are what the decoder lets
through, sizes are numbers). Where a theorem needs more, its statement says so
after `ASSUME`, and this section says why.

### The connections: `Connection_proofs`, `ServerConnection_proofs`

* `TypeCorrect`: `Spec => []TypeOK`.
* `LedgerInvariant`: `Spec => []Ledger`, and from it `ConnLedgerHolds` and,
  for the client, `ConnWindowHolds` and `PeerNotStarvedHolds`; for the server
  `ServerWindowHolds` states both.

`Ledger` is the conjunction of `ConnLedger`, `ConnWindowNonNegative` and
`PeerNotStarved`. None of the three is inductive alone: that the counter is
exact needs the window not to have wrapped, which needs `send_data` to have read
a non-negative window, which needs the ledger; and that `consume` in
`handle_data` cannot take the window below zero needs that fewer bytes than the
threshold are outstanding. Together with `TypeOK` they are inductive. All
three are conditional on the peer's credit fitting the window type, and fail
without it (section 3, the first known divergence). Only WINDOW_UPDATE of
the connection, `send_data` and `handle_data` touch what `Ledger` reads
(`CreditConnectionLedger`, `SendOnLedger`, `HandleDataLedger`); `LedgerFrame` is
every other step. `Endpoint_proofs` holds the lemmas that do not depend on
which end is meant; both ends use them.

* `StreamStateJustifiedHolds` and `StreamLedgerHolds` of both ends,
  `AcceptedEndRecordedHolds` and `StreamForwardOnlyHolds` of both,
  `EndStreamRecordedHolds` of the server.

They share one argument, in `Endpoint_proofs`: a step either makes a *move* on
each stream it keeps (`StateMove`: an end crosses the wire and the state follows
it, or it was on a refused frame and is lost; `WindowMove`: the window changes
with what the peer allows and what was sent, up to one wrap) or opens one stream
in a known state. Every action of the two connections is shown to be such a step once (`Moves`, `Started`,
`Requested`), and each property follows from the moves, whatever the action was.

* The server's `RequestIdsGrowHolds` and `GoAwayCoversRequestsHolds`. Both need
  `IdsRemembered`: every id that was ever opened is at most
  `lastClientStreamId`, which outlives the removal of the stream. So do the
  stream properties of the server: a request must not replace a stream.
* `DrainingIsFinalHolds` of both ends; the server's needs that SETTINGS come
  behind the preface (`SettingsAfterPreface`).
* The client's `DataDeliveredHolds`, from the stronger `Delivering`: what is
  delivered is what was received also before the handshake is over.
* The client's `HeadersFirstHolds`. Its invariant adds that no frame in either
  buffer is of a stream not yet started, so that HEADERS, when they are queued,
  come first; the rest is how `Flush` splits the buffer.

`HeadersFirst` and `StreamForwardOnly` of the client hold only while its stream
ids last: `next_stream_id` is a u32 of which `StreamId::new` keeps 31 bits, and
after 2^30 requests ids come again. The two theorems assume `IdsLast`
(`2 * MaxRequests <= I32Max + 1`), and `IdsBelowNextHolds` is their invariant. The
other theorems about the client hold past that point too.

### Frames and the frame reader: `Wire_proofs`

* `HeaderRoundTrip`: the nine bytes of a frame header give back length, type,
  flags and stream id for all values, the length modulo 2^24, which is what a
  longer payload would be announced as.
* `OwnFrameParses`: what the encoder writes for any frame a connection builds is
  accepted by the decoder and parsed as that frame.
* `CarriedParses` and `AcceptedIsCarried`: what another peer writes for a frame,
  padded as it likes, is accepted and parsed as that frame, unless the padding is all
  there is; and what is accepted is written for a frame, so that a malformed one is
  refused.
* `TypeCorrect`, `NothingLeftWholeHolds`, `BufferBoundedHolds`,
  `TooLargeIsFinalHolds`, for every split of the bytes into reads. The type
  invariant carries the geometry (frames lie end to end, `read_buf` starts with
  one); `StuckAtNext` carries that a frame refused as too large stays first.
* `HandlesWhatWasSaidHolds`: `FrameReader` implements `Fifo`. Each step maps to
  `Send`, to `Receive` or to a stutter, under two invariants: what is meant is
  the accepted frames of the wire in order (`SaidInOrder`), and what is handled
  is the first of them, up to `next` (`HandledInOrder`). That what a peer means by
  a frame is what the decoder makes of it (`WritesMeaning`) is `OwnFrameParses`,
  `CarriedParses` and `AcceptedIsCarried`. The theorem assumes `NothingOnlyPadded`
  (section 3).

* `FrameComesBack` and `FrameRoundTripHolds`: the bytes of any frame that can be
  written are decoded as that frame, and what follows is left as it is. One lemma
  per frame type (`DataBack` ... `UnknownBack`) says that its parser finds each part
  at its place; SETTINGS is a sequence of any length of equal pieces (`EqualPieces`).
* `ParsersAsOutlined` and `FrameAsOutlinedHolds`: on any payload under any flags each
  parser refuses what `Frames` says it refuses and keeps as much as `Frames` says. So
  what is proved of `FrameReader`, where a frame is lengths, is about the parsers of
  bytes.

### The bytes of header fields: `Wire_proofs`

The theorems about `Codings` have one invariant, `Coded`: the input is one of
those given, and the output is what the coding makes of it (`CodingSteps`). What
remains is then a theorem about the coding, for all inputs:

* `IntegerExact` (`IntegerDecodedExactlyHolds`): `decode_integer`, which computes with
  one word, gives the number that the bytes stand for by definition, refuses exactly
  what a word cannot hold, and asks for more exactly when the end is missing. The
  proof follows the loop: as long as it reads, its value is the exact sum up
  to this byte (`TakeIsExact`, `ReadsOn`); once it stopped, nothing changes
  (`StaysRead`).
* `IntegerComesBack` (`IntegerRoundTripHolds`) and `MarkedComesBack`: every value
  of a word comes back, with every prefix of 1 to 8 bits and under every mark that
  shares its first byte, whatever follows. That the groups of seven bits add up to
  the value (`GroupsAddUp`) is an induction over the value.
* `FieldDelimited` (`FieldDelimitsItselfHolds`): for arbitrary bytes, a header field
  that was read lies within them, and cut short anywhere it is incomplete, never
  another field. Integers, strings, names and values each delimit themselves
  (`Delimited`), and what is put together of such parts does too.
* `HuffmanReadOneWay` (`HuffmanUnambiguousHolds`): what the decoder accepts starts
  with the code of the text it gives, with less than a byte left over. The
  invariant, bit by bit, is `ReadThrough`: the bits read are the code of the text so
  far and the way from the root to the node reached. Eight bits or more cannot be
  left over, although a code may be longer than that: the decoder counts the
  bits since the last character within the last byte only: when no character ended
  there it counts all eight, which is refused, and otherwise the count is the whole way.
* `HuffmanComesBack` (`HuffmanRoundTripHolds`): the code of any string, padded, is
  decoded to it. The decoder arrives at the end of each character's code with the
  text so far (`WordRead`): its nodes on the way are inner nodes, because the code
  is on the way to a leaf. The padding leads on towards EOS and is accepted
  (`OnesLeadOn`, `OnesArePadding`).
* `FieldComesBack` (`FieldRoundTripHolds`): `decode_header` reads every field from
  the bytes that `encode_header` wrote for it, with any dynamic table and any bytes
  behind: by index, with an indexed name, or as two strings, each in Huffman code
  when that is shorter. `Lookup` says that what the encoder finds in the tables the
  decoder finds under the index that was written; `ReadsAs` that the marks of the
  representations do not disturb the integers behind them.

The constants are assumed to be what the program can have (`CodingsAssumption`):
fields of two strings that have bytes, lengths and indices that a word holds,
payloads of a length that 24 bits hold. `HpackFormatAssumption` says that texts are
told apart by their bytes. `HuffmanAssumption` is no assumption on a constant but
says what the code table is: its codes have 1 to 30 bits, no two are the same,
none is on the way to another, and EOS is all ones. That is a finite fact
about 257 literals, which TLC evaluates when it checks `codings`; the proofs use it
and do not look at the literals.

### HPACK: `Hpack_proofs`

* `TypeCorrect`, `TablesInStepHolds` and `HeadersArriveHolds`: `Hpack`
  implements `Fifo`.

The invariant (`IInv`) speaks of the blocks under way. There is a chain of
tables, from one in step with the decoder's to the encoder's own, such that each
block brings its list to every decoder in step with the table before it and
leaves that decoder in step with the table after it (`Carries`). "In step"
(`Sync`) is that the encoder's entries are the newest of the decoder's: not that
the tables are equal, which is false once SETTINGS made the encoder's smaller.
A block that is sent adds a link to the chain, a block that is handled takes the
first off, and a resize replaces the last table, which is sound because
eviction only shortens (`ResizedAlone`). That one block carries its list is an
induction over its instructions (`BlockInStep`, `UpdatedInStep`,
`UnindexedInStep`), each step of which is that the representation
`encode_header` chooses means the field to `decode_header`
(`FieldCarried`) and that both insert and evict alike (`InsertedInStep`).

The three theorems assume two things of the constants. `RefusedStatic`: header
lists that the server refuses undecoded use the static table only; run
`hpack_rejected` shows that it is needed. `SizesUpToDefault`: no
SETTINGS_HEADER_TABLE_SIZE is above the default, since the encoder would use the
larger table without telling (section 3). Run `hpack` satisfies both.

### The two ends together: `LinkMoves_proofs`, `Link_proofs`

* `LinkImplementsEnds`: `Spec => C!Spec /\ S!Spec`, where `C` and `S` are
  `Connection_proofs` and `ServerConnection_proofs` under the variables of one end
  each, with every frame that its decoder lets through as the peer's. Each end of `Link` is
  thus one that the theorems above speak of, and their lemmas are used here.
* `LinkInvariant`: `Spec => []LinkInv`, and from it `LedgersExactHolds`,
  `StreamWindowsAgreeHolds` and `ConnectionWindowsAgreeHolds`.

`LinkInv` says that two accounts of the same thing agree but for what is under
way, and every part is there because another needs it:

* `ClientAlone`, `ServerAlone`: types, ledger and ids of each end as proved above,
  the settings it has, and that its traffic and its grants are within
  `MaxTraffic`.
* `FramesSound`: what an end writes the other end's decoder lets through. Without
  it the ends are not those of the theorems above.
* `AccountsAgree`: bytes sent equal bytes received and bytes under way, credit granted
  equals credit taken and credit under way, both ways. It discharges the condition of
  the ledgers: the peer's credit does fit the window type, since it is this end's own
  traffic.
* `OneWithholdsLittle`: when no DATA is under way one of the counters is below
  the threshold. It is what `ConnectionWindowsAgree` needs besides the
  accounts: two windows are equal because every byte left both and every grant
  refilled both, and more than half is left because not both ends withhold.
* `StreamsKnown`: the client's streams are the server's and those whose HEADERS
  are under way, and no DATA precedes those.
* `StreamWindows`: `StreamWindowsAgree` with the windows of a stream the server
  has not seen yet, and that none is negative: the `as usize` of `send_data`
  (section 3, `client_stream_window`) never bites between two ends of this library with the default settings.
* `BodiesKept`: an application never has a negative number of bytes left.

`NextMoves` shows once, action by action, that a step of `Link` is one of twelve
moves of bytes, credit and frames (a frame without bytes is written or taken, a stream is
asked for or opened, DATA is sent or taken with or without a WINDOW_UPDATE in
return, credit is taken, ...), with an allowed step of each end. Each part of `LinkInv`
then follows from the moves (`AccountsKept`, `FramesKept`, `StreamsKnownKept`,
`WindowsKept`, `BodiesStay`), whatever the action was.

`MessagesArriveHolds` (`Spec => MessagesArrive`) shows that `Link` implements `Exchange`, under
`LinkInv` and one more invariant:

* `Conveyed`: of each message, the parts heard and the parts that the frames
  under way bring are the parts said, in this order (`Between`). `marks` are the
  states of the message at its receiver after each of these frames; that every one begins
  the message (`Begins`) is what makes the next delivery a prefix of it, as
  `Hear` demands. Comparing only the number of parts would not exclude a swap, and the
  whole queue concatenated would have to be taken apart again for each delivery.
* Its last conjunct, that a stream the server's application knows has been
  heard of, makes `Say` legal: no answer before its request.

`NextUtterances` shows, action by action, that a step says something on one stream,
delivers the first frame, or is silent. It cites `LinkInv` for the ids: a request
goes out under an id nobody has spoken on. `UtterancesPromised` then maps each of these to
`Say`, `Hear` or a stutter of `Exchange` (a frame without a body and an end is heard as nothing), and shows that
it keeps `Conveyed`.

All six theorems assume `TrafficFits` (`DefaultWindow + MaxTraffic <= I32Max`).
Windows grow with the traffic, for both ends grant what they sent as well as what
they received, and past that bound an honest WINDOW_UPDATE is rejected (section
3, the second known divergence). In the code the bound is about 2^31 bytes of bodies on
one connection; run `link` is within it.

### How induction over data is done

The prover has no induction rule for a property given as an operator.
`Induction` proves from the library's theorems about finite sets that a set of
numbers that is not empty has a least member, and from it induction for a
property given as a *set* of numbers (`UpTo`). That is enough to show that the
recursive functions of `Hpack`, `FrameReader`, `Connection`, `HpackInteger` and
`Huffman` exist (a definition by CHOOSE says nothing before that is shown) and
satisfy their recursion (`Recursion`, `RecursionFromOne`, `UnendingRecursion`), and
to reason about sequences of any length.

### What is only model-checked

Liveness (`RequestsAnswered`, `UploadsArrive`) and ENABLED are out of the prover's
reach. That `HuffmanAssumption` is true of the table is evaluated by TLC. All
invariants and action properties of the passing runs are proved, under the
conditions named above.

## 5. What is not modelled

The byte buffers of the transports (`advance_send` compacts them only when all
was written, so that a socket that never quite drains makes them grow), rustls,
local settings other than the defaults, a header block in more than one frame
(the code does not support it: CONTINUATION is an error event, one of the
frames that `RecvBadFrame` stands for), the names of error codes, a transport whose `recv` fails between two reads of one call, and
methods without a caller in the library: `adjust_window`,
`set_initial_window`, `reset_bytes_received`, `with_table_size`, `set_huffman`,
the decoder's `set_max_table_size`. `PROJECT.json` says for each component what
is missing and why.

## 6. Plan

Done, in this order: the connections and their flow control, because both
directions of every stream go through it; the frame reader; HPACK; the two ends
together; the codings; the proofs about the connections, the frame reader and
HPACK, with the refinement of `Fifo` by the latter two; the proofs that the two
ends together agree on ledgers and windows, and that they deliver messages as `Exchange`
promises; the proofs about the bytes of frames, integers, strings and header fields.

Next:

1. `Transport`: the byte buffers of both transports, partial writes, and that
   what `send` accepted leaves in order.
2. `CreditWindow`, what a flow control window promises, as an abstract
   specification; one direction of `FlowControl` implements it, both
   directions do not (`client_sent_credit`).
