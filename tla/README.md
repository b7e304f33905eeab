# Arduino-Websocket in TLA+

This directory is a verification project for the library: TLA+ modules that
model its components, TLC configurations that check them on small instances,
and TLAPS proofs, for every value of the constants, of the safety properties of
the frame reader, both handshakes, the sessions that put them on one stream, two
ends that both run the library, the strings, `Base64` and `Sha1`. Line numbers refer to the
sources at the repository's root, named `src/...` in `PROJECT.json`, whose `map`
links every definition to the lines it stands for.

## The system

The library is single-threaded code that a sketch calls from `setup()` and
`loop()`. Nothing in it blocks on the network but `clientHandshake`; its
concurrency is that of the program with the network, the peer and the
application's handlers, which are called from the middle of the library's loops
and may call back into it.

| component | state | operations | interacts with |
|---|---|---|---|
| `Socket` (`ws_socket.h`, `platform/win32/ws_socket.h`, Arduino's `Client`) | one TCP connection | `connected`, `available`, `read`, `write`, `print`, `stop`, `connect` | everything below reads and writes it; the peer and the network change it at any time |
| frame reader (`WebSocket::readFrame`, `readByte`, `error`) | `frameState_`, `framePtr_`, `payloadLength_`, `payloadRemainingBytes_`, `messageBuffer_` | one byte per turn of a loop that ends when no byte is there | called by `dispatchEvents()`, calls the handlers and `disconnect()` |
| frame writer, connection control (`sendData`, `disconnect`) | none of their own | write a frame; write Close and stop | called by the sketch, also from handlers |
| `clientHandshake` | local: parser state, header name and value, server key | sends the request, parses the response header as it arrives, compares keys | leaves the stream where the reader starts; uses `Sha1`, `Base64` |
| `ServerHandshake` | `origin_`, `host_`; local: line, key, flag | `run`, `analyzeRequest`, `disconnect` | leaves the stream to a reader; uses `Sha1`, `Base64` |
| sessions | none of their own: the stream | a handshake, then a `WebSocket` on the same `Socket` | the sketch calls one after the other; what the first leaves unread is the second's |
| `Sha1` | `buffer`, `bufferOffset`, `byteCount`, `state` | `update`, `hashBlock`, `finish` | both handshakes' keys |
| `Base64` | none | `base64_encode`, `base64_decode`, two length functions | both handshakes' keys |
| `String` (`platform/generic/ws_string.h`) | `m_string`, `m_length`, `m_capacity` | construct, copy, move, assign, `+=`, destroy, compare | the handshakes' strings; the heap |
| random numbers, timers, program memory, debug output | none, or the platform's | wrappers | |

What is hard in it, and what makes each part correct:

* **Resuming.** A frame arrives in pieces, and `readFrame` returns to `loop()`
  between any two bytes. The reader must go on at the same place of the same
  frame (`ParserInStep`, `FramesInOrder`). The same holds for the response
  header (`VerdictIsRight`), with the difficulty that the stream goes on behind
  the header and no byte of the frames may be taken (`HeaderRead`).
* **Counters of eight bits.** `framePtr_`, `payloadLength_` and
  `payloadRemainingBytes_` wrap. An empty payload relies on it: its counter runs
  from 0 through 255 (`TypeOK`, `EveryFrameDelivered`).
* **A buffer with no bound check.** Whether `framePtr_` stays inside
  `messageBuffer_` depends on the lengths the header formats let through
  (`FrameStaysInBuffer`; `BufferBound`, which fails).
* **Asserts that hang.** A failed `Assert` loops for ever
  (`CleanStartNeverHangs`).
* **Endings.** A peer that closes or is lost between any two bytes, errors whose
  handler calls back, `disconnect()` from inside a handler
  (`ErrorEndsConnection`, `NothingAfterStop`, `AnsweredOrStopped`).
* **Handing the stream over.** A handshake and the reader behind it share nothing
  but the stream. The client's may leave a line feed in it
  (`ErrorOnlyFromLineFeed`), the server's the rest of a request that was late
  (`RestIsNoFrame`, `RestEndsService`).
* **Two ends.** The response that one end writes is parsed by code that was
  written apart (`VerdictsAgree`, `NoFalseAlarm`, `MessagesArrive`).
* **Waiting.** A frame that can be delivered is (`EveryFrameDelivered`), control
  comes back to `loop()` (`ControlReturns`), and the handshakes return
  (`HandshakeReturns`, `RunReturns`, `BothReturn`).
* **Block boundaries** in `Sha1`'s padding and in `Base64`'s last group, and a
  message schedule that overwrites the words it is computed from
  (`PaddedAsFips180`, `RoundsAsFips180`, `EncodesAsRfc4648`); lengths that are
  computed in an `int` of unknown width (`LengthsForetold`).
* **Memory by hand.** Strings own a heap block each, swap them, and run out of
  memory; a block may end before its text's terminator (`OneOwner`, `ValueKept`,
  `StrayByteIsTerminator`, `StopsOnlyAfterFault`).

`PROJECT.json` lists every hazard at its line, with the properties that watch
it, or the reason why none does.

## Modules

| module | what it models |
|---|---|
| `Socket` | the connection: `wire` holds what the peer sent, `rx` what has arrived, `tx` what we wrote; `Arrive(k)` moves any number of bytes, `PeerCloses` and `PeerVanishes` end it |
| `WebSocket` | reader, writer, `error`, `disconnect` and the sketch that calls them |
| `FrameChannel` | the abstract specification: a queue of frames whose handlers are called in order |
| `WebSocketChannel` | the refinement mapping from `WebSocket` to `FrameChannel` |
| `ClientHandshake` | `clientHandshake` |
| `ClientSession` | `clientHandshake` and then a `WebSocket` on one `Socket`, as in `examples/WebSocketClient_Demo` |
| `ServerHandshake` | class `ServerHandshake` |
| `ServerSession` | `ServerHandshake::run` and then a `WebSocket` on one `Socket` |
| `Endpoints` | a client and a server that both run the library, with a `Socket` each |
| `Base64`, `Sha1`, `Sha1Block` | the algorithms; `Sha1Block` is `hashBlock`, round by round |
| `AcceptKey` | how the handshakes use the three: from the sixteen random bytes, or the request's key, to the answer's |
| `StringBuffer` | class `String` of `platform/generic`, over a heap of blocks |
| `Rfc6455` | the frames of RFC 6455, from which the instances' peers are built: a reference that is independent of the code |
| `Fips180` | the schedule and the rounds as FIPS 180-2 states them, in the same way |
| `MC...` | values for the constants |
| `SocketProofs` | facts about the stream that the other proofs share |
| `WebSocketProofs` | theorems about the frame reader, checked by TLAPS |
| `ClientHandshakeProofs`, `ClientSessionProofs` | theorems about `clientHandshake`, and about what comes behind it |
| `ServerProofs` | theorems about `ServerHandshake`, and about what comes behind it |
| `EndpointsProofs` | theorems about two ends of the library |
| `StringBufferProofs`, `AlgorithmProofs` | theorems about the strings, and about `Base64`, `Sha1` and the key they compute |

`WebSocket` EXTENDS `Socket`; `ClientSession` and `ServerSession` EXTEND
`WebSocket` and their handshake, so that both parts share the one socket;
`Endpoints` EXTENDS `ServerSession` and has the client as an INSTANCE of
`ClientHandshake` over a second socket. `AcceptKey` EXTENDS `Base64`, `Sha1` and
`Fips180`, which EXTENDS `Sha1Block`. `ClientSessionProofs` EXTENDS the proofs of
the parts that a session has; `EndpointsProofs` EXTENDS `ServerProofs` and has
`ClientHandshakeProofs` as an INSTANCE over the client's socket.

### How the models correspond to the code

*Granularity.* One turn of `readFrame`'s loop is one action: `readByte` and the
case of the switch that follows. There is an action per case, `ReadOpcode` to
`ReadPayload`; `ReadByteError` is the turn in which `readByte` fails;
`SpinEmptyPayload` is a turn that reads no byte because the payload is empty.
Putting `connected()` and `read()` into one step loses nothing: a byte that
arrives or a connection that ends between the two is as if it came just after.
A handler is a place where the application runs (`pc = "onFrame"` or
`"onError"`): it may send and disconnect any number of times, and then the
handler returns. The frame's Close answer, `error()` after its `onError`, and
the `disconnect()` inside it are steps of their own because the application or
the network runs between them. `pc = "hung"` is a failed `Assert`, `pc = "overrun"`
a byte that `readByte` stores behind `messageBuffer_` (`Overrun`).

*Data.* Bytes are numbers 0..255, because the parser computes with their bits.
The counters wrap (`Inc8`, `Dec8`). `messageBuffer_` has the code's `MaxMessageSize`
places (`Slots`). What a byte behind them would destroy depends on what the
linker has put there, so the program's behaviour is undefined from that byte on,
and the model's ends with it: every property claims what it says up to there,
and all runs but `reader` and `overrun` use frames that fit or are refused. `frameState_` starts with any value in
`StartStates`, since the constructor does not set it; `"Unnamed"` is any bit
pattern without a name. An object in static storage, like the demo's, starts
with zeros, that is, with `Opcode`.

*History.* `sent`, `delivered`, `clean` and `connections` belong to the model.
`clean` records that the current connection began with the parser at a frame
boundary; most properties are about such connections, and the run `staleParser`
shows what happens on others.

*Handshakes.* Names and values of header lines are tokens, spelled with one byte
each; the separators, line ends and their order are those of the code.
`equalsIgnoreCase` and `startsWith` are sets of accepted names. The request and
the answer that are written are fixed sequences of bytes, and the key that the
response has to contain is a constant: random numbers, SHA-1 and Base64 enter
only through it. How it is computed is `AcceptKey`'s subject. `WellFormed` says
what the header of a response is, field by field, and `NamesKey` what the lines
of a request are: the theorems speak of all of those, the runs of some, which TLC
finds to be among them (`AnswersWellFormed`, `RequestsNameKeys`).

*Two ends.* In `Endpoints` what one end writes is appended to the other's `wire`,
unless the other has stopped or the connection is lost, which the two ends
notice at different times. When one end stops, the other's stream ends behind
what was written before. The two bytes of a refusal are, to the client, the
beginning of a header, of which no line feed comes (`Rejected`).

*Keys.* A 32-bit word is a pair of 16-bit halves, since TLC's integers are too
small for it, and the bitwise operations work on the sixteen bits of each half
(`Bit`, `FromBits`). The byte order trick `bufferOffset ^ 3` is what `Words` does: bytes
enter a word from its high end. `Base64` works on digits 0..63; `b64_alphabet`
turns them into characters where the text itself is hashed. The k-th character
or byte is computed from the group it is in (`Nth`, `Place`), and the blocks of
`Sha1` are compared place by place with the padded message, so that nothing has to
be said of sequences that are put together one by one. Next to the rounds
of `hashBlock`, `AcceptKey` runs those of `Fips180` on the same block. The two
length functions compute in `int`: `MaxInt` is its greatest value, `AsInt` what
becomes of a larger one, and `PadsBefore` the '=' that `base64_dec_len` may find
in the memory before a text, if nothing in the text stops it.

*Strings.* The heap is a function from a few blocks to their bytes; a free block
is `<<>>`, and an allocation takes any free block or fails. A text is a sequence
of characters, `Nul` the terminator, `Junk` a byte nobody wrote. `strdup` and
`strlen` of a block without a terminator see the block's text with or without
something behind it (`Seen`). What `+=` writes outside its block is recorded in
`stray` and changes nothing else. The members that the move constructor swaps
without having initialised them are any of `Garbage`: a null pointer, one to no
block of the heap, or the address of a block, free, or in use by this string or
another, with any two numbers. Freeing, copying or reallocating a pointer to no
allocated block (`Dangles`), and writing through it or a null pointer, is taken to
end the program (`"crashed"`), a failed `assert` is `"aborted"`. `faults` keeps what
has happened: no memory, a move into a new object, and a move that found a
block's address in it (`"garbage"`). From the last on nothing can be promised of
who owns which block, so that `OneOwner`, `ValueKept`, `StrayByteIsTerminator` and
`ComparisonsAgree` speak of the strings up to there (`Intact`), and the rest of
what happens is still explored, for `StringTypeOK` and `StopsOnlyAfterFault`.
`value` and `known` are the promises: the text a string
has to hold, for the strings that were made from a known one.

## Runs

Every run lists its properties in `PROJECT.json`, with a mutant for each: a
plausible bug in a mapped definition (the operators marked `fault:` in the
modules) under which TLC finds the property violated.

| run | question | bounds |
|---|---|---|
| `reader` | do the handlers see the peer's frames, whatever the pieces and the endings, and which frames overrun the buffer? | 2 frames of 13 kinds: every opcode class, all three length formats, masked behind a two-byte length, empty, fragment, refused for its length, too long for the buffer; `MaxFrameSize` and `MaxMessageSize` 16 |
| `sketch` | what may happen after an error and after `stop()`, with an application that calls back from handlers, connects again, and whose object starts in any state? | 2 connections, 1 frame of 5 kinds on each, `sendData` until 5 bytes are written |
| `channel` | is every frame delivered, and is `FrameChannel` implemented, under fairness? | 2 frames of 5 kinds, two of them written by `sendData`, one a Close frame |
| `session` | is the client's verdict right, the stream left at the frames, and does the call return? do only proven servers' frames reach the application, and which error can a good server's frames raise? | 9 responses, all segmentations; 2 frames |
| `service` | does the server answer only whole keys, close what it refuses, and return? what becomes of the rest of a late request? | 5 requests, all segmentations; 2 frames |
| `endpoints` | do two ends of this library agree and return, and do the client's messages reach the server? | 2 frames from the client, messages or a goodbye, a loss at any time |
| `acceptKey` | are encoding, padding, rounds and the answer's key those of the standards? | Base64: all inputs of at most 4 bytes over 6 sample bytes, 3 nonces, 4095 and 4096 bytes, an `int` of 16 bits; keys of every length from 1 to 94 |
| `string` | do strings keep their texts and their blocks? | 2 objects, 3 blocks, 2 letters, 4 kinds of uninitialised members, `Extra` 2 in place of 10, `+=` up to length 3 |

Why these bounds are enough. The parser's only memory between two frames is
`frameState_` and `framePtr_` (`payloadLength_` and the buffer are overwritten
before they are used again), so two frames show every interaction of
neighbouring frames, and two connections every one of neighbouring connections.
`MaxFrameSize` and `MaxMessageSize` are equal, as in the header, and 16 keeps the
frames short. What happens at the limits is the same as with 64 and 64: 8 payload
bytes behind a masked header fill `messageBuffer_` exactly, 17 behind a two-byte
length are refused, and 13 behind a two-byte length, or 15 behind a one-byte
length, are not, and overrun it. The run `overrun` does the last two with the
header's sizes. The proofs lift the properties of `reader` and `sketch` to all
sizes, frames and numbers of them.

A handshake reads each byte once and keeps at most the current line's name and
value, so the pieces are what matters, and every segmentation of the responses
and requests is met: whole, cut off, with a wrong key or none, in another order,
with values the parser has to skip. The proofs lift the properties of the
handshakes and of the sessions to every number of lines and frames. Two frames behind them show one frame that
arrives with the header's last piece and one that follows. Two strings are what
every operation of the class takes; three blocks let a copy succeed while
both strings own a block, and an allocation may fail at any time. A
string of length 3 has grown twice, from a capacity of 0 and from one that is
full. Keys of 1 to 94 characters, with the 36 of the magic one behind them, are
messages of 37 to 130 bytes: they end at every place of a block, with one and
with two blocks before the end. Four bytes are a full Base64 group and each
partial one; the texts of 4095 and 4096 bytes lie on both sides of what
`base64_dec_len` can compute in 16 bits.

### Disagreements

Each of these runs checks what a comment, the README or an assertion says, and
TLC shows that the code does otherwise; `findings` in `PROJECT.json` quotes the
lines.

| run | what it shows |
|---|---|
| `overrun` | with the header's sizes, a frame of 63 bytes with a one-byte length, which is compared with nothing, is written past the end of `messageBuffer_`; so is one of 61 with a two-byte length, which is compared with `MaxFrameSize` without the header in front of it |
| `maskedShort` | a masked frame with a one-byte length loses its first two payload bytes, and does not end where it ends |
| `staleParser` | an object used again resumes the old connection's frame, and an `Assert` fails |
| `longMessage` | a message longer than 125 bytes is sent with a wrong length |

Others were met while modelling. They need no run of their own: some show in one
step, some are stated by a property that names the exception.

* With `StartStates <- FrameStates`, `AssertsHold` fails on the first connection.
* The `session` run holds only because `ErrorOnlyFromLineFeed` names the
  exception: the single `read()` behind "Read the remainder of CRLF"
  (WebSocketClient.cpp:136) misses a line feed that is late, and the reader then
  takes it for a frame.
* The `service` run holds in the same way. `analyzeRequest` takes the first
  moment without a byte for the end of the request. If the key has arrived by
  then, `run()` reports the connection as established, and the reader takes the
  rest of the request for a frame and cuts the connection off
  (`RestEndsService`): a client whose request comes in two pieces may be
  accepted and dropped.
* src/README.md says that binary, ping and pong frames are not recognised,
  although `readFrame` hands them to handlers; the models follow the code.
* `StrayByteIsTerminator` holds with `{1}`, not with `{}`: `grow()` makes room for
  the character only, and when the text fills its block `+=` writes the
  terminator one byte behind it. It takes a text that is exactly as long as a
  capacity that `grow()` computes, for instance the ten characters of a header
  name like "Connection".
* A copy of such a string (`serverKey = headerValue`) finds no terminator in the
  block, so that its text may be longer than the original's: `ValueKept` follows
  a copy only if it was made of the right text.
* `String(String&&)` (platform/generic/ws_string.h:56) has no initialisers, and the
  assignment it calls begins with `assert(m_length <= m_capacity)` (:92), which fails
  for members that happen to be out of order. Where they are in order, the source is left with a pointer that was never its own. If that is a block's
  address, `Owned` fails in the next state; the source's destructor then frees
  it. `OneOwner` names the exception, by the fault `"garbage"`.
* The comment on `operator=` (platform/generic/ws_string.h:73-75) promises that the
  copy of an invalid string is an invalid string, but `strdup` gets its null pointer
  (:82). `StopsOnlyAfterFault` exempts what follows an allocation that failed.
* `LengthsForetold` states exactly where `base64_dec_len` is wrong, though Base64.h:96-100
  names no limit: it looks for '=' in front of an empty text (Base64.cpp:109), and
  six times the length overflows from 5462 characters on where `int` has 16 bits
  (:112).
* `onClose` is never called: `disconnect()` calls no handler, and `error()` calls it
  only for `Error_Disconnected`, which no caller passes. WebSocketClient.h:104-105
  says of `disconnect()` "After closing the connection generates onClose event.", and
  lines 119-120 that `onClose` is called when the socket is closed.
* `acceptOrigin_` is stored (WebSocketServer.cpp:30) and the request's origin is
  kept (:83), but they are never compared. WebSocketServer.h:45-46: "acceptOrigin -
  origin that the connctions should be accepted from. if empty, then any origin
  will be accepted."
* `clientHandshake` has no time limit: a server that accepts the connection and
  stays silent stops the sketch for ever. `Error_Timeout` is declared and
  returned nowhere, and nothing promises a limit.

### Fairness

Everywhere fairness assumes what the way the library is used justifies, and
nothing of the peer, and it is weak: each step stays enabled until it is taken or
the connection ends.

* `FairSpec` (`channel`): `loop()` calls `dispatchEvents()` for ever
  (`DispatchEvents`), code that is running goes on (`ReadFrame`, `AnswerClose`),
  handlers return, and bytes in flight arrive while the connection lasts.
  `EveryFrameDelivered` exempts connections that we stop or the network loses;
  `ControlReturns` presupposes a peer that pauses, that is, has sent the
  `MaxFrames` frames it may send: as long as bytes keep coming, `readFrame` does
  not return, and no fairness can make it.
* `SessionFairSpec` (`session`): `clientHandshake` runs and bytes arrive.
  `HandshakeReturns` assumes that the server sends a whole header or goes away,
  for `clientHandshake` has no time limit.
* `ServiceFairSpec` (`service`): the same for `run()`, and for the reader behind
  it as in `FairSpec`.
* `EndpointsFairSpec` (`endpoints`): the same at both ends. `BothReturn` needs
  nothing of the other end but that it runs this library: its server never
  waits, and its answer, or the end of its stream, releases the client. The
  client's application owes nothing; it may never send.

`RunReturns` owes nothing to fairness of the client, but something to the bound
on what it sends: a request is finite. A client that never pauses inside a request
would keep `analyzeRequest` reading.

Deadlock is checked in the runs of `WebSocket` but `reader` and `sketch`: an overrun
ends the program, and a parser that is not at a frame boundary may hang in an
`Assert`, when the connections are used up. The handshakes, `Sha1` and `Base64` are
functions that return, a client whose handshake failed or a server that refused
does nothing more, and a program that was aborted has ended: the runs
`session`, `service`, `endpoints`, `acceptKey` and `string` stop there.

## Proofs

The theorems hold for every value of the constants that meets the named
assumptions of their module, and for any number of frames, connections, strings,
blocks and steps.

### The frame reader

| module | theorem | statement |
|---|---|---|
| `WebSocketProofs` | `TypeCorrect` | `Spec => []TypeOK` |
| | `ParserStaysInStep` | `Spec => []ParserInStep` |
| | `NeverHangs` | `Spec => []CleanStartNeverHangs` |
| | `OnlyLongFramesOverrun` | `AllLegible` implies `Spec => []FrameStaysInBuffer` |
| | `FittingFramesStay` | `AllLegible`, and frames of at most `MaxMessageSize` bytes with their headers, imply `Spec => []BufferBound` |
| | `ErrorEnds` | `Spec => []ErrorEndsConnection` |
| | `StopIsFinal` | `Spec => NothingAfterStop` |
| | `FramesStayInOrder` | `AllLegible` implies `Spec => []FramesInOrder` |
| | `ReaderImplementsChannel` | `AllLegible` and `OneCleanConnection` imply `Spec => Channel!Init /\ [][Channel!Next]_Channel!vars` |

Assumed is what `WebSocket` names: `MaxFrameSize <= 247`, so that a frame with its
longest header can be counted in eight bits; frames and messages are sequences of
bytes; start states are values of the type. The header's sizes, 64 and 64, satisfy
this.

*No assert fails.* `CleanStartNeverHangs` is not inductive: whether an `Assert` can
fail depends on where `framePtr_` stands. The strengthening is `IInv`, the
conjunction of `TypeOK` and `ParserInStep`. `InStep` says, for each parser state,
which values `framePtr_` can have, and in the payload that `framePtr_` less the
payload bytes already read is one of the three header sizes. `Stranded` is the
exception: an error inside a header leaves the parser where it was, but then
`onError` is running or the connection is over, and no further byte is read. That
`disconnect()` always ends the connection (`DisconnectEnds`) and that nothing but
a new connect brings it back (`StaysOver`) are the lemmas behind this case, and
behind `ErrorEnds`. `StopIsFinal` needs `SpinInv`: a parser that waits for an
empty payload takes turns without reading, and would deliver after `stop()` if
it could ever be outside `readFrame` or on a stopped socket in that state.

*Frames stay in order.* `FramesInOrder` speaks of what was delivered, so its proof
has to know what the buffer holds and which bytes come next. `OrderInv` is
`InOrder` together with `Ending` (the connection is over, or will be before
another byte is read) or `Aligned`: there is a function `off` that gives every
frame's place in the stream of bytes not yet read, `rx` followed by `wire`.
`Layout` says that the frames lie there one behind the other and that the stream
holds their bytes; `Current` that the first undelivered frame begins `framePtr_`
bytes before the stream, that the buffer holds those bytes (`Buffered`), and that
the parser's state is right for them (`InFrame`). A step of the network cuts the
stream's end and nothing else (`QuietStream`); a byte that is read moves every
place by one (`LayoutCut`, `NextByte`); then there is a lemma per parser state.
`Legible` says for which frames this is claimed: those of the formats that
`readFrame` takes apart as RFC 6455 means them, with the event RFC 6455 gives
them, and those it refuses at the header. It leaves out the frames of
two disagreements (`maskedShort`, `longMessage`), masked frames with a one-byte length and messages of more
than 125 bytes as `sendData` writes them. The frames of the runs are legible
(`LegibleFrames` in `MCSketch`, evaluated by TLC).

*The buffer.* `BufferBound`, which says that no frame is written behind
`messageBuffer_`, is false of the header's sizes. What is true of every size is
`FrameStaysInBuffer`: an overrun is inside a frame that is longer, header and all,
than the buffer. The buffer has no guard of its own, so this rests on the
parser's state: in `OrderInv` the byte to be stored is the `framePtr_ + 1`-st of
the current frame (`InsideFrame`), so that one at `MaxMessageSize` or behind
shows a frame that goes on there (`OverrunStep`). For a peer whose frames fit,
`BufferBound` follows.

*The refinement.* Each step maps to one of `FrameChannel`'s or to a stutter. That
the handler called is the one for the oldest undelivered frame follows from
`InOrder` before and after the step, that none is called after `stop()` from
`StopStep`. `FrameChannel` describes one connection, so the theorem is about
objects that are constructed at a frame boundary and not connected again
(`OneCleanConnection`), as in the run `channel`. The fairness of `FrameChannel` is
left to that run.

### Strings

| theorem of `StringBufferProofs` | statement |
|---|---|
| `StringsTyped` | `StringSpec => []StringTypeOK` |
| `BlocksOwned` | `StringSpec => []OneOwner` |
| `TextsKept` | `StringSpec => []ValueKept` |
| `StrayBounded` | `StringSpec => []StrayByteIsTerminator` |
| `StopsExplained` | `StringSpec => []StopsOnlyAfterFault` |
| `ComparisonsCompare` | `StringSpec => []ComparisonsAgree` |

Assumed: block addresses and characters are positive numbers, `Extra` is at least
1, texts consist of characters, and uninitialised members are a pointer, to a
block or not, and two numbers. The inductive invariant is `GuardedInv`:
`StringTypeOK` and `StopsOnlyAfterFault`, and, while the strings are `Intact`,
`StringInv`, which is `Owned` together with
`Room` (a string's length is at most its block's size, so that the character of
`+=` always fits and at most the terminator does not) and `HasBlock` (as long as
memory lasted and nothing was constructed by a move, every string has a block).
That the types hold whoever owns a block is shown without `StringInv`
(`TypeStep`); that a step from which the strings come out intact began with intact
ones, since faults stay (`FaultsStay`).
`Kept(o)` is `ValueKept` for one string; that a step keeps it is proved string by
string, with `Owned` for the strings the step does not name. `OneOwner`, `ValueKept`,
`StrayByteIsTerminator` and `ComparisonsAgree` say nothing behind a move that has
left a string with the address of a block: there they are false, and nothing
about ownership is true.
`ComparisonsAgree` follows from the two in every state (`KeptTextsCompare`).

### The handshakes

| module | theorem | statement |
|---|---|---|
| `ClientHandshakeProofs` | `HandshakeTyped` | `HandshakeSpec => []HandshakeTypeOK` |
| | `RightVerdict` | `AllWellFormed` implies `HandshakeSpec => []VerdictIsRight` |
| | `ReadsTheHeader` | `AllWellFormed` implies `HandshakeSpec => []HeaderRead` |
| `ServerProofs` | `RequestsTyped` | `ServerSpec => []ServerTypeOK` |
| | `RunAnswersOrStops` | `ServerSpec => AnsweredOrStopped` |
| | `AnswersWholeKey` | `AllNameKeys` implies `ServerSpec => []KeyIsWhole` |

*The verdict.* `VerdictIsRight` compares the verdict with the whole response,
while the parser has only its state, a name, a value and the key it has kept.
`HandshakeInv` is the relation between the two. `StreamFollows`: the bytes to come
are those of the response behind the ones that were taken. `AnswerParsed`: there
are header fields, and a place `off` for each, for which the response is
well-formed, and the parser is in the line of one of them, at the byte that the
number of bytes taken says, with as much of its name or value as comes before
that byte (`InField`); `serverKey` is the value of the accepting field if that is
among the lines that are over (`KeyOf`). There is a lemma per parser state, and
the last line's gives both the verdict and the place where reading stops.
`WellFormed` admits any number of fields in any order, any spaces before a value,
empty names and values, an answer cut off anywhere, and any bytes behind the
header; it asks that no name contains a colon, that no value begins with a space, that
neither contains a line end, and that there is at most one accepting field, since with two the code takes the last.

*The key.* `KeyInv` is the same for `run()`, whose parser is simpler: it keeps the
line that it is reading (`InRequestLine`), and takes the key from the line when
it ends. `NamesKey` asks that every line that begins as the key's does holds the
request's key: a line is a whole one when its line feed has been read, so that
nothing else can be taken for the key. `RunAnswersOrStops` needs only that
nothing is decided or written before `run()` ends (`Undecided`).

### Sessions

| module | theorem | statement |
|---|---|---|
| `ClientSessionProofs` | `ProvenServersOnly` | `AllWellFormed` implies `SessionSpec => []OnlyProvenServers` |
| | `VerdictInSession` | `AllWellFormed` implies `SessionSpec => [](VerdictIsRight /\ HeaderRead)` |
| | `SessionInOrder` | with `OneCleanConnection`, `NothingBehind`, `AllLegible` as well, `SessionSpec => []FramesInOrder` |
| | `OnlyLineFeedRefused` | with `OneCleanConnection`, `NothingBehind`, `AllAccepted` as well, `SessionSpec => []ErrorOnlyFromLineFeed` |
| `ServerProofs` | `RestServesNothing` | `OneCleanConnection`, `AllText` imply `ServiceSpec => []RestIsNoFrame` |
| | `ServiceAnswersOrStops` | the same imply `ServiceSpec => AnsweredOrStopped` |
| | `ServedForWholeKey` | with `AllNameKeys` as well, `ServiceSpec => []KeyIsWhole` |

A session is one connection with a reader that starts at a frame boundary
(`OneCleanConnection`, as the demos use the library). `NothingBehind` says that
what follows a response's header are frames, `AllAccepted` that every frame has
one of the formats that `readFrame` takes apart and an opcode that it knows,
`AllText` that the bytes of a request are below 128. The instances of the runs
`session` and `service` satisfy all of these.

*The client.* `ClientInv` joins `TypeOK` and `HandshakeInv`, which is possible
because neither part changes the other's variables and the stream is the only
thing they share; that bytes keep arriving while the other part runs is what
`SocketProofs` is about. `FramesInv` says where the frames are: behind the
part of the header that is still to be read (`HeaderAhead`, with the same
`Layout` as for the frame reader alone), and when the reader takes over either exactly
at the front of the stream, where `OrderInv` holds and goes on, or behind the
line feed that `clientHandshake` did not wait for. In the second case the reader
is a `Dud`: the line feed is no frame, the connection ends with it, and no handler
is ever called. This is the argument for the sentence that `ErrorOnlyFromLineFeed`
makes of the code: the two cases are told apart by `taken`, the number of
bytes that the handshake has read.

*The server.* `ServiceInv` has the same `Dud` for a request that was late: as long
as anything of it is unread the next byte is text, which has no `FIN` bit and
ends the connection. Had the parser gone on to look for a frame in the rest, the
invariant would not hold (the mutant `ReadOpcodeResyncs`).

### Two ends

| theorem of `EndpointsProofs` | statement, for `EndpointsSpec` |
|---|---|
| `EndsAgree` | `OneCleanConnection`, `AllText`, `AllNameKeys`, `Client!WellFormed(Answered)` imply `[]VerdictsAgree` |
| `NoneFalselyRefused` | with `ShortMessages` as well, `[]NoFalseAlarm` |
| `MessagesInOrder` | the same imply `[](FramesInOrder /\ RestIsNoFrame)` |

Of the code's own answer the proof needs that it is well-formed: a status line
and fields, one of them the accepting one with the key (`Client!WellFormed`).
`ShortMessages` are those of at most 125 bytes; longer ones are sent with a wrong
length (run `longMessage`). `TheoremsApply` in `MCEndpoints` has TLC find that
the run's instance meets these hypotheses.

`EndpointsInv` joins the invariants the two ends have by themselves: `ServerInv`
holds `ServiceInv` and `KeyInv`, about the server's socket, and `AnswerInv` has
`HandshakeInv` about the client's. That a step of one end is a step that the
other end's specification admits, of its peer or its network, is the
first half of the work (`ServerSide`, `AnswersKept`). What is new is the relation between the ends.
The client's `response` is `Answered` if and only if the server has established
the connection; that a client succeeds only then is `VerdictIsRight`.
`AnswerComes` counts the answer's bytes that were read and those that can still
be: of a refusal there are two, so that no client reads a whole header
(`HeaderRead`) and calls it wrong; and while the client is still in its handshake
and the connection lasts, all of an answer is there, so that what the server
writes later lies behind it. `TrafficInv` is the rest of the two other theorems: when
`run()` has read the whole request, the client's first frame will be at the front
of the stream (`TrafficBegins`), and from there `OrderInv`'s parts go on
(`TrafficGoesOn`); `ShortFrame` shows that what `sendData` writes is a frame that
`readFrame` takes apart and does not refuse.

### Base64 and Sha1

| theorem of `AlgorithmProofs` | statement |
|---|---|
| `DecodeInvertsEncode` | `Base64Spec => []RoundTrip` |
| `EncodingIsRfc4648` | `Base64Spec => []EncodesAsRfc4648` |
| `LengthsAreForetold` | `Base64Spec => []LengthsForetold` |
| `MessageInBlocks` | `ShaSpec => []BlocksHoldMessage` |
| `PaddingIsFips180` | `ShaSpec => []PaddedAsFips180` |
| `KeysEncodedAndPadded` | `KeySpec` implies these five properties, too |
| `RoundsAreFips180` | `BlockLength = 64` implies `KeySpec => []RoundsAsFips180` |
| `AnswerIsTheDigest` | `BlockLength = 64` implies `KeySpec => []AnswersWithDigest` |

Assumed: inputs are bytes, at most 49149 of them, so that their encoding fits the
16 bits of `encLen`; an `int` has at least 16 bits, and fewer '=' lie before a text
than it can count; messages are shorter than 2^29 bytes, so that `byteCount` and the length in bits fit 32 bits; a block has 9 to 255 bytes, so that `bufferOffset`
fits eight bits. The library hashes fewer than a hundred bytes.

`Base64` has no invariant to speak of; the work is in `DecodedIsInput`, which
shows byte by byte that the two digits a byte is spread over give it back
(`ByteBack`), whatever the rest of a last group is filled with, and that the
digits of an encoding end where its padding begins (`DigitsOfEncoding`).
`LengthsForetold` claims of `base64_enc_len` that it is right where an `int` can
hold the text's length, and of `base64_dec_len` where it is right and where it is
not. That a product which overflows cannot lead to the right length by accident is
`SmallerQuotient`: whatever the width of `int`, it comes back smaller, and so does the
quotient.
`ShaInv` says that the blocks that were hashed, and the first `bufferOffset` bytes
of the buffer, are the padded message up to `Position`, and that `Position` is
`byteCount` while the message is read. What `PaddedAsFips180` adds is where the
padding ends: `PaddedFills` shows that FIPS 180-2's number of zeros makes a whole
number of blocks, and `ZerosEnd` that the loop's condition, which looks at
`bufferOffset` alone, stops at exactly that place. Leaves with large numbers name
`SMT`, because Zenon counts numerals in successors.

*The rounds.* `RoundInv` relates the sixteen words of the block to FIPS 180-2's
schedule, which only grows: after round `i - 1` the last sixteen of its words are in
the block, each at its index modulo 16, in front of the message's words that no
round has come to. With it `ScheduledAsFips180` shows that no word is overwritten
before its last use. That `hashBlock`'s shorter forms of Ch and Maj are the
same functions is shown for one bit (`ChOfBits`, `MajOfBits`) and carried to halves
and words; what carries it is `BitsOf`, that the bits of a number made from sixteen
bits are these. `PlusAssociates` and `PlusCommutes` say of the sum of two words, a
carry between halves included, what addition modulo 2^32 has, and `FiveWords`
reorders the sum of a round.

*The digest.* `AnswersWithDigest` states what the run's example can only
illustrate: whatever key was hashed, the answer is the encoding of its digest.
The digest is a relation (`IsDigest`): states that follow from each other by
the blocks of the padded message (`States`), each by eighty rounds of `Fips180`
(`Rounds`). A recursive function would need induction over data. `DigestInv`
extends such a chain by a round or a block with each step of `hashBlock`.

### Only model-checked

* Liveness, the refinement's fairness among it: out of the prover's reach.
* `AnswersAsRfc6455`: one example of the standard, for which eighty rounds have to
  be computed with numbers. It shows that `Fips180` and the tables are
  the standard's, which `AnswerIsTheDigest` takes as its reference.
* The properties of the runs of "Disagreements", which do not hold there:
  `BufferBound`, `AssertsHold`, and `FramesInOrder` for frames that are not legible.

## Not modelled

* Of `String`: writing through `operator[]`, which no code of the library does;
  `endsWith`, `c_str` and the other readers, which change nothing; `compareTo`,
  which has no body.
* Writes that fail or are cut short: every caller ignores the result, and what
  the peer makes of half a frame is not this library's behaviour.
* WinSock's start-up object and event handle, and reading into a buffer: the
  platform's business, or no caller.
* Descriptors: `disconnect()` does not call `stop()` on a connection that the
  peer has closed, which nothing observable depends on.
* What a write behind `messageBuffer_` or behind a string's block destroys.
* Wrappers of random numbers, timers, program memory, debug output and the
  Arduino `String`: no state of their own.
* `ping()` and `pong()` are declared without a body, `onTextMessage` and
  `onBinaryMessage` are never called, `getData` is commented out.
* The server demo uses an interface that the library no longer has.

## Plan

Done, in this order: `Socket` and `WebSocket` with their runs; `FrameChannel`
and the refinement; the reader's proofs; `ClientHandshake` and `ClientSession`;
`ServerHandshake`; `Base64` and `Sha1`; `StringBuffer` and its proofs;
`Sha1Block` and `AcceptKey`; `ServerSession` and `Endpoints`; the proofs about
`ServerHandshake`; `FramesInOrder` and the refinement's safety part as theorems;
the verdict, the header and the key of the handshakes; the sessions; `Base64` and
`Sha1`'s padding; the two ends; `hashBlock`'s rounds and the digest.

What a next step could be: writes that are cut short, between two sockets of
`Endpoints`.
