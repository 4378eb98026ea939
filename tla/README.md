# Verification of the fuproxy tunnel server

TLA+ models of `tunnel_server`, their TLC configurations, and TLAPS proofs.
Line numbers are those of the repository at the commit modelled.

## 1. The system

A client connects over TLS to `tunnel_server` and sends packets: a header
(signature and a 16-bit length) and a JSON text with a `command`. With
`start_tunnel` it introduces itself, with `connect` it asks for a TCP connection
to a target and is told a *connection token*, with `data` it sends base64 text to
the target of a token. What the target sends is relayed to the client as `data`
packets. The program is one process and one thread: `main` builds the objects and
calls `io_context.run()`. Everything else happens in completion handlers.

| Component | State it keeps | Operations | Interacts with |
|---|---|---|---|
| `tls_connection` (`util/tls_server.*`) | TLS stream, one `read_buffer` | connect, handshake, `async_read_some(_unsecure)`, `async_write(_unsecure)`, `async_write_error`, `disconnect` | calls the `connection_events` table it was created with |
| `tls_server` | acceptor | `start_accept`, `handle_accept` | creates client connections |
| `tunnel_entry` (`tunnel/tunnel_endpoints.cpp` 17-219) | `stats_table`: connection to `connection_stats` | `handshake`, `read`, `write_done` | cuts the stream into packets for the router |
| `router` (`tunnel/router.cpp`) | none | `packet_in`, `handle_start_tunnel`, `handle_connect`, `handle_data` | answers on the client's connection; calls authenticator and `tunnel_exit` |
| `tunnel_exit` (`tunnel_endpoints.cpp` 221-519) | `token_list`, `connection_list` | `async_connect_unsecure`, `find_route`, and the events `connect`, `read`, `write_done` of target connections | relays to the client's connection; calls the router's result callback |
| `authenticator`, tokens, user | none | `async_query_user_token` | calls its handler at once, always with success |
| `util` | none | `endpoint_to_string`, JSON answers | called in nearly every log line |
| `debug_client` | two buffers, counters of one frame | `start_tunnel`, `connect`, `data`, then a loop of reads | the one program that reads the frames `tunnel_exit` writes |
| `cppcodec` (vendored) | result buffer, slots of a block | `encode`, `decode` | encodes tokens and what targets send, decodes what clients send |
| `clue` (vendored) | none | logging | |

### What is hard here

* **Who reads.** No one owns the decision to read. `read` starts reads, so do the
  router, its callbacks and `write_done`; whether zero, one or two reads are
  outstanding depends on how TLS cut the packets. With none the connection is
  deaf; with two, both grow and shrink the one `read_buffer`.
* **Two tables.** `token_list` and `connection_list` refer to one another, are
  changed one after the other, and are used without comparing with `end()`.
* **Lifetime.** A `tls_connection` lives as long as a table or a handler holds
  it. `disconnect` holds nothing.
* **Failure.** `endpoint_to_string` throws when the peer has reset the
  connection; `resolve` and base64 `decode` throw on bad input. No handler
  catches, so the process ends.
* **No timers.** Neither handshake nor read nor shutdown nor connect has one.
* **Lent memory.** `async_write` takes a reference to a vector that is gone when
  the caller returns. That is harmless while the TLS stream has room to make the
  record at once, and not otherwise.
* **Frames by size.** The debug client takes what one read returns for one frame,
  and a frame is as long as the sizes of a read, of base64 and of its own zero
  bytes make it.
* **Two accepts.** The constructor of `tls_server` starts one and `start_listen`
  another; both go on for ever, and an accept that fails ends the process.
* **Unchecked writes.** The codec computes how long its result will be, then writes
  without looking.

For each component, what makes it correct:

* `tunnel_entry`: every packet is run once and in order however it is cut; the
  statistics are there when a read needs them; a client is not left without a
  read in the middle of a packet.
* `router`: after each command the client is heard again; a data packet with a
  valid token reaches its target.
* `tunnel_exit`: the tables agree; a request is answered once, with its token; a
  token stays with its connection; what a target sends reaches its client whole,
  once and in order; a closed target leaves the tables.
* `tls_connection`: one read at a time; a connection outlives its operations; an
  error answer is followed by a close.
* `tls_server`: every client that connects is accepted whatever the others do; a
  connection belongs to one client; a client that leaves is noticed.
* `debug_client`: it prints what the target sends, in order, without a gap and in
  time, and no answer or frame ends it.
* `cppcodec`: nothing is written past the size reserved; what is encoded decodes to
  itself; a text is decoded exactly if it is well formed.

`PROJECT.json` lists the hazards one by one, each at its line, with the properties
that would catch it.

## 2. The modules

| Module | Models |
|---|---|
| `TlsConnection` | a `tls_connection` as a record of outstanding operations, and what each operation does to it. Pure operators, shared by the next ones |
| `Router` | `router::packet_in` and the handlers, as action operators that the read handler of `TunnelEntry` calls |
| `TunnelEntry` | one client connection: the client, the byte stream, the handshake, `read` with each of its branches, and everything `tunnel_exit` does to the connection. EXTENDS `Router` |
| `TunnelExit` | both routing tables and all target connections, with several clients |
| `TlsServer` | the accept loop with its two chains, the descriptors of the process, and for each client where its session stands |
| `ClientSession` | abstract: what a client's session is, seen from outside. Implemented by `TunnelEntry`, for the client it models; the clients of `TlsServer` are written in its steps |
| `ClientRoutes` | abstract: what becomes of a client's requests for targets; the contract between the two halves of the tunnel. Implemented by `TunnelEntry`, and by `TunnelExit` for each client |
| `TokenDirectory` | abstract: one directory of tokens in place of two tables. Implemented by `TunnelExit` |
| `DebugClient` | `debug_client`'s whole session: the client, the server as far as it serves it, and the target, with the frames' sizes |
| `BlockCodecs` | the variants of `cppcodec`, and how each turns a block of bytes into symbols and back |
| `TextMeaning` | the reference for the codec: which texts are well formed and which bytes they mean, bit by bit and without a loop |
| `StreamCodec` | `encode` and `decode`, one action for each turn of a loop |
| `MC...` | instances for TLC |
| `..._proofs` | theorems about `TunnelEntry`, `TunnelExit`, `TlsServer`, `StreamCodec` and `DebugClient`; `TokenDirectory_proofs` and `ClientRoutes_proofs` show that `TunnelExit` implements these two; `TextMeaning_proofs` has the lemmas about texts that `StreamCodec_proofs` rests on |

A handler is one action, since one thread runs them; the interleaving is that of
completions. `proc = "terminated"` stands for an uncaught exception or for an
access the language does not define: no action is enabled afterwards, which is why
the runs do not check for deadlock (and because a client may just stay silent).

**The stream.** A packet is a command, a payload size and the index of its first
byte in the client's stream. `buffer` holds indices of bytes, so that "the JSON
text parses" becomes "these are exactly the payload bytes of packet *i*", and a
wrong cut is seen as such. A client writes a packet whole (`ClientSend`) or in parts
(`ClientContinue`), takes any time over the rest, or never writes it; a read
delivers any number of the bytes written and not taken yet, from one to all. A
client that has ended its stream, with close_notify or without, may reset the
connection later, and so may a target. The seven commands are the classes `packet_in` and the handlers
tell apart: the three good ones, `undecodable` (base64 throws), `rejected` (an
error answer), `malformed` and `unsigned` (the connection is closed).

**Overlapping reads.** When a read is started while another is outstanding the
record's `torn` becomes true. Until none is left, a read delivers what was
sent, delivers stray bytes (index 0), or ends the process: which one depends on how
the two operations interleave their growing and shrinking of the vector, and all
are possible. `TunnelExit` has the same for targets: a relay is a *delivery*, of a
segment (0 for stray bytes) to the client that is written to.

**Where things are.**

| Code | Model |
|---|---|
| `read` 73-91 | `TunnelEntry!ReadFailed` |
| `read` 105-129, incomplete / complete | `ReadPart` / `ReadLast` |
| `read` 131-143 | `ReadAfterOverfull` |
| `read` 150-170 | `ReadRejected` |
| `read` 172-188 / 189-202 | `ReadWhole` / `ReadStart` |
| an exception or a bad access in `read` | `ReadBreaks` |
| `packet_in`, `handle_*` | `Router!PacketIn`, `HandleStartTunnel`, `HandleConnect`, `HandleData`, `Reject` |
| callback of `connect`, `router.cpp` 220-252 | `ConnectDone`, and `answers` in `TunnelExit` |
| shutdown's lambda | `ShutdownDone` |
| `async_connect_unsecure` | `TunnelExit!AsyncConnect`, `ResolveThrows` |
| `event_table::connect` | `ConnectSucceeded`, `ConnectFailed` |
| `find_route` and the write of `handle_data` | `Data` |
| `write_done` | `WriteDone`, `WriteFailed` |
| `event_table::read` | `ReadSome`, `ReadFailed` |
| constructor, `start_accept` | `TlsServer!Init`, `Fresh`, `Accept`, `AcceptFails` |
| `handle_accept` | `HandleAccept`, `HandleAcceptError` |
| `debug_client` 58-146 | `DebugClient!Introduce`, `AskToConnect`, `SendData` |
| its loop, 155-204 | `Listen`, with `Piece`, `SaidLengths`, `Hold`, `Show` |
| the frame of `event_table::read` 331-355 | `TextSize`, `FrameSize`, `HeaderLength`, `Relay` |
| `async_write` to a client | `DebugClient!Write` |
| `stream_codec::encode` | `StreamCodec!EncodeBlock`, `EncodeTail`, `EncodeEnds` |
| `stream_codec::decode`, its loop | `SkipIgnored`, `TakeSymbol`, `StopAtCharacter`, `StopAtEnd` |
| its padding, its end | `MorePadding`, `PaddingEnds`, `CloseWhole`, `CloseWithError`, `CloseTail` |

**How the modules meet.** `TunnelEntry` sees the client's routes only as three
counters (`pending`, `live`, `dead`), and `TunnelExit` sees a client only as one
that asks, is told tokens and uses them. They meet in three places. `ClientRoutes`
is the contract between them, and both implement it: what `TunnelEntry` lets targets
do to its client, and what `TunnelExit` lets a client ask, stay within the one
account of a client's routes. `DebugClient` has the handlers of both for one client
and one target. And `ClientSession` is what one client's connection looks like to
the others: `TunnelEntry` shows that the handlers of one client keep to it. The
clients of `TlsServer` take its steps by construction, so there is nothing to check
about them there; what `TlsServer` is about is accepting, connections and
descriptors.

**Writes.** In `TunnelEntry` and `TunnelExit` a write is counted and its bytes are
not kept. In `DebugClient` a write to the client becomes a TLS record at once if
fewer than `Room` are unread; otherwise, and ever after, `late` is true, and what
is sent is the right record, a stray one of the same length, or nothing. The client
takes a stray record like any other: it is counted, put in front of what is held,
and, as the length in its first bytes says, held or printed, or ends the client.
The properties are stated for as long as no write was late, except `ReceivedFits`,
which holds for late writes too.

**Frames and codec texts.** A frame is known by the stretch of the target's stream
it carries (`first`, `size`); its lengths are computed by the codec's own
`encoded_size`. In `BlockCodecs` a character is its place in the variant's
alphabet, or one of the characters that are treated differently from all symbols.

## 3. What is checked

Every passing run explores its instance completely.

| Run | Instance | Shows |
|---|---|---|
| `entry` | header of 1 byte, 3 packets of 2 payload bytes, each written in any parts | `TypeOK`, `StatsAlwaysFound`, `NeverStarvedMidPacket`, `HandledAsSent`, `HeardUnlessConnectOrData`, `PartialPacketIsFinished`; implements `ClientSession` (`KeepsSession`) and `ClientRoutes` (`KeepsRoutes`) |
| `exit_safety` | 2 clients, 2 connections, 2 tokens, 2 segments for each target, 2 operations outstanding; symmetry | `TypeOK`, `RoutesAgree`, `ConnectingIsListed`, `AnsweredOnceWithItsToken`, `RelayedInOrder`, `TokenKeepsItsConnection`, `RelayGoesOn`; implements `TokenDirectory`, recipients of relays included (`ImplementsDirectory`), and, for each client, `ClientRoutes` (`KeepsClientRoutes`) |
| `exit_live` | 1 client, the rest as above, no symmetry | `ClosedTargetIsForgotten` |
| `server` | 3 clients, 2 descriptors | `TypeOK`, `TwoAccepts`, `OwnConnections`, `EveryClientIsAccepted`, `LeavingIsNoticed` |
| `client` | the code's sizes; a target that sends 300, 513 or 1050 bytes at a time, up to 1563; room for 2 records | `TypeOK`, `ShownAsSent`, `BreaksOnlyAfterLateWrite`, `OneReadAtATime`, `StreamIsShown` |
| `codec` | 8 variants; binaries of up to 7 bytes, texts of up to 10 symbols with every kind of end | `TypeOK`, `WithinCapacity`, `EncodedSizeIsExact`, `SlotsHold`, `RoundTrip`, `DecodesTheWellFormed` |

The runs that expect a violation check what the repository's own comments say, and
TLC shows how the code departs from it (PROJECT.json, "findings"):

| Run | The comment | What happens |
|---|---|---|
| `entry_overlap` | "buffer for the data that came, how many bytes were written to it" | a `start_tunnel` that arrives in two parts starts two reads on one buffer |
| `entry_forward` | "packets from the client are read and sent directly to the target" | after a `data` packet in one read nothing reads the next one |
| `entry_held` | "another class must hold this connection, otherwise it is deleted" | during a shutdown nothing need hold it |
| `entry_error_close` | "close the connection as soon as the data arrives" | a silent client keeps it open |
| `exit_result` | "the function the result is given to" | a refused connection gives no result |
| `exit_replies` | "replies are passed on to the client directly" | two data packets in flight start two reads, and what they relay is not the reply |

### Bounds, and why they are enough

* A packet of three bytes can be cut behind its header and inside its payload, by
  the client's writing and by the reads. Three packets give a read that ends inside
  one packet, takes all of another and begins a third, and reach the branch of lines
  131-143, which needs an overlong packet followed by a read that was already
  outstanding. A cut inside the header and a packet without payload need a header of
  2 bytes and the sizes 0 and 2: with three packets that is 8.0 million states, more
  than a run that is repeated should take; they were explored once for the safety
  and action properties, and liveness with two packets, with the same outcome.
  The violation runs `entry_overlap`, `entry_held` and `entry_error_close`
  have a header of 2 bytes, and the theorems hold for headers and payloads of any
  length.
* Two tokens for two connections make every collision possible: with an attempt, a
  working connection, or one that was closed and whose token is free again.
* Two descriptors for three clients: a client waits while the others use them up,
  or a route does, and an accept fails with and without a client in the backlog.
  With three descriptors (1.9 million states) the outcome was the same.
* A target's read takes at most 512 bytes. 300 bytes are one read, 513 a full one
  and one of a single byte, 1050 two full ones and one more; together they give
  reads of every kind next to each other, and three reads fill the room for two
  records. The stream's bound is one of each of 513 and 1050. The theorems hold
  for all amounts.
* A codec sends each bit its own way, so binaries with one bit set, or one clear,
  in any byte show every shift; seven bytes are a block of base32 and part of
  another. Ten symbols are a block of base32 and part of another, so the slots hold
  what the block before left. The theorems hold for binaries and texts of any length.
* `MaxItems` and `MaxPending` of 2 give reads that overlap, and a second segment
  that could be swapped with the first. The theorems of section 4 hold for all
  values.

### Fairness

Only what boost::asio owes its caller: bytes that are there are delivered to a
read that waits and an end of stream is reported to it (`Read`, `ReadFailed`), a
shutdown that can complete does (`ShutdownDone`), an attempt to connect ends
(`ConnectSucceeded` or `ConnectFailed`). Weak fairness is enough, since each stays
enabled until taken. In `TlsServer` an outstanding accept is tried while a client
waits (`AcceptAttempt`, which either succeeds or fails: one fairness condition for
both, since whether a descriptor is left may change back and forth), a completed
one is handled (`HandleAccepts`), and an end of stream is reported to a read that
waits (`ReadFails`). In `DebugClient` the reactor owes the same (`HandleData`,
`WriteDone`, `Relay`), and the client's loop, which does nothing but read, goes on
(`Listen`); here, and only here, one write to a target is taken to complete, since
it is small and the first on its socket. Nothing is assumed of clients and targets
otherwise: one that has sent part of a packet may stall for ever, and then
`PartialPacketIsFinished` promises nothing of the packet. Nor is any other write
assumed to complete, since a peer may stop reading.

## 4. What is proved

Each theorem holds for every value of the constants that satisfies the named
assumptions. A property of the same name is one that a run of section 3 checks on
its instance.

**`TunnelExit_proofs`**: any clients, connections and tokens, any `MaxItems` and
`MaxPending`; no assumption.

| Theorem | Property |
|---|---|
| `Invariance` | the inductive invariant `IInv` |
| `TypeCorrect` | `[]TypeOK` |
| `RoutesAlwaysAgree` | `[]RoutesAgree` |
| `ConnectingAlwaysListed` | `[]ConnectingIsListed` |
| `AlwaysAnsweredOnce` | `[]AnsweredOnceWithItsToken` |
| `AlwaysRelayedInOrder` | `[]RelayedInOrder` |
| `TokensAlwaysKept` | `TokenKeepsItsConnection` |
| `RelayAlwaysGoesOn` | `RelayGoesOn` |

`RoutesAgree` is not inductive: `ReadFailed` erases the token its route names, and
if that token belonged to another connection the other one's route would be left
without it. Such routes exist: a connection whose token was drawn a second time is
*abandoned* with a route that names another's token. What saves the tables is that
an abandoned connection is never connected and so never read from. `Stages` says
this: a connection that is read from or has been answered is "up"
(`OnlyUpIsUsed`); a route whose connection is not abandoned is listed under its
own token (`Known`); a connection not used yet is in no table and has relayed
nothing (`Fresh`). `RelayedInOrder` needs `Overlapping`: a routed connection whose
reads have overlapped has at least two outstanding, so its buffer does not become
whole again behind a gap.

The step is proved along what can change: `TableSteps` (only `AsyncConnect` and an
erasing `ReadFailed` touch the tables, with `Entered` and `Erased` saying how),
`AnswerSteps` (only a success answers) and `ReadSteps` / `RoutedSteps` (a routed
connection is quiet, reads after a write, or relays and reads on). `IInv` was
checked by TLC on the instance of `exit_safety` before it was proved.

**`TokenDirectory_proofs`** (`DirectoryImplemented`: `ImplementsDirectory`) and
**`ClientRoutes_proofs`** (`ClientRoutesKept`: `KeepsClientRoutes`): every step of
`TunnelExit` is a step of the one directory, or of the contract of each client, or
none. Same generality. Beyond `IInv` both need that a connection that came up has
been answered (`Answered`), so that what is erased had been given out. The directory
needs that each segment read under a route has been relayed (`Counted`); the
contract, whose counts are cardinalities of the disjoint sets `Pending`, `Live` and
`Dead`, that `connection_list` is finite, which it is because it grows by one entry
at a time.

**`TunnelEntry_proofs`**: any packets, payload sizes and cuts. Assumes
`HeaderSizeAssumption` (a header has at least one byte) and `BoundsAssumption`
(the number of packets and the sizes are natural numbers).

| Theorem | Property |
|---|---|
| `Invariance` | the inductive invariant `IInv` |
| `TypeCorrect` | `[]TypeOK` |
| `StatsThere` | `[]StatsAlwaysFound` |
| `NeverStarved` | `[]NeverStarvedMidPacket` |
| `AlwaysHandledAsSent` | `[]HandledAsSent` |
| `AlwaysHeard` | `[]HeardUnlessConnectOrData` |
| `SessionKept` | `KeepsSession` |
| `RoutesKept` | `KeepsRoutes` |

`HandledAsSent` says which packets were run, and not why no other can be. The
packets lie on the stream one behind the other, the last of them perhaps written in
part only (`Laid`). As long as the server is
not closing the connection, the packets 1 to *k* have been run for some *k*, and
the buffer is exactly what was taken behind them (`UpToDate`), as long as the
statistics count it (`Accounted`). A payload that parses ends with the last byte
taken, so it can only be that of packet *k + 1*; that holds while reads overlap,
too, because a buffer with stray bytes in it does not parse (`InOrder`). `Unborn`
and `Forgotten` cover the time before the handshake and after the client is gone,
`Continued` gives the rest of a packet its read.

**`TlsServer_proofs`**: any clients and descriptors; `ServerAssumption`
(`NoClient` is no client, `MaxDescriptors` a natural number).

| Theorem | Property |
|---|---|
| `Invariance` | the inductive invariant `IInv` |
| `TypeCorrect` | `[]TypeOK` |
| `AlwaysTwoAccepts` | `[]TwoAccepts` |
| `ConnectionsNeverShared` | `[]OwnConnections` |

Connections are numbered as they are created; `Numbered` says that every one in use
has a number given out already, so that a new one is shared with nobody.

**`StreamCodec_proofs`**: any binaries and any texts, all variants;
`InputAssumption` (they are sequences of bytes and of characters).

| Theorem | Property |
|---|---|
| `Invariance` | the inductive invariant `IInv` |
| `TypeCorrect` | `[]TypeOK` |
| `NeverOverrun` | `[]WithinCapacity` |
| `EncodedSizeAlwaysExact` | `[]EncodedSizeIsExact` |
| `NeverAborts` | `[]SlotsHold` |
| `MeaningInvariance` | the invariant `MeaningInv` |
| `DecodesExactlyTheWellFormed` | `[]DecodesTheWellFormed` |
| `AlwaysRoundTrip` | `[]RoundTrip` |

The code keeps no account of how much of the reserved size it has used. `IInv` is
that account: with blocks of `B` bytes and `E` characters, `E` times what was
written plus what waits in the slots never exceeds `B` times what was read, in
every phase of the loops (`Encoding`, `Reading`, `CountingPadding`, `Finishing`).

That the right bytes are written is `MeaningInv`, which is inductive given `IInv`.
It says of each phase what has been *spelt*: the symbols read so far are `q` blocks
that stand in the result byte for byte, and the rest of a block, which stands in
the slots (`Spells`).

* `SymbolsRead`: while reading, all that was kept of the characters read is symbols,
  and they are spelt. The slots may hold what an earlier block left, but no
  `invalid_idx`, since a text that ends is judged by the slot it ends at.
* `PaddingRead`: after the symbols, as many padding characters as `last` is ahead of
  `ptr`. `AllRead`: the same once the text is used up, said in the words of
  `TextMeaning`.
* `BlocksWritten`: while encoding, the text spells the blocks of the binary already
  read. `TextMeansBinary`: then the text is well formed and means the binary.
* `DecodesTheWellFormed` itself. Round trip is these last two together, so no proof
  runs through both loops.

What a symbol's bits become is arithmetic on one block, proved for each family
(base64, base32, hex) in **`TextMeaning_proofs`**: a block's bytes from its symbols
(`BlockMeaning`), a tail's (`TailMeaning`), and a block's symbols from its bytes
(`Spelled`). `Kept`, the text without the characters a variant ignores, is a
recursive function over a text of any length, and what is said of it needs
induction. The library's induction theorems take a predicate, which no prover here
can instantiate; `SetInduction` takes the set of numbers for which the fact holds
instead, and follows from every set of numbers having a least element (`WFMin` of
the library, which takes a set). `MeaningInv` was checked by TLC on the instance of
`codec` before it was proved.

**`DebugClient_proofs`**: any amounts in which the target's bytes arrive, any
stream shorter than 2^20 bytes, any room; `BoundsAssumption` says so.

| Theorem | Property |
|---|---|
| `FramesFit` | a frame's text length fits 16 bits, and the frame one read of the client |
| `Invariance` | the inductive invariant `IInv` |
| `TypeCorrect` | `[]TypeOK` |
| `AlwaysShownAsSent` | `[]ShownAsSent` |
| `NeverBreaks` | `[]BreaksOnlyAfterLateWrite` |
| `NeverTwoReads` | `[]OneReadAtATime` |
| `CounterFits` | the client's `received`, never reset, stays below 2^31 |

`SetUp` says what may be on its way in each stage of the client's start: one answer,
or the record a late write made in its place, and none once the client listens.
`Answered` says that it is the answer itself as long as no write was late. `Reading`
says who reads, `Following` that what was printed, what is on its way and what was
taken from the target are one stretch of its stream. `PaidFor` holds for late
writes, too: a record that is a frame, or was to be one, stands for bytes that were
taken from the target, no two for the same ones, and counts for 2048 at most.

### Only model-checked

* Liveness (`PartialPacketIsFinished`, `ClosedTargetIsForgotten`,
  `EveryClientIsAccepted`, `LeavingIsNoticed`, `StreamIsShown`): liveness under
  fairness is out of the prover's reach. All other properties of the passing runs
  are proved.
* The violation runs. Each is one behaviour that TLC prints.

## 5. What is not modelled

* `async_connect`, `async_connect_secure` and `start_handshake_as_client`: nothing
  calls them.
* The bytes of writes to a target, and of answers written late outside the session
  of `DebugClient`; in the entry and exit models writes are counted.
* In `TunnelEntry`, a token that belongs to another client. It knows its own
  client's routes only, and `data` without a live one is rejected there, while
  `find_route` does not look at who asks. `TunnelExit` has that case.
* The debug client with a target that sends 2^20 bytes or more.
* `cppcodec`'s overloads for raw pointers, `raw_result_buffer`, and containers
  without `data()`: the server uses none of them.
* JSON as text, the wording of answers, the error table. A text parses or does not.
* Blocking name resolution: a handler takes no time. That it may throw is modelled.
* Certificates and settings read by `main`; the token classes, which only hold
  values.
* `clue`, the logging library. The exceptions thrown by what is logged are modelled
  where the argument is computed.

## 6. Plan

Done: the connection, the router and both halves of the tunnel; the accept loop;
the debug client with the frames; the codec; the abstract specifications
`ClientSession`, `TokenDirectory` and `ClientRoutes`, and the proofs that they are
implemented; the theorems above, among them every safety and every action property
of the passing runs.

Left: `TunnelServer`, the product of `TunnelEntry` for several clients and
`TunnelExit`. At present `ClientRoutes` stands between the two, and `DebugClient`
has both for one client and one target. The product would add what goes through
both at once: a client that uses the token of another, and a target that is
relayed to a client that is closing.
