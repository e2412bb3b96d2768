# Verification of the BUPT computer network course programs

This directory holds TLA+ models of the two programs of the repository, TLC
configurations that check them on small instances, and proofs for every
instance that the TLA+ proof system checks.

* **Lab1** (`Lab1/`): four data link protocols between two stations, run on a
  simulation library that supplies the noisy line, the timers and two network
  layers that produce and compare packets.
* **dns_relay** (`dns_relay/`): a DNS relay with a local name list, a response
  cache and a map from upstream to client identifiers.

## The system

### Lab1

| component | state | operations |
|---|---|---|
| `protocol.c`, TCP set-up | the attempts made, the epoch both count from | `protocol_init` of both stations |
| `protocol.c`, physical layer | the ring `sq`, `send_bytes_allowed`, `timer[129]`, blocks of the receiver, `rf_buf`, the queue of frames | `send_frame`, `send_byte`, `socket_send`, `socket_recv`, `recv_byte`, `recv_frame`, `start_timer`, `scan_timer`, `wait_for_event` |
| `protocol.c`, network layers and flow control | `inform_phl_ready`, `network_layer_active`, the two packet generators | `get_packet`, `put_packet`, `stop_timer`, `start_ack_timer`, `stop_ack_timer`, `enable/disable_network_layer` |
| `crc32.c` | a table | `crc32`, called by `put_frame` and on every frame received |
| `stop_and_wait.c` | `frame_nr`, `buffer`, `nbuffered`, `frame_expected`, `phl_ready` | one handler per event |
| `go_back_n.c` | window edges, `out_buf`, `nbuffered`, `frame_expected` | one handler per event |
| `go_back_n_piggypacking.c` | the same, and the library's ACK timer | one handler per event, `process_ack` |
| `selective_repeat.c` | the same, and `arrived`, `in_buf`, `too_far`, `no_nak` | one handler per event, `process_ack`, NAKs |

Both stations run the same program. A protocol is a loop around
`wait_for_event`; the library calls nothing back. What makes it hard: frames are
lost or damaged, timeouts repeat frames that were not lost, sequence numbers
come round, acknowledgements travel on frames that are themselves lost, repeated
and late, and flow control is split between a flag of the library and a flag of
the protocol. Below that, a frame is a run of nibbles between delimiters; bytes
go through a ring buffer or past it, leave at the channel's rate, arrive in
blocks that hold part of a frame or several, and a byte of noise can join two
frames; only a checksum tells damage. Correct is: `put_packet` is handed the
peer's packets in order, each once (the library ends the process otherwise); no
packet leaves the sender's buffers before it was delivered; nothing comes to a
stop; a frame that noise spared arrives, in order and once, whatever happened to
the one before it; a frame that noise touched is not taken for good; a timer
does not expire before its frame has left the queue.

### dns_relay

| component | state | operations |
|---|---|---|
| `main.c`, `config.c`, `platform_win.c` | settings, the stop flag, what is allocated | start, command line, console handler, end |
| `relay.c` | the loop and what it owns | `handle_client_query`, `relay_forward`, `handle_upstream_response`, `relay_run` |
| `id_map.c` | hash chains of waiting queries, `count`, `next_id` | insert, take, expire, next expiry, destroy |
| `dns_cache.c` | hash chains and a ring of the same nodes, `size` | lookup, insert with eviction, destroy |
| `dns_table.c` | hash chains of listed names, constant while the loop runs | load, lookup, destroy |
| `dns_packet.c` | none but the locals of its loops | parse, build and search DNS messages |
| `socket_io.c`, `net_util.c`, `debug.c` | socket | system calls |

One thread turns the loop: wait in `select`, remove expired queries, handle at
most one datagram. A second one, of the system, calls the console handler. What
makes it hard is outside: answers come late, twice, out of order or never,
identifiers come round again, a datagram may hold anything, any `sendto`,
`fopen` or allocation may fail half-way, and the user may stop the program while
it starts. Correct is: an answer reaches the client that asked, under its own
identifier; no answer after the five seconds; the map never fills for good; the
cache says what upstream said and no longer than it said; its two pointer
structures always hold the same nodes; the codec stays inside the datagram, ends,
and reads and writes what the message format says; the name list says what its
file says; what was allocated is freed once.

## The modules

| module | models |
|---|---|
| `DataLink` | `protocol.c` as the protocols see it, and the text the four files share. `chan[s]` is the send queue, the wire and the peer's receive queue in one FIFO; a packet is its position in the generator's sequence, so `put_packet` compares numbers. |
| `ReliableLink` | abstract: what a protocol promises to the network layers. |
| `StopAndWait` | `stop_and_wait.c` (and the sample `datalink.c` of the Linux tree, of which it is a copy). Also the inductive invariant `IInv`. |
| `StopAndWaitProofs` | the theorems about it. |
| `SlidingWindow` | what the other three protocol files repeat: `inc`, `between`, `process_ack`, buffers, the properties they share, and the parts their inductive invariants have in common. |
| `SlidingWindowProofs` | lemmas about all that, used by the three modules of theorems below. |
| `GoBackN`, `GoBackNPiggy`, `SelectiveRepeat` | the three files, one action per event and outcome, each with its inductive invariant `IInv`. |
| `GoBackNProofs`, `GoBackNPiggyProofs`, `SelectiveRepeatProofs` | the theorems about them. |
| `Connection` | `protocol_init`: A listens, B tries, the epoch goes over. |
| `PhysicalLayer` | what `DataLink` takes for one FIFO, in one direction: the ring `sq`, the rate, the two-part `send`, blocks, noise, delay, delimiters, `recv_frame`; and the timers with the time they are given for the queue. |
| `Checksum` | `crc32.c`, the frames of `datalink.h`, `put_frame` and the test on a received frame, and between them the nibbles, the noise and `recv_byte` of the library. |
| `PhysicalLayerProofs` | the theorems about the physical layer, its inductive invariant, and lemmas about the ring and about sequences of places. |
| `LruList` | the cache as a list, operations as operators. |
| `LruCache` | abstract: the cache as its callers see it. |
| `DnsCache` | `dns_cache.c` with nodes, `hash_next`, `lru_prev`, `lru_next` and the sentinel. `CacheSpec` and the names like it tell it from `Relay`, next to which its proofs stand. |
| `IdMap` | `id_map.c`, operations as operators on a record. |
| `Relay` | `relay.c` with `IdMap`, `LruList`, the clients and an upstream that answers when and as often as it likes. Also the inductive invariant `IInv`. |
| `RelayProofs` | the theorems about it and about `DnsCache`, and lemmas about the operators of `IdMap` and `LruList`. |
| `DnsName` | the loops of `decode_name` and `skip_name_at`, one step per turn, and the comparison of names. |
| `DnsMessage` | the rest of `dns_packet.c`: a query from its header to the reply built for it, an upstream answer through both passes over its records. `MessageSpec` and the names like it tell it from `Startup`, next to which its proofs stand. |
| `DnsWireFormat` | reference: names, records and their order defined recursively from the message format. Used by `MCDnsMessage` only. |
| `DnsTable` | `dns_table.c`, operations as operators on the chains. |
| `Startup` | the process: `main.c`, `config.c`, the opening and closing of `relay_run`, the console handler as a second thread, and a count of every resource. |
| `StartupMessageProofs` | what the relay reads: the theorems about `Startup`, its inductive invariant and lemmas about the operators of `DnsTable`, and the theorems about `DnsMessage`. |
| `MC...` | instances for TLC. |

Composition: the four protocols extend `DataLink` and share its variables;
`StopAndWait` and `SlidingWindow` instantiate `ReliableLink` with the refinement
mapping (`sent` = packets drawn, `delivered` = packets taken by the peer,
`acked` = packets drawn less packets buffered). `PhysicalLayer` extends
`Connection`: no byte is sent before both stations run. `DnsCache` instantiates
`LruCache` by reading the ring from the sentinel. `Relay` uses the cache as the
list that `DnsCache` is shown to implement, and takes the name list, the parsed
query and the parsed answer as data; `DnsMessage` and `DnsTable` say where those
come from. `Checksum` stands alone: the checksum of a frame depends on nothing
but its bytes. `Startup` extends `DnsTable` and keeps of the relay's loop only
what it allocates and frees.

Names follow the code. One action is one turn of an event loop and includes the
statement at the end of the turn: for Lab1 the `if` that enables or disables the
network layer (`loop_end`), for the relay the `id_map_expire` that precedes
every datagram, for the codec one turn of a loop over labels, questions or
records. An operator named as a slip (`..._of_any_number`, `..._once`) is
not part of the model: it is the wrong version that a property is shown to catch.

Every line byte of `PhysicalLayer` is its place in all that A ever sends, so
that order, repetition and loss show. Noise flips one bit of a byte: a delimiter
(`0xff`) is then none, and no other byte, being below 16, becomes one.
A byte of `Checksum` is the set of its bits that are 1, and so is the register of
32 bits; `^` is then the symmetric difference. `MCBytes` puts it and
`DnsMessage` into one run, in which TLC takes either a message or frames: the two
share nothing.
A message of `DnsMessage` is the sequence of its bytes and offsets count from 0.
A line of the name list is a sequence of words.

## Runs

| run | instance | checks |
|---|---|---|
| `StopAndWait` | 3 and 2 packets, timeouts while fewer than 3 frames are in flight | the inductive invariant (types included), no stop, refinement of `ReliableLink`, delivery of everything |
| `GoBackN` | `MAX_SEQ` 7, `NR_BUFS` 4 as in the source, 9 packets one way | the inductive invariant (types and timers included), window and buffers (`WindowOK`), refinement, delivery of what was sent |
| `GoBackNLostAcks` | `MAX_SEQ` 3, `NR_BUFS` 2, 3 packets | **violated**: everything is delivered in the end |
| `GoBackNPiggy` | `MAX_SEQ` 3, `NR_BUFS` 2, 5 and 1 packets | the inductive invariant (types and timers included), window and buffers, refinement, delivery of what was sent |
| `SelectiveRepeat` | as `GoBackNPiggy`, fewer than 2 frames in flight before a timeout | the inductive invariant (types and timers included), window, receive window, refinement |
| `SelectiveRepeatLiveness` | 3 packets one way | everything is delivered and every buffer freed |
| `PhysicalLayer` | two frames of one byte (4 line bytes each), a ring of 8, blocks of 6, 2 hits of noise, a delay of one unit, a connection that may take nothing for 2 | frames in order and once, the receiver finds its way back, timers outlast the queue |
| `DnsCache` | capacity 2, 3 names of which 2 share a bucket, one also in capitals, 3 cells of memory, times to live up to 2 | ring, chains, count, refinement of `LruCache` |
| `Relay` | 3 identifiers, 2 places, 4 forwards, 2 clients with one identifier, one blocked name | the inductive invariant (types and the exact count included), the safety properties of the relay, late answers, and that a full map opens again |
| `RelayListedFallback` | a name list, sends may fail | **violated**: listed names are never asked upstream |
| `Bytes`, messages | some 4000 messages, 2 pointers a name, texts below 6 bytes, a reply buffer of 38 | bounds; names, and the results, answers and replies (`ResultAsDefined`), against `DnsWireFormat`, termination |
| `Bytes`, frames | ACKs and NAKs of 6 bytes, data frames of 12 with 5 bytes of data, a buffer of 13; a bit of any two line bytes inverted | the remainder of the polynomial, nothing damaged is taken, what is intact is taken |
| `Startup` | 5 command lines, every file of three of 8 lines, every failure, a stop at every point | nothing leaks, the list says what the file says, a stop ends the process |

Bounds. `Traffic` bounds the packets and `MaxInFlight` the frames in flight when
a timer may expire; acknowledgements may go beyond it. With two or three frames
in flight a repeated frame, its original and the acknowledgements of both can be
on the line together, which is what the hazards need. In `GoBackN`,
`GoBackNPiggy` and `SelectiveRepeat` there are more packets than sequence
numbers, so every number, slot and window edge comes round. `MaxForwards` bounds
the queries that the relay sends upstream: 4 are one more than there are
identifiers. Times are small integers; 0 means that the moment has come. The
clients, names and addresses are the fewest that can be mistaken for each other.

`PhysicalLayer`: the ring is shorter than two frames, so it comes round and it
overflows; a block takes the end of one frame and the whole next one; `MaxLag`
bounds the time between two calls of `socket_send`: in 2 units the loop turns too
seldom for the line, or the connection takes nothing, and a timer, which here
has no time of its own (`TIMER` 0) but what `start_timer` adds for the queue, expires
over a frame that waits. With `MaxHits` 2 one hit may join two
frames and a second damage what remains. `Checksum`: a frame is 2 or 8
bytes, with its checksum 6 or 12, so `crc32` runs through the loop over eight
never, once, and with a rest; the longest frame is a byte shorter than the buffer, as 263 is than
264, and two short frames that noise joins are as long as the buffer. Two hits
are what it takes to join them. `DnsMessage`: messages include every prefix of a
query and of an answer, every name of at most four of seven telling bytes,
answers of up to three records of nine kinds in every order, and headers that
lie about their counts; each limit is reached and passed by some of them.
`Startup`: three lines are enough for a name that is listed, listed again and
shares its chain; `MaxPending` and `MaxDropped` bound what the loop allocates.

Deadlock is not checked where the system may stop: both network layers may have
nothing left to send, the relay's loop may be told to end, and the work on a
datagram and the process end.

### What the runs show

All four protocols keep the network layers' packets in order, lose none and
repeat none. Stop-and-wait and selective repeat also get everything through.

**Go-back-N can come to a standstill** (`GoBackNLostAcks`, `go_back_n.c:102`).
The receiver acknowledges a data frame only if it is the next one. If the
acknowledgements of a full window are lost, the sender repeats the window, the
receiver has taken all of it, ignores it and says nothing, and this goes on for
ever on a line without further noise. Two lost frames in a row are enough with a
window of two. With the piggybacking variant
(`go_back_n_piggypacking.c:120`) one is enough, the ACK that the timer sends for
the whole window, in a direction whose reverse direction is idle: a repeated
frame does not start the ACK timer again. This is why `GoBackN` and
`GoBackNPiggy` check `EventuallyDelivered`, which speaks of packets already
taken from the network layer, and not `EventuallyAllDelivered`.
`Lab1/guide.md:682` calls this a failed protocol.

**A listed name can be asked upstream** (`RelayListedFallback`,
`relay.c:127` and `:145`). When the local answer cannot be sent the query falls
through to the cache and to upstream, blocked names included;
`dns_relay/docs/design.md:151` says that listed names are not asked upstream.

Of the physical layer: whatever noise does to a frame, the next one arrives if
its own bytes and the closing delimiter before it are spared. When both
delimiters between two frames are hit they become one. Two data frames that are
joined are longer than the buffer of the protocol, and `recv_frame` then ends
the process; the model, whose frames are all of one kind, stops station B there,
as the program does (`"stopped"`). Two short frames (6 bytes, a byte for the
delimiters, 6 bytes) fit, are handed up as one and fail the checksum: for the
protocol one frame was lost and one is bad. `start_timer` adds the time the
queue needs, and the timers therefore outlast it, also when the loop turns late:
at every call of `socket_send`, the first after a full connection took nothing
for a while included, a timer that is due finds its frame sent. While the
connection takes nothing (`not_writable`) timers do expire over frames that
wait; `TimersOutlastQueue` does not speak of those turns. A full ring ends the
process of A (`"aborted"`).

Of the checksum: `crc32` is the remainder that its comment announces, in
both of its loops; no two inverted bits on the line of these short frames, wherever they are, make a
frame that is taken for good and was not sent; and a frame without damage is
taken.

Of the start: the Windows `protocol_init` gives up after 60 attempts and says
so. The Linux file makes 60 attempts and tests for 6
(`Lab1/Lab1-linux/protocol.c:306` and `:318`), so a station that connects at the
seventh try gives up and one that never connects goes on. The model follows the
Windows file, for which `StartsConnected` is proved; it does not hold of the
Linux test.

Of the codec: it reads what the format says under its limits, with three
deviations that the properties name. The header of a local reply keeps the
query's count of questions while one question is copied (`dns_packet.c:218`), so
the reply to a query with several does not read back; `LocalReplyReadsBack`
speaks of one question. A name whose label is too long leaves its dot in the
buffer in the place of the terminating zero, and as the return value for a
CNAME's target is not looked at, the text left there is compared with the names
that follow (`dns_packet.c:550`; `ExtractsTheAnswer` leaves such answers out). A
CNAME chain is followed for one step.

Of the process, with three places where the code does not do what its documents
say. Everything is freed exactly once on every path, but for one entry with every
query that cannot be sent: `relay_forward` takes it back from the map and drops it
(`relay.c:63`), although `id_map.h:38` asks the caller to free it; `NothingLeaks`
says that nothing else is lost. A stop that is asked for after the handler is
installed (`main.c:45`) and before `relay_run` clears the flag (`relay.c:259`) is
forgotten, while `docs/code-learning.md:330` has every Ctrl+C end the loop; one
that is asked for later always does (`StopEnds`). `fgets` takes 511 characters of
a line (`dns_table.c:137`), and what follows is read as a line of its own, the end
of a long comment included, which `docs/design.md:136` has ignored; the model
reads such a file as the code does, and `TableAsWritten` speaks of files whose
lines fit.

### Fairness

* The event loop polls for ever and reports what is pending, so each kind of
  event is weakly fair. `wait_for_event` reports one frame for a block that
  holds several; the next block brings the others, and as long as something is
  outstanding a timer sends another block.
* Timers are strongly fair: a timer that runs expires. The model holds timeouts
  back while `MaxInFlight` frames are on the line, the program does not, so a
  weak condition would blame the program for the bound.
* The noise of `socket_recv` is drawn anew for every block. A frame of a kind
  that is sent again and again is received intact again and again: strong
  fairness of its intact reception (`StopAndWait`, `GoBackN`, `GoBackNPiggy`).
  In
  `SelectiveRepeat`, where what is repeated changes with what was lost, the
  condition is that noise ends at some time, after any damage whatsoever.
* The relay's clock runs and `select` waits at most `RELAY_SELECT_MAX_MS`, so
  `Tick` and `Turn` are weakly fair. Nothing is assumed of clients, of upstream
  or of the success of a send.
* The codec works on one datagram without waiting: its next step is weakly fair.
  So is the thread of `main` in `Startup`; nothing is assumed of the user, nor
  that the traffic ever ceases.

### Assumptions

| assumption | what it says and why it holds |
|---|---|
| `WindowSizes` | `NR_BUFS` divides `MAX_SEQ + 1`, so that the slot of a number does not change when numbers come round, and is at most `MAX_SEQ`, which is at most 255 (numbers are `unsigned char`). The `#define`s: 7 and 4. |
| `HalfTheNumbers` | selective repeat's window is half the numbers, as its `#define` of `NR_BUFS` has it |
| `PendingFits` | the map holds fewer queries than there are identifiers: 256 and 65535 |
| `AnswersDieInTime` | of the network: an answer arrives before `MaxId - MAX_PENDING + 1` later queries were relayed, or not at all. That is 65280 queries in the code; from then on its identifier may have been given out again |
| `Sizes` | `start_timer` reckons no less time per byte than the line takes: a byte lasts 1 ms at `CHAN_BPS` 8000. The rest gives types |
| `EnoughNodes` | the heap has room for the cache's capacity |

The protocols take the checksum to detect every damaged frame; `Checksum` checks
that for short frames and two inverted bits. The models of the physical layer begin with a turn
that finds the socket writable, as a connection that was just made is. `hash`
may be any function, `lower` any mapping of spellings to names, `in_lower_case`
and `without_dot` any mappings of words to words. `DiskType` (a line is a
sequence of words, of which `#` may be one), `TableConstants`, `QueryType`,
`TableType`, `NameLimits`, `JobType`, `MaxTtlIsNat`, `MaxForwardsIsNat` and the
like only give types; `NoneDiffers` says that no time and no buffer is the mark
for none.

## Proofs

What is proved holds of the specifications without fairness, for every value of
the constants that the assumptions allow: any traffic, window, number of
identifiers, clients, names, files, and, where a bound occurs (`MaxInFlight`,
`MaxForwards`, `MaxPending`, `MaxDropped`), any value of the bound. The
inductive invariants of the four protocols and of the relay are also invariants
of their runs; those of the cache and of the physical layer speak of sequences
and of places that exist, and their consequences are checked.

### Stop-and-wait

`StopAndWaitProofs`: `TypeCorrect`, `Invariance` (`IInv`), `InOrderDelivery` (no
station ever aborts), `NothingForgotten` (acknowledged packets were delivered),
`TimersCorrect` (a timer runs exactly for the outstanding frame), `AlwaysWoken`
(`NeverStuck`) and `Refinement` (`ImplementsReliableLink`), from
`StationsDiffer` and `TrafficIsNat`.

`NeverAborts` alone says nothing about the frames on the line, so the invariant
describes them. Numbers are the parities of counts (`NumbersAreParities`). The
data frames on the way to a station are in the order of their packets, and each
is the last packet delivered or the one outstanding (`DataInFlight`); these two
have different parities, so a number that matches is the right packet. An
acknowledgement that matches `frame_nr` can be on the line only when the peer is
one packet ahead, and from there to the end of the line all acknowledgements
match (`AcksInFlight`); so when the number flips no old one can match. The
remaining conjuncts tie timers, buffer and flow control to `nbuffered`.

### The sliding windows

`GoBackNProofs`, `GoBackNPiggyProofs` and `SelectiveRepeatProofs` prove of their
protocol: the inductive invariant (`...Invariant`), that nothing is freed or
overwritten before the peer has it and that the edges of the windows agree
(`...Window`), that a timer runs for exactly the outstanding frames
(`...Timers`), that `put_packet` never aborts (`...NeverAborts`) and that the
protocol implements `ReliableLink` with a window of `NR_BUFS` (`...Refines`).
`SelectiveRepeatReceiveWindow` adds what waits in `in_buf`.

The invariant is one for the three files, in parts that `SlidingWindow` states.
`EdgesAreCounts`: the two edges of the sender, and `frame_expected`, are counts
of packets modulo `MAX_SEQ + 1`; what is acknowledged was delivered, what is
delivered was taken, and every packet between the first count and the last is in
the slot of its number. `FramesInTransit(kinds)` is about the line. Each data
frame bears the number of its packet, is less than a window older than what its
receiver has had (`DataInOrder`), and keeps that distance to every data frame
behind it, because a sender repeats nothing that is older than its window. The
frames of those `kinds` acknowledge counts that never decrease along the line
and end at what the receiver has now (`AcksInOrder`).

From this the numbers are enough. The packets that a data frame can carry, when
it arrives, lie less than a window before and at most a window after what the
receiver has had; `WindowSizes` makes that no more than there are numbers, so
one with the expected number carries the expected packet. An acknowledgement,
since the line is a FIFO, acknowledges at least what the one before it did and
at most what was delivered; `between` then finds exactly the frames that are to
be freed.

Selective repeat needs more. It takes any frame between `frame_expected` and
`too_far`, so that an old frame must not look like any of these; that is where
the window of half the numbers is used to the last one. `StoredInOrder` says
that each packet that waits is in the slot of its number and was taken by the
peer, that no frame under way is so old that it could be taken for one of the
window after it, and that the next expected packet never waits; the loop that
hands up a run therefore hands up consecutive packets. In the refinement that
whole run is one step of `ReliableLink`, which lets several packets be taken at
once.

`SlidingWindowProofs` holds the arithmetic (`NumberDiffers`, `NumberSlot`,
`BetweenCounts`), what each of the shared operators does to each part
(`TookPacket`, `FreedFrames`, `OneFrameReceived`, `WindowResent`, `DataPut`,
`AcksPut`, `AcksTaken`, ...), and how a step of either end appears in
`ReliableLink`. The three modules then go through the actions of their file.

### The physical layer

`PhysicalLayerProofs`: `ConnectedStart` (`StartsConnected`), `FramesComeInOrder`
(`FramesInOrder`), `ReceiverResynchronises` (`Resynchronises`) and `TimersLast`
(`TimersOutlastQueue`), for frames of any length and any number of them, any size
of the ring and of the blocks, any rate, delay and noise, from `Sizes`,
`NoneDiffers` and, for the start, `AttemptsType`.

None of the last three is inductive: each speaks of the two ends, and the line
between them is what has to be known. The invariant `IInv` says that there are
places `got <= low <= mid <= top` in all that A sends such that B has heard the
bytes up to `got`, the blocks hold those up to `low`, block after block
(`InBlocks`), the connection those up to `mid`, and the ring, from `sq_head` on
and round its end, those up to `top` (`Stream`). `Counted`: `top` is the end of a
frame, unless the ring overflowed. `Timed`: a timer that runs leaves what is
queued up to its frame the time that `start_timer` reckoned for it, less the time
since `socket_send` last took bytes (`since`), in which the next call makes up as
many; as the line takes no longer (`Sizes`), a timer that is due at a call of
`socket_send` finds its frame sent. `Sampled`: that time is no less than the age
of the loop's `now`. `Heard` is
about `recv_byte`: what was found begins at increasing places (`Ordered`); every
frame that was heard whole and that noise spared was found (`Complete`); within
such a frame the buffer is all of it so far, and within any frame nothing of it
is missing (`Partway`); and after a delimiter that noise spared, the buffer is
empty or there is none (`Between`), which is why one good delimiter is enough.

`send_frame` and the loop over a block are recursive functions of the number of
bytes. They are unfolded at one byte, and that every one of them keeps what
the invariant says is shown by looking at the least number of bytes after which
it would not (`LeastNumber`): an order on numbers, which the library has, instead
of an induction.

### The relay

`RelayProofs`: `RelayInvariant` (`IInv`), `RelayTypes`, `RelayCountIsExact`,
`RelayPendingAwaitsAnswer`, `RelayAnswersFindTheirQuery`,
`RelayCacheIsVouchedFor`, `RelayReplyMatchesQuery`, the action property
`RelayLateAnswersDropped`, and `RelayListedNamesStayLocal`: where no send fails,
listed names do stay local, which is what `RelayListedFallback` violates.

That an answer finds its own query or none is not inductive: it says nothing of
where `next_id` is. The invariant adds `NotRoundYet(u)` for every query that
upstream may still answer: `next_id` is `d + 1` steps past the identifier of `u`
and less than one round; of the identifiers it passed, one was given out for
every later query and the others were in use; these, and those that are in use
on the rest of the way, had places in the map next to `u`, so they are fewer than
`MAX_PENDING`. Expiry and removal only make the set smaller, an insertion moves
`next_id` to the next free identifier and past nothing but identifiers in use
(`AllocatedId`), and as long as `AnswersDieInTime` lets `u` be answered the rest
of the round is not empty. So the identifier of `u` is not given out again. The
other half of the invariant is about the cache: no name twice
(`OneEntryPerName`), and no entry with more time left than upstream vouches for.

### The cache

Also in `RelayProofs`, because the list it speaks of is the relay's:
`CacheListWellFormed`, `CacheChainsHoldTheSame` and `CacheRefinement`
(`ImplementsLruCache`), for any memory, names, spellings, capacity and hash
function, from `NodesAreFinite`, `PointersDiffer`, `HashType`, `LowerType` and
`CapacityIsPositive`.

What the pointers mean is a sequence `p` of nodes, the order of use, and one
sequence `h[b]` for each bucket. The invariant (`StructInv`, with `Good` and
`Shows`) says that there are such sequences: the ring leads from the sentinel
through `p` and back, forwards and backwards (`Ring`); the chain of `b` leads
through `h[b]` to `NULL` (`Linked`); `p` and the `h[b]` meet each allocated node
once, `h[b]` those whose names belong there; no two have the same name; `size`
is the length of `p`. That the walks of the properties then read `p` and `h[b]`
(`RingIsWalked`, `ChainIsWalked`) needs no induction: what `Walk` defines by
recursion is compared with the sequence at the first place where they would
differ.

Each of the static functions is shown to do to the pointers what taking out a
node, or putting one in front, does to these sequences (`TakenFromRing`,
`PutOntoRing`, `TakenFromChain`, `PutOntoChain`). `RemovedTwice` is about the
eviction: a node that is unlinked again through the pointers it kept writes what
is there already, because its neighbours have become neighbours of each other
and nothing was linked in between. `Emptied` follows the loop of
`dns_cache_destroy`. `Shown` reads the entries along the ring; every call
changes that list as the operation of `LruList` of the same name does
(`LookupShows`, `InsertShows`, `InsertFailsShows`, `TickShows`, `EmptyShows`),
and these are the steps of `LruCache`. With `RelayCacheIsVouchedFor`, which is
about the list, this covers the cache from its pointers to the clients.

### The codec

`StartupMessageProofs` proves, for a datagram of any length and content and any
values of the limits:

* `StaysInBounds`: `Spec => []InBounds`. No offset leads out of the datagram, no
  text out of a name buffer, no reply out of the reply buffer.
* `NamesEnd`: every turn of the two loops that read a name ends it, follows one
  of the `DNS_NAME_JUMP_MAX` pointers, or gets closer to the end of the
  datagram. With this a name takes at most `(DNS_NAME_JUMP_MAX + 1) * (len + 1)`
  turns; that the steps are taken (`Terminates`) is left to TLC.

They use `NameLimits`, `JobType` and `BufferSize`. `InBounds` is not inductive:
where the work goes on after a name depends on `jump_return`, and how long a
reply is on where its question began. The invariant adds that the datagram never
changes (`Datagram`), that what follows a name lies behind its beginning
(`CursorAhead`), and that a query's one name begins behind the header
(`QueryPhase`). Two lemmas then serve all actions: a loop that begins a name at
an offset of the datagram keeps the invariant (`NameBegins`), and so does an end
with nothing or with a reply that fits (`WorkEnds`); the turn of a name is
treated on its own (`TurnKeepsIInv`).

### The process and its name list

Also in `StartupMessageProofs`: `StartupNothingLeaks` and
`StartupTableAsWritten`, from `TableConstants` and `DiskType`.

What is held is a matter of the place the process is at, of the queries that
wait and of the rows that were read (`HeldByPlace`); each allocation moves to a
place at which one resource more is held, and a return frees what is held there,
so that `NothingLeaks` follows from the place alone. Rows are the entries of the
chains; `EntriesCounted` says that reading one adds an entry exactly if its name
is new to the table. For the list, after `k` lines the table has for every
name what the last row for it among them says (`Listed`), and the lines
not yet read are the rest of the file (`ReadSoFar`). That is kept by the lemma
`LookedUpAfter`: after a row was read its name has its address, and every other
name has what it had, in whichever chain it is.

### Model-checked only

* Liveness, which is out of the prover's reach: `EventuallyDelivered`,
  `EventuallyAllDelivered`, `EventuallyAllFreed`, `RoomReturns`, `StopEnds`,
  `Terminates`.
* The checksum: its table is data, and its remainder an induction over a frame.
* What the codec reads and writes against the recursive definitions of
  `DnsWireFormat`: `NamesAsDefined`, `ResultAsDefined`.

## Not modelled

* Lab1: `lprintf.c`, `getopt.c`, the option parser and `mode_life`; the choice
  of a protocol at the start; the rates of the network layers and the
  utilisation; `len` and the packet's ID modulo 10000; a `send` that takes fewer
  bytes than it was given or fails, in `socket_send` and in `send_byte`, which
  sends one byte past the queue without looking at the result. `PhysicalLayer`
  has one direction and no acknowledgements; the directions of the line share
  nothing but the connection. From `DataLink` up, a hit on a delimiter is
  `FrameLost`, one on a nibble `BadFrameReceived`, two that join short frames
  one of each, and the overflow of the 128 KB queue is left out.
* The two `protocol.c` are the same text line by line where no system calls are
  made, but for a mask of the debug output and the test named above;
  `PhysicalLayer` names the lines of the Linux file, `DataLink` and `Connection`
  those of the Windows file.
* dns_relay: the clock (a unit passes or does not); the texts of the log and of
  the help; the length of command line words; name queries of types other than A
  beyond their being forwarded; the time to live of 60 s in local answers, which
  may outlive the cached entry; an upstream datagram of less than two bytes,
  after which `relay.c:199` looks for the identifier of an earlier one; queries
  for the root name, whose `qname` is empty and whose answers are not cached. A
  failed allocation in `id_map_insert` leaves the map as a failed send does, and
  one in `id_map_take` as an answer without address whose send fails; both are
  covered by those.
* `dns_relay/code_for_defense` is the same source without comments (`id_map.c`
  and `dns_cache.c` are equal byte for byte); the modules name the lines of the
  original.
* Tests and scripts.

## Plan

Done: the protocols, the library down to the line bytes and their checksum, the
cache, the map, the relay, the codec, the name list and the process; the proofs
about the four protocols, the physical layer, the relay, its cache, the bounds
of the codec and the process. Still to do: `PhysicalLayer` in both directions as
a refinement of `DataLink`'s `chan`, for which `Heard` (see the proofs) says
what the receiver has.
