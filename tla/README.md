# CpherTunnel: a TLA+ model of its transport and protocol

CpherTunnel is a header-only C++ library for the Minecraft Bedrock protocol: RakNet over UDP, batches of
game packets with compression and encryption on top of it, and the encoding of some 240 kinds of packets.
This directory holds TLA+ modules that model all three layers, TLC configurations that check them on
small instances, and proofs that TLAPS checks for every instance.

Paths below are relative to `src/include/cphertunnel/` unless they start with `src/`.

## 1. The system

The library runs in one thread. Nothing happens outside the calls of its user, who calls `tick()` in a loop;
all concurrency is between the peers of a network and the datagrams between them.

| part | source | state | operations | hard because |
|---|---|---|---|---|
| Reliability layer | `raknet/reliability.hpp` | counters of datagrams, messages, channels and split messages; table of sent datagrams; numbers to acknowledge; fragments; per channel what is expected and what waits | number, split, pack, record; process ACK, NAK, data; resend after 1 s | loss, duplication, reordering, 24- and 16-bit counters, early resends |
| Connection | `raknet/connection.hpp` | Connecting / Connected / Disconnected, queue of outgoing datagrams, latency, handlers | dispatch of datagrams and messages, ping and pong, pending output | handlers outlive the tick that installed them |
| Peer | `raknet/peer.hpp` | map of connections by address, `connecting_`, `running_`, limit on connections | `start`, `connect`, `sendGamePacket`, `tick`, `shutdown`; the handshake | the two sides change state at different times; every message may be lost, late or twice |
| Socket | `raknet/socket.hpp` | a file descriptor | bind, send, receive | - |
| Wire types | `raknet/bitstream.hpp`, `raknet/types.hpp` | a buffer and two positions | read and write integers, addresses | reads past the end throw |
| Batch pipeline | `network/batch_packet.hpp`, `compression.hpp`, `encryption.hpp` | compression and whether it is announced, two ciphers with counters | encode, decode, switch compression and encryption on | both ends must switch at the same point of the stream |
| Connection handler | `network/connection_handler.hpp` | a peer, one pipeline per connected remote | `tick`, `sendPacket`, `broadcastPacket`, `shutdown` | decodes a whole tick before the user sees the first packet; exceptions |
| Packet codec | `protocol/packet.hpp`, `packet_codec.hpp`, `types.hpp` | none | encode and decode batches and headers | truncated input |
| Binary stream, varints, NBT | `protocol/binary_stream.hpp`, `varint.hpp`, `nbt.hpp` | a buffer and a position | read and write | width of integers, nesting |
| Packets | `protocol/packets/*`, `packet_ids.hpp`, `packet_types.hpp` | none | `write`, `read` | `read` must mirror `write` |
| Example server | `src/examples/test_server.cpp` | per client: state of the login, whether it has its chunks, tick counters | one case per packet | nothing but the client keeps the order of the login |

What makes each part correct:

* *Reliability layer*: each channel hands over what was sent, in order, once, unchanged, and in the end all of
  it; what is not yet with the receiver is kept by the sender; retransmission ends.
* *Peer*: a handshake ends with both sides connected and aligned on the same two streams; the user's view of who is
  connected follows the events and is right; a departure is reported.
* *Batch pipeline and handler*: every batch is decoded under the settings it was encoded under; the handler's table is the
  set of remotes the user was told of.
* *Codec, streams, packets*: what is written is read back; malformed input ends in an error, never in other data.

## 2. The modules

Transport:

| module | models |
|---|---|
| `OrderedStream` | what a channel promises: an ordered stream, no datagrams in sight |
| `ReliabilityLayer` | the data structures of `reliability.hpp` as operators on values |
| `ReliableChannel` | one direction of an established connection over a bad network, reliable-ordered messages and pings; implements `OrderedStream` |
| `MixedChannel` | the same for messages of every reliability on one channel |
| `Framing` | the sizes `splitMessage`, `buildDatagrams` and `Frame::encode` compute with |
| `RakNetPeer` | a server and its clients: handshake, connection tables, ticks, shutdown, crash |

Sessions:

| module | models |
|---|---|
| `BatchPipeline` | `BatchPacketProcessor` with its compression and its cipher |
| `ConnectionHandler` | the table of processors above a peer; `tick`, sending, shutdown |
| `LoginFlow` | composes handlers of a server and its clients with the users of the example programs: the login |

Protocol:

| module | models |
|---|---|
| `VarIntStream` | varints byte by byte: writing, a buffer that is cut or foreign, reading |
| `WireFormat` | the calls of `BinaryStream` as data, and what they put on the wire and take off it |
| `PacketTypes` | the structures packets have in common |
| `SessionPackets`, `ItemPackets`, `WorldPackets`, `ActorPackets`, `InterfacePackets` | `write` and `read` of every packet class |
| `PacketCatalogue` | the ids of the classes |
| `BatchFrame` | headers, and batch frames of payloads already serialized |
| `PacketCodec` | `serialize`, `deserialize`, batch frames of packets |
| `PacketExchange` | a sender that fills packets, a frame that may be cut or shortened, a receiver that reads into a new or a used object |

`MC*` are the instances for TLC, `*_proof` the proofs; `LoginFlow_proof` has its lemmas about concatenations from `BatchFrame_proof`, and `LoginFlow_turns_proof` goes on from it.

**`ReliableChannel`** has the sending half of one `ReliabilityLayer`, the receiving half of the other, and the
network between them. Its variables carry the names of the C++ members. `Send` is `RakNetPeer::sendGamePacket` (split,
number, record, send, in one call); `Ping` and `QueuePong` are the unreliable messages, which take numbers too; `Receive` is
`processReceivedDatagram` on one datagram with everything `processReceivedFrame` does; `FlushAcks` and `FlushPending` are the two
halves of `getPendingOutbound`; `ReceiveAck`, `ReceiveNak`, `Timeout` are `processAck`, `processNak`, `getTimedOutDatagrams` with the
recording their callers do, or do not do. A `tick` is not one action: what the socket holds when it runs is not
observable, so any number of its steps may come together. Times are abstracted: recording times grow with datagram
numbers, so the datagrams older than a second are those below some number, any number. A message is a model value, its body
the function from fragment positions to fragments, so that a wrong assembly shows. A datagram carries one frame: `MixedChannel_proof` proves (`OneFramePerDatagram`)
that `buildDatagrams` puts each frame of a reliable-ordered message in a datagram of its own.

**`MixedChannel`** takes the operators of `ReliabilityLayer` again and adds what `ReliableChannel` leaves aside: unreliable messages that are
not recorded, sequenced ones with `highest_sequenced`, reliable ones without order. A message is its place in the order of sending with its
reliability, its channel and its number of fragments. An ACK is one step with its arrival (`Acknowledge`), or its loss. Datagram numbers and
indices are not reduced to the 24 bits of the wire here, as they are in `ReliableChannel`: neither the run `mixed` nor the theorems about this module say
what happens when they come round.

**`RakNetPeer`** has one table of connections per peer. `Receive` is one round of the receive loop of `tick` for one
datagram in flight, with `processIncoming`, `processOfflineMessage`, the two handlers installed during the handshake and
`handleReceivedMessage`; `EndTick` is the rest of `tick`: ACKs and resends of the Connected ones, then removal of the Disconnected ones. The user's
calls come between ticks only (`receiving`). Messages are their ids; all fit one frame and use channel 0, as in
the code. The ordering, the table of sent datagrams and the acknowledgements are the operators of `ReliabilityLayer`, so the same code is modelled
once. `open` is what the user knows from the events; `stray` records a game packet reported from a remote that is not open. The handlers
of a connection keep a reference to the event vector of the tick that made it (`fresh`): in a later tick that vector is gone, and
a push is undefined behaviour. If `EventsMove`, the event may or may not reach the user; otherwise the vector of each tick lies where
the last one did, which is what the common calling pattern (one frame, return value built in place) gives, and the event is seen. The
runs assume the latter, so that their results do not hang on it.

**`BatchPipeline`** keeps of a payload what `decode` looks at: the packets, the header byte, whether the body was deflated, and the counter
it was encrypted with. `decode` gives "fine", "throws" (zlib, checksum) or "garbled", where bytes are taken for what they are not.

**`ConnectionHandler`** is `connection_handler.hpp` over a peer that works as the two modules below it show: from the connection to the disconnection an
ordered stream each way. `Tick` is all of `tick`: some messages of each remote in any order of the remotes, then the disconnections; each event through the
`switch` in turn, with the processor of its remote as it is then; an exception drops the events collected so far and leaves the rest of the peer's events
unseen. `SendBatchTo` is `sendPacket` and `sendBatch`: the batch is encoded, and the cipher advances, before the peer is asked. Nothing on the wire tells the
sessions of two addresses apart (`raknet/peer.hpp:263`), so what was on the way when a session ended (`late`; `LateKinds` says which kinds are kept) may arrive in the next: `LateArrives`. The
receiver then discards it, because it has passed its index or is not connected, or, where `LateTaken`, takes it for the message of this session with that index. Only a message that is on
its way already is replaced so, never one that is yet to be sent.

**`LoginFlow`** adds the users. The server is `main` of `test_server.cpp`: one case per packet of the login, none of which looks at the state of the client.
A client begins as `basic_client.cpp` and goes on as the server expects it to; the cipher is switched on with the compression (no example does; `Ciphers`). A
new `connect` from the address of a client that crashed or left replaces what the server's peer holds of it without an event, as `RakNetPeer` shows; the server's
user may broadcast, send two packets in a batch, and keep the time between its ticks. The offline handshake of a `connect` is one step in which nothing is lost, and which
happens once: a second OpenConnectionRequest2 on a live connection is in `RakNetPeer`, not here.

**`WireFormat`** writes a member function as the sequence of its stream calls. `Put` and `Take` say what they do: a token of a kind (a width and a
way to read it) per call, loops over what was counted, branches on members written or read before, resizes that keep old elements, the overflow flag that
turns all later reads into zeros. The five `*Packets` modules then are the `write` and `read` functions of the repository, call by call; where both are
the same sequence it is written once (`Symmetric`). An NBT tag is one value. `Sample` fills an object: every value some branch tells apart, vectors of up to
two elements, optionals with and without a value, all other members with values of their own.

**`VarIntStream`** is parameterised by the size of a group, the width of the type and the bound on the shift; `GROUP = 128`,
`WIDTH = 2^32`, `LIMIT = 2^35` is the code, and 2^64, 2^70 its 64-bit twin.

## 3. What the runs check

Passing runs:

| run | properties | shows |
|---|---|---|
| `channel_safety` | `TypeOK`, `InOrderDelivery`, `NothingForgotten`, `QuietMeansAcknowledged` | with whole and split messages, a ping, early resends and a duplicate, each datagram and ACK arriving in any order or never: order and content are right, no fragment is dropped by both ends, numbers in table and ACKs agree |
| `channel_live` | `ImplementsOrderedStream`, `EventuallyAcknowledged` | two channels, two losses (data or ACKs): everything sent is delivered, resending ends |
| `channel_naks` | `StreamSafety` | NAKs of a foreign peer do not disturb order or content |
| `mixed` | `BodiesIntact`, `SequencedNeverOlder`, `ReliableArrives`, `OrderedUntilSequenced` | what each reliability promises on a channel all of them share; ordered messages arrive exactly until something sequenced was sent on their channel |
| `peer_safety` | `TypeOK`, `GamePacketsWhileOpen`, `HandshakeOrder`, `StreamsAligned` | one handshake with a loss, a duplicate and resends |
| `peer_restart` | `GamePacketsWhileOpen`, `ReportsEveryConnection` | a shutdown or a crash and a second session on the same addresses, over a network that loses a datagram: late datagrams of the first session make no unreported connection and no packet of one |
| `peer_live` | `HandshakeCompletes`, `ClientDeparturesReported` | without losses the handshake completes and the shutdown of a client is reported |
| `login_safety` | `TypeOK`, `EveryBatchUnderstood`, `StreamIntact`, `CipherInStep`, `ClientsMatchConnections`, `PhasesAgree`, `StepsOnce`, `ChunksBeforeSpawn` | two clients that log in, leave, crash and return, what is left of an earlier session being discarded when it comes (`LateTaken = FALSE`): every batch is decoded under the settings it was encoded under, no packet is lost or repeated between wire and user, the server's table is the handler's, the login goes through its steps once |
| `login_live` | `LoginCompletes` | a client that connects, up to three times, is in the world in the end unless a process ends |
| `packets` | `ReadBackExactly`, `ReusedExactly`, `AcceptedIsWhatCame`, `BatchKeptApart` | all packet classes: read mirrors write; a used object differs in no member from a new one, but in the classes named below; a body that ends early is refused; of a frame cut anywhere, also between packets or within the first, exactly the packets that came whole are reported, and `decodeBatch` says whether that is all there was of it |
| `varint` | `ReadBack`, `OverflowMeansCut`, `StaysAligned`, `InBounds` | what is read back is what was written, however the buffer is cut; foreign bytes end in an overflow or in numbers of the type |

One run shows a disagreement of the code with its own comments:

| run | property | what happens |
|---|---|---|
| `login_zlib` | `EveryBatchUnderstood` | zlib stores what is below its threshold, but the batch says zlib: the remote inflates it and throws (`network/compression.hpp:68`, `network/batch_packet.hpp:66`) |

### What else the models show of the code

Each of these was found with the modules as they are and a configuration that differs from those here in the constants named; the properties are in the modules, and false:

* `HandshakeResent` (`RakNetPeer`, one loss): `tick` skips Connecting connections, so a lost ConnectionRequest or answer is never resent (`raknet/peer.hpp:163` against `:160`, `:186`).
* `NothingForgotten` (`ReliableChannel`, `PeerNaks = TRUE`): a datagram resent for a NAK is no longer in the table "awaiting ACK"; when lost, it is lost for good (`raknet/connection.hpp:324` against `raknet/reliability.hpp:613`).
* `NothingForgotten` (`IndexMod = 2`, three messages): past 2^24 messages a channel drops all new ones as old (`raknet/reliability.hpp:342`, `:346`). In the same way `QuietMeansAcknowledged` past `NumberMod` datagrams, and `InOrderDelivery` when a split id comes round while a stale fragment is pending.
* `ConnectedUntilReported` (`RakNetPeer`, two connects, or `Duplicable = {"OpenConnectionRequest2"}`): a second OpenConnectionRequest2 replaces a live connection and no event says so (`raknet/peer.hpp:367` against `:37`).
* `ReportsEveryConnection` (`EventsMove = TRUE`): the Connected event may go to a vector that is gone (`raknet/peer.hpp:352` against `:36`).
* `ServerDepartureReported` (`RakNetPeer`, one stop): `shutdown` does not tell a client that is Connected already while the server still is Connecting (`raknet/peer.hpp:80` against `:78`).
* The limit on connections is exceeded by handshakes that overlap (two clients, `MaxConnections = 1`); a crashed client is never reported (`MaxCrashes = 1` in `peer_live`).
* `StreamsAligned` (`Duplicable = {"OpenConnectionRequest2"}`, two duplicates, `MaxDatagrams = 5`, `MaxGames = 2`): after the same replacement two connected peers may speak of different streams.
* `StreamIntact`, `EveryBatchUnderstood` and `CipherInStep` (`LoginFlow`, `LateTaken = TRUE`, `LateKinds = {"GamePacket", "DisconnectionNotification"}`, one client): a frame of an earlier session whose index is ahead is buffered and handed over in the new session, and the frame it stands for is dropped as old (`raknet/peer.hpp:263`, `raknet/reliability.hpp:342`). The user sees a packet of another session, or the cipher fails. `ClientsMatchConnections`, `PhasesAgree`, `StepsOnce` and `ChunksBeforeSpawn` hold in that configuration for as long as every batch is understood.
* `EveryBatchUnderstood` (`LoginFlow`, `BroadcastAnyTime = TRUE`): a packet broadcast while NetworkSettings is under way is encoded with the header byte and decoded without it, whenever the client's tick takes both together.
* `UniquePacketId` (`PacketExchange`): Ping and NetworkStackLatency are both 115, UpdateClientInputLocks and PlayerClientInputPermissions both 196, DebugDrawer and ServerScriptDebugDrawer both 328, against "Returns the unique packet ID" (`protocol/packet.hpp:22`).
* `AddVolumeEntityPacket::read` takes all that is left for its second member (`protocol/packets/add_volume_entity_packet.hpp:37`), so every later member is empty and the stream overflows. It is the one class `ReadBackExactly` leaves out (`Unreadable`).
* Forty classes keep members of an earlier packet in an object read into again (`KeepsOldMembers`): what is behind a branch not taken, an absent optional or an empty remainder stays as it was, for instance `DisconnectPacket::message` when the message is skipped, or the `source_name` of a `TextPacket` of another type. In six of these (`ShowsOldMembers`, `ChangeDimensionPacket::loading_screen_id` among them) such a member is written again as one of the packet read. All other classes are left as a new object would be. Who deserializes into a used object has to look at the markers of these forty.
* Two classes find the end of a member from the end of the body (`ReadsFromTheEnd`) and accept a body that ended early.
* A tag that is null is written as nothing by some classes, and always read: `ReadBackExactly` is of packets without such a tag.
* `basic_client.cpp:71` deserializes `raw_data`, which has no header any more, with `deserialize`, which expects one; the model's client reads as the server does.
* NBT strings of more than 32767 bytes are written and not skipped by the reader (`protocol/nbt.hpp:310`); tags are not modelled in that detail.

### Bounds

Channels: `MaxMessages = 2` lets a message overtake another and a split message overtake a whole one, which is what buffering, draining and
assembly distinguish; `MaxDatagrams = 5` leaves one resend of each fragment; one duplicate suffices to meet a message before, during and after
its delivery. Losses are counted only where something depends on them (the liveness runs, `QuietMeansAcknowledged`): for a safety property a datagram
that is never received is lost, and a budget of 0 does not prevent that. `NumberMod`, `IndexMod`, `SplitMod` stand for 2^24, 2^24,
2^16; they are large enough not to wrap. In `channel_live` a timeout waits until nothing is in
flight (`Patient`), because each early resend would use up the bounded numbers; `channel_safety` has the early ones. In `mixed` there are three messages and
four datagrams: each kind can have one before it, one after it and one resend, or share the datagrams with a split one of which a fragment is lost.

The peer runs have one client: clients share only the limit on connections. `login_safety` has two, because an exception or a broadcast concerns both at once; two
sessions and one end of a process let one of them come back while the other is in the middle of its login, and one extra packet meets every state of the login. What is left of
an earlier session is kept if it is a DisconnectionNotification (`LateKinds`): as it is discarded in these runs, its kind makes no difference.
`login_live` has one client with three sessions and two ends.

`packets` sends every class with fourteen choices of content, and then four more into the object the first was read into; frames are cut at six places (`Places`: within each of the three
packets, and at both boundaries between them) and bodies shortened by four lengths. The choices are digits of a mixed radix, long enough for every branch of the largest class to be taken both ways; the classes are independent of each other, and each is an initial state. `varint`
has groups of 4, a width of 32 and a bound of 64: three groups carry five bits, as the code's five groups of seven carry 32; all numbers of the type, two in a buffer, and foreign
buffers of up to five bytes.

`CHECK_DEADLOCK FALSE`: the bounded systems stop when the budgets are spent and nothing is in flight.

### Fairness

Peers are supposed to call `tick` for ever, and a tick empties the socket, sends the ACK, drains the queue and resends what is a second old:
hence weak fairness of receiving, of the end of the tick, and of a resend that is due. `LoginFlow` has weak fairness of each handler's tick and of each user's
handling of the events it has been given: the loops of both example programs. Nothing obliges the user to send or connect, a process
to crash or end, or the network to lose or duplicate. The bound on losses stands for a network that is not dead for ever.

## 4. What is proved

For all channels, messages, fragment counts, moduli and bounds (the assumptions are the named `ASSUME`s of
`ReliabilityLayer` and `ReliableChannel`):

* `TypeCorrect`: `Spec => []TypeOK`.
* `DeliversInOrder`: `Spec => []InOrderDelivery`, if ordering indices and split ids do not wrap (`NoWrap`:
  `MaxMessages <= IndexMod`, `MaxMessages < SplitMod`). Datagram numbers may wrap. Without `NoWrap` it is false.
* `RefinesOrderedStream`: `Spec => StreamSafety`, under the same condition: every step of the channel is a step of `OrderedStream` or
  changes nothing its users see.

`InOrderDelivery` is not inductive: it says nothing of what is under way. The invariant `IInv` of `ReliableChannel_proof`
adds that the counters count what was sent (`CountersInv`); that every frame in the table, in the queue and in flight is a frame of the message
its index names (`FramesInv`); that an assembler entry holds only fragments of the one message with its split id, of which not all are there
(`AssemblyInv`); and that what a channel has handed over and buffered are the bodies of the messages with those indices
(`OrderInv`). One step per action of `Next`, one lemma per part. The step that needs thought is the arrival of a frame: ids being unique without wrapping, a full entry holds
exactly the fragments of one message; the drain of `processOrdered` then hands over a run of consecutive bodies (`FirstGapIsGap`).
TLC checked `IInv` on the constants of `channel_safety` and `channel_naks` before it was proved.

* `AcknowledgedWhenQuiet`: `Spec => []QuietMeansAcknowledged`, if moreover datagram numbers do not come round (`NoReuse`:
  `MaxDatagrams <= NumberMod`); NAKs or not.
* `ForgetsNothing`: `Spec => []NothingForgotten`, under the same two conditions and without NAKs (`~ PeerNaks`). With them it is false: what a
  NAK asks for is queued, sent once and not recorded again.

The second half of `ReliableChannel_proof` strengthens `IInv` for these two by what the numbers mean (`NumbersInv`): a number in flight, or noted for an ACK, was handed out, and if the sender still records it,
then with the very frame that travels, or with one the receiver has. Hence an ACK removes only what the receiver has, which never loses
a frame again (`TakeReceives`: a completed message's fragments go, but its index is in the channel, and no other message shares the id). `SecureInv` says
of every frame sent that the receiver has it or the table does; `NothingLostInv`, that without losses what is in the table is in flight or noted.
TLC checked the three on the constants of the same runs first.

For every set of reliabilities and channels, if split ids do not come round (`NoIdAgain`: `MaxMessages < SplitMod`) (`MixedChannel_proof`):

* `NeverMixesFragments`: `Spec => []BodiesIntact`.
* `SequencedStaysInOrder`: `Spec => []SequencedNeverOlder`.
* `ReliableArrivesAtEnd`: `Spec => []ReliableArrives`.
* `OrderedStopsAtSequenced`: `Spec => []OrderedUntilSequenced`, both directions: after a sequenced message no ordered one of its channel is ever handed over,
  and before it all of them are.

There are three layers. The first names no order, only where things come from: the indices and the split id of a message are its ranks among
those that take one (`SenderInv`), so they tell messages apart; each frame recorded or in flight is a frame of some message (`FramesInv`); an assembler entry has fragments of the
split message of its id, never all of them (`AssemblyInv`); what a channel buffers and what was handed over are bodies of messages (`BodiesInv`). Every kind of
ordering then only passes bodies on. The second is about the order: `highest_sequenced` is one more than the index of the last sequenced message handed over, and all
handed over are below it (`SequencedInv`); below the index a channel expects every index is that of an ordered message handed over, and what is
buffered is ahead of it under its own index (`OrderedInv`). So a sequenced message's ordering index, if ever reached, is never passed. The third is about arrival, through ACKs and resends:
a number in flight or noted for an ACK is still recorded with the frame that travelled, or not at all (`NumbersInv`), and each fragment of a reliable
message has arrived or is recorded (`RecordedInv`). When nothing is recorded any more all of it has arrived, and an incomplete assembler entry contradicts `AssemblyInv`.
TLC checked all of these on the constants of the run `mixed` first.

* `AckNamesWhatWasReceived`: `SequenceNumbers(BuildAck(S)) = S` for every finite set of numbers.
* The arithmetic of `Framing`, for every MTU from 53 to 1600 and every length of a message, in the last section of `MixedChannel_proof`. `Fills` is `buildDatagrams` of the frames
  of one message, the way it is always called. `FragmentsTileMessage`: the fragments tile the message. `OneFramePerDatagram`: each frame of a reliable-ordered message goes in a datagram of its own.
  `OrderedDatagramFitsMtu`: with IP and UDP headers such a datagram is no larger than the MTU. `DatagramKeepsMargin`: no datagram of a message of any reliability is larger than the MTU less 20 bytes,
  so with the 28 bytes of the headers it exceeds the MTU by 8 at most. That is less than one would wish: several fragments of an unreliable message fit in a datagram, and with an MTU of 60 those of 17 bytes
  make one of 67 with its headers. ACK datagrams are not made by `buildDatagrams` and not covered. `BodyLengthSurvives`: the length of a body, in bits on the wire, is read as written.

For every group size, even width, bound on the shift not below the width, set of numbers and foreign buffers (`VarIntStream_proof`):

* `ZigZagRoundTrip`: zig-zag encoding stays in the type and is undone by decoding.
* `NumbersReadBack`, `OverflowOnlyWhenCut`, `ReaderStaysAligned`, `ReaderInBounds`: all four properties of the run `varint`.

What the reader has returned says nothing of the middle of a number, so the invariant carries, for each byte of the buffer, how many numbers were
finished before it and what the groups of the next one add up to so far (`marks`): the writer keeps the sum of what it has written and what it has left equal to
the encoded number, and the reader, at any offset, has in hand exactly what the mark there says. That the writer's factor stays below the width while something
is left, and with it below the reader's bound, is why no complete number overflows.

For every number of clients, every bound and a network that loses and reorders (`RakNetPeer_proof`):

* `PeerTypeCorrect`: `Spec => []TypeOK`, whoever stops, crashes and starts again.
* `HandshakeOrderHolds`: `Spec => []HandshakeOrder`, if a client connects once (`OneConnect`). A client that connects anew replaces its
  connection while the confirmation of the old one may be on its way, and the property is false.
* `GamePacketsOnlyWhileOpen` and `EveryConnectionReported`: `Spec => []GamePacketsWhileOpen` and `Spec => []ReportsEveryConnection`, across any number of
  connects, crashes and restarts, if the event vectors of successive ticks lie in the same place (`~ EventsMove`; otherwise both are false) and no
  ordering index comes round (`NoWrap`; it has 24 bits).
* `StreamsStayAligned`: `Spec => []StreamsAligned`, if nobody stops, a client connects once and of the offline messages only
  OpenConnectionReply2 is delivered twice (`OneSession`), and neither indices nor sequence numbers come round (`NoWrap`, `NoReuse`). A second
  OpenConnectionRequest2 replaces a live connection (`raknet/peer.hpp:367`), and the property is false (section 3); so is it when a stopped peer comes back under
  the other's old connection.

These conditions are those of the run that checks the property, but for the sizes: `peer_safety` meets `OneSession`, `peer_restart` has several connects and a crash.

The proof is in three layers. `Acts(p)` says what any step of the system does, seen from one peer: the others keep their connections, and each of p's connections `Evolves` in one of seven ways
(it stays, is left, is opened, sends, takes a datagram in, is acknowledged, is ticked); there is one lemma per action of `Next`, and what comes after needs no action again. `FramesEvolve`,
`MostStepsKeep` and `RunAppends` then say which frames and messages such an evolution can bring. The invariants come last, each kept by every evolution:

* `HandshakeInv`: who has ever been asked to connect, and that a confirmation of c, be it recorded, in flight, buffered or taken, means that c is past its handshake (`Past`).
* `StageInv`: which message has which index (0 and 1 are those of the handshake), and, from the index each end waits for, how far it is: what it has sent, and that it was reported.
  So a game packet, whose index is 1 or 2 at least, cannot be handed up before the message that reports the connection, in whatever session it was sent.
* `SessionInv`: that nobody says goodbye; that of c's offline handshake one message at most is under way, so that the server opens one connection (`OnceInv`); that a client's connection which may still
  be replaced is as it was made (`WaitingInv`); and `Aligned(p, q)`, for both directions: a number in flight, noted or acknowledged was handed out, and if p still records it, then with
  the index that travels, or one q has; whatever q has or waits for p has sent; whatever p has sent q has or p records, under some number.

Alignment is proved once for what the sender's step may do (`Grows`: new numbers and indices only, nothing forgotten that q lacks) and once for the receiver's (`Gathers`: nothing forgotten, only what was sent taken in),
and the seven evolutions are shown to be such. The handlers a datagram sets off are a recursive function of how many have run; instead of inducting over it in every lemma, `HandleMessagesRun` gives
the sequence of states between them and `StepsInduction` an induction over sets of steps, which these provers can instantiate. TLC checked each invariant first: `StageInv` on the constants of both runs,
`HandshakeInv` and `SessionInv` on those of `peer_safety`.

For every finite set of clients and a server that is none of them, with either compression, either kind of broadcast, and whether or not what comes late is taken for a message of the session
(any `LateTaken` and `LateKinds`; `LoginFlow_proof`):

* `LoginTypeCorrect`: `Spec => []TypeOK`.
* `ServerKnowsItsClients`: `Spec => [](EveryBatchUnderstood => ClientsMatchConnections)`: as long as no handler has failed to decode a batch, the server's map of clients
  holds exactly those its handler has a connection of, whenever it has no event left to handle. The condition cannot go: when decoding throws, `tick` returns no events, and the user is never told of the connections
  the handler has opened and removed in it.

A tick hands over everything that came since the last one, so the map lags behind the handler for as long as there are events the user has not seen. `Known` says what the clients will be once it has
seen them all, in their order; `Matched` that this is what the handler's table says; `MatchInv`, the invariant, is `Matched` of every client while the server runs and nothing has
failed, so that with no event left both agree. The loops of the tick (messages of a remote, remotes that left) are recursive functions, again unfolded into a run and proved by `StepsInduction`; the
arrivals are appended before the departures, and `Known` of a concatenation is that of its parts in turn. That order is where the proof breaks, as TLC does, when departures are reported first. A late
message takes the place of one on the way that is not of the handshake, and changes none of this (`LateInv`, `LateStays`).

`LoginFlow_turns_proof` goes on to everything else that is checked of the login, under three conditions, which are those of the run `login_safety`:
what NetworkSettings announces compresses nothing (`Uncompressing`: `Algorithm # "ZLib"`; with zlib batches are misread, which is the run `login_zlib`); the server
broadcasts nothing between a client's NetworkSettings and its Login (`~ BroadcastAnyTime`; otherwise a batch is misread too, see section 3); and what is left of an earlier session is discarded when it
comes (`~ LateTaken`; otherwise the first three are false, see section 3). The last one is about the network, not the code, which has no means to tell: it holds if what was on the way has come or is lost
by the time its address connects again. The clients, the bounds, the ends of processes and what a tick finds are arbitrary:

* `BatchesUnderstood`: `Spec => []EveryBatchUnderstood`.
* `StreamsIntact`: `Spec => []StreamIntact`: within a session nothing is lost or repeated between the two users. That no packet of another session comes in is the third condition, not its result.
* `CiphersInStep`: `Spec => []CipherInStep`.
* `LoginPhasesAgree`: `Spec => []PhasesAgree`.
* `LoginStepsOnce` and `LoginChunksFirst`: `Spec => []StepsOnce` and `Spec => []ChunksBeforeSpawn`.
* `ServerAlwaysKnowsItsClients`: `Spec => []ClientsMatchConnections`, without the condition of `ServerKnowsItsClients`.

None of the seven is inductive, nor are they together: whether a batch is understood depends on what both processors will be when it arrives, and that on
packets and events still under way. The invariant (`GoodInv`, with the types; `AlwaysGood`) therefore speaks of what each side *will be told* by the other: `Upward(c)` and
`Downward(c)` are the events its user has yet to handle followed by what the wire will make of itself in its handler. Of each client it says

* `HearsServer`, `HeardByServer`: each batch on the way suits the processor as it will be then, and after RequestNetworkSettings, and after NetworkSettings, nothing follows
  (both sides stop talking plainly before they switch);
* `Ends`: who is gone has left nothing behind, in table, wire or events, that a later session could take for its own;
* `Script`: what the client has seen, and will be told, is a beginning of the login's `Story`, and no spawn comes without a chunk before it;
* `Turn`: where the login is. `Knocks`: the connection is not confirmed yet. `Greets`: both sides are plain. `Switches`: the server has switched, the client has
  not. `InStep`: both have, and one request at most is under way, or the answer to it, but not both (`Asking`, `Answering`, `Playing`); there the counters of the cipher differ by the batches on the
  way (`Leads`). In every turn what the server's user was sent is what it has seen and will be told.

A tick decodes everything before its user reacts to anything, so it is the step to fear; it is taken apart remote by remote, and shown to move signs from the wire to the events
without changing what anyone will be told. The users' handlers consume one event and say one thing, and take one turn to the next; the broadcast, being no
step of the login, leaves the marks (`Marks`) alone. TLC checked `GoodInv` on the constants of `login_safety` before it was proved.

For every set of tokens, any number of packets and packets of any length (`BatchFrame_proof`):

* `FirstPacketsDecoded`: wherever the frame of some packets is cut, `decodeBatch` reports those that came whole, each with its own header and bytes and in their order, and returns true
  exactly when the cut is between two of them (`FirstPackets`). `BatchKeptApart` says the same of the three packets in the run `packets`.
* `WholeBatchDecoded`: `DecodeBatch(BatchOf(parts))` gives back all of them. `BatchPipeline` and `LoginFlow` build on it when they take a payload for the sequence of its packets.
* `HeaderSurvives`: ids of ten bits and sub-clients of two are read from a header as written.

The frame is laid out payload by payload (`LaidOut`), each one is found where it was put (`FirstAreWhole`), read there as what it is (`WholeIsRead`), and where the last whole one ends the loop ends
too (`LoopEnds`). A header is one token here: a frame from elsewhere whose header is longer than its sub-packet is not the subject of these theorems.

Only model-checked: the liveness properties (TLAPS does not do fairness here); and the properties of `PacketExchange`, but for what `BatchFrame_proof` says of the frame: `WireFormat` interprets
the packets with RECURSIVE operators, and what it returns for a value of any depth needs an induction over data that these provers do not have.

## 5. What is not modelled, and the plan

Left out for good: system calls of the socket, cryptography and compression algorithms, logging, wording and layout of the
examples, the programs under `src/tools` and `src/tests`. `NoFreeIncomingConnections` is not sent in the model because no peer handles it. Unconnected pings
carry no state. `Encryption::disable` and the variants of `setCompression` and `setEncryption` that take an object of the user's have no caller.

Not modelled yet, in the order of the plan:

1. NBT: tags within tags, with the limits of its reader.
2. The bit level of `raknet/bitstream.hpp`, and the layout of the offline messages of the handshake.
3. What the example server does with packets of a spawned client.
4. *Ping timer*: which connections a peer with several connections pings; latency.

Nothing of the safety of `RakNetPeer`, `LoginFlow`, the channels and the varints that a run checks is left to prove.
