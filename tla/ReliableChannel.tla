-------------------------- MODULE ReliableChannel ---------------------------
(***************************************************************************)
(* One direction of an established RakNet connection: the sending half of  *)
(* one ReliabilityLayer, the receiving half of the other, and the UDP      *)
(* network between them, which loses, duplicates and reorders.             *)
(*                                                                         *)
(* Peer::tick receives everything the socket holds and then runs the       *)
(* maintenance of each connection.  What the socket holds cannot be seen,  *)
(* so a tick is modelled by its steps: one per datagram received, one for  *)
(* the ACK, one for the queued datagrams, one for the timed-out ones.      *)
(*                                                                         *)
(* A datagram carries one frame: every fragment but the last fills its     *)
(* datagram, so buildDatagrams never packs two frames of one message       *)
(* (module Framing).                                                       *)
(***************************************************************************)
EXTENDS ReliabilityLayer

CONSTANTS
    Channel,        \* the ordering channels in use
    Message,        \* the messages the application sends
    Fragments,      \* Fragments[m]: how many fragments splitMessage makes of m
    MaxMessages,    \* bound on the messages sent
    MaxDatagrams,   \* bound on the datagrams numbered by the sender
    MaxPings,       \* bound on the pings and pongs among them
    MaxLosses,      \* bound on what the network loses
    MaxDuplicates,  \* bound on the datagrams it delivers twice
    PeerNaks,       \* does the remote peer send NAKs? (this library never does)
    Patient         \* do timeouts wait until nothing is in flight?

ASSUME ChannelAssumption == Channel \subseteq 0 .. (NUM_ORDERING_CHANNELS - 1)
ASSUME FragmentsAssumption == Fragments \in [Message -> Nat \ {0}]
ASSUME BoundsAssumption ==
    /\ MaxMessages \in Nat /\ MaxDatagrams \in Nat /\ MaxPings \in Nat
    /\ MaxLosses \in Nat /\ MaxDuplicates \in Nat
ASSUME PeerAssumption == PeerNaks \in BOOLEAN /\ Patient \in BOOLEAN

VARIABLES
    (* the sender *)
    send_sequence_number,   \* number of the next datagram
    send_reliable_index,    \* reliable messages sent so far
    send_ordering_index,    \* per channel, index of the next message
    send_split_id,          \* id of the next split message
    sent_datagrams,         \* datagrams awaiting an ACK: number |-> frame
    pending_send,           \* datagrams queued for the next tick
    (* the receiver *)
    received_sequences,     \* numbers received since the last ACK was sent
    pending,                \* incomplete split messages, by split_id
    channels,               \* per channel, next index expected and what waits
    (* the network *)
    net,                    \* datagrams in flight
    acks,                   \* ACKs in flight, each the set of its ranges
    (* history and budgets *)
    sent,                   \* per channel, the messages sent
    delivered,              \* per channel, the bodies handed to the user
    pings, losses, duplicates

sender == <<send_sequence_number, send_reliable_index, send_ordering_index,
            send_split_id, sent_datagrams, pending_send, sent, pings>>
receiver == <<received_sequences, pending, channels, delivered>>
network == <<net, acks, losses, duplicates>>
vars == <<sender, receiver, network>>

-----------------------------------------------------------------------------
(* The body of a message is its fragments in order, a fragment a pair of   *)
(* the message and its position.                                           *)
Body(m) == [i \in 0 .. (Fragments[m] - 1) |-> <<m, i>>]

(* splitMessage: the frames of entry, the nth message of channel c. *)
SplitMessage(c, n, entry) ==
    [i \in 0 .. (Fragments[entry.message] - 1) |->
        IF Fragments[entry.message] = 1
          THEN WholeFrame(c, n, Body(entry.message))
          ELSE SplitFrame(c, n, Fragments[entry.message], entry.split_id, i,
                          <<entry.message, i>>)]

(* buildDatagrams: the frames get consecutive datagram numbers. *)
BuildDatagrams(frames, first) ==
    [n \in {first + i : i \in DOMAIN frames} |-> frames[n - first]]

(* Put datagrams on the wire. *)
OnTheWire(datagrams) == {Encode(n, datagrams[n]) : n \in DOMAIN datagrams}

Init ==
    /\ send_sequence_number = 0
    /\ send_reliable_index = 0
    /\ send_ordering_index = [c \in Channel |-> 0]
    /\ send_split_id = 0
    /\ sent_datagrams = EmptyMap
    /\ pending_send = <<>>
    /\ received_sequences = {}
    /\ pending = EmptyMap
    /\ channels = [c \in Channel |->
                     [expected_index |-> 0, buffered |-> EmptyMap]]
    /\ net = {}
    /\ acks = {}
    /\ sent = [c \in Channel |-> <<>>]
    /\ delivered = [c \in Channel |-> <<>>]
    /\ pings = 0 /\ losses = 0 /\ duplicates = 0

-----------------------------------------------------------------------------
(* Peer::sendGamePacket: split, number, record and send, in one call. *)
Send(c, m) ==
    LET entry == [message |-> m, split_id |-> send_split_id]
        datagrams == BuildDatagrams(
                        SplitMessage(c, send_ordering_index[c], entry),
                        send_sequence_number)
    IN  /\ send_reliable_index < MaxMessages
        /\ send_sequence_number + Fragments[m] <= MaxDatagrams
        /\ send_reliable_index' = send_reliable_index + 1
        /\ send_ordering_index' = [send_ordering_index EXCEPT ![c] = @ + 1]
        /\ send_split_id' = IF Fragments[m] = 1 THEN send_split_id
                            ELSE (send_split_id + 1) % SplitMod
        /\ send_sequence_number' = send_sequence_number + Fragments[m]
        /\ sent_datagrams' = Merge(sent_datagrams, datagrams)
        /\ net' = net \union OnTheWire(datagrams)
        /\ sent' = [sent EXCEPT ![c] = Append(@, entry)]
        /\ UNCHANGED <<receiver, pending_send, pings, acks, losses, duplicates>>

(* A ping of tick: an unreliable datagram, numbered but never recorded. *)
Ping ==
    /\ pings < MaxPings
    /\ send_sequence_number < MaxDatagrams
    /\ pings' = pings + 1
    /\ send_sequence_number' = send_sequence_number + 1
    /\ net' = net \union {Encode(send_sequence_number, PingFrame)}
    /\ UNCHANGED <<receiver, send_reliable_index, send_ordering_index,
                   send_split_id, sent_datagrams, pending_send, sent,
                   acks, losses, duplicates>>

(* A ConnectedPing of the peer was handled: its pong is queued. *)
QueuePong ==
    /\ pings < MaxPings
    /\ send_sequence_number < MaxDatagrams
    /\ pings' = pings + 1
    /\ send_sequence_number' = send_sequence_number + 1
    /\ pending_send' = Append(pending_send,
                         [number |-> send_sequence_number, frame |-> PingFrame])
    /\ UNCHANGED <<receiver, network, send_reliable_index, send_ordering_index,
                   send_split_id, sent_datagrams, sent>>

(* getPendingOutbound drains pending_send; what it sends is not recorded. *)
FlushPending ==
    /\ pending_send # <<>>
    /\ net' = net \union {Encode(d.number, d.frame) : d \in Range(pending_send)}
    /\ pending_send' = <<>>
    /\ UNCHANGED <<receiver, send_sequence_number, send_reliable_index,
                   send_ordering_index, send_split_id, sent_datagrams, sent,
                   pings, acks, losses, duplicates>>

(* processReceivedDatagram on an ACK. *)
ReceiveAck(a) ==
    /\ a \in acks
    /\ acks' = acks \ {a}
    /\ sent_datagrams' = ProcessAck(sent_datagrams, a)
    /\ UNCHANGED <<receiver, send_sequence_number, send_reliable_index,
                   send_ordering_index, send_split_id, pending_send, sent,
                   pings, net, losses, duplicates>>

(* ... and on a NAK for the recorded datagrams T: they are taken out of    *)
(* the table, renumbered and queued.  Only a foreign peer sends NAKs.      *)
ReceiveNak(T) ==
    LET again == Renumbered(sent_datagrams, T, send_sequence_number)
    IN  /\ PeerNaks
        /\ T \subseteq DOMAIN sent_datagrams
        /\ T # {}
        /\ send_sequence_number + Cardinality(T) <= MaxDatagrams
        /\ send_sequence_number' = send_sequence_number + Cardinality(T)
        /\ sent_datagrams' = Remove(sent_datagrams, T)
        /\ pending_send' = pending_send \o
              [i \in 1 .. Cardinality(T) |->
                 [number |-> send_sequence_number + i - 1,
                  frame |-> again[send_sequence_number + i - 1]]]
        /\ UNCHANGED <<receiver, network, send_reliable_index,
                       send_ordering_index, send_split_id, sent, pings>>

(* tick resends the datagrams older than a second under new numbers and    *)
(* records them again.  Recording times grow with the numbers, so the ones *)
(* that are old enough are those below some number.                        *)
TimedOut(k) == {s \in DOMAIN sent_datagrams : s < k}

Timeout(k) ==
    LET again == Renumbered(sent_datagrams, TimedOut(k), send_sequence_number)
    IN  /\ TimedOut(k) # {}
        /\ Patient => net = {} /\ acks = {} /\ received_sequences = {}
        /\ send_sequence_number + Cardinality(TimedOut(k)) <= MaxDatagrams
        /\ send_sequence_number' =
              send_sequence_number + Cardinality(TimedOut(k))
        /\ sent_datagrams' = Merge(Remove(sent_datagrams, TimedOut(k)), again)
        /\ net' = net \union OnTheWire(again)
        /\ UNCHANGED <<receiver, send_reliable_index, send_ordering_index,
                       send_split_id, pending_send, sent, pings, acks, losses,
                       duplicates>>

-----------------------------------------------------------------------------
(* processReceivedFrame on a reliable-ordered frame: assembly, ordering,   *)
(* and the bodies that became due handed up.                               *)
ProcessOrderedFrame(f) ==
    LET c == f.ordering_channel
        added == AddFragment(pending, f)
    IN  /\ pending' = added.pending
        /\ \/ added.assembled = {} /\ UNCHANGED <<channels, delivered>>
           \/ \E body \in added.assembled :
                LET o == ProcessOrdered(channels[c], f.ordering_index, body)
                IN  /\ channels' = [channels EXCEPT ![c] = o.state]
                    /\ delivered' = [delivered EXCEPT ![c] = @ \o o.ready]

(* Mutant: a datagram whose message is old is not acknowledged again. *)
TakeUnlessOld(d) ==
    \/ /\ d.frame.ordering_index < channels[d.frame.ordering_channel].expected_index
       /\ UNCHANGED <<received_sequences, pending, channels, delivered>>
    \/ /\ d.frame.ordering_index >= channels[d.frame.ordering_channel].expected_index
       /\ received_sequences' = received_sequences \union {d.sequence_number}
       /\ ProcessOrderedFrame(d.frame)

(* processReceivedDatagram on data: note the number for the ACK, then      *)
(* process the frame.  A ping changes nothing in this direction.           *)
Take(d) ==
    /\ received_sequences' = received_sequences \union {d.sequence_number}
    /\ \/ /\ d.frame.reliability = "Unreliable"
          /\ UNCHANGED <<pending, channels, delivered>>
       \/ /\ d.frame.reliability = "ReliableOrdered"
          /\ ProcessOrderedFrame(d.frame)

Receive(d) ==
    /\ d \in net
    /\ net' = net \ {d}
    /\ Take(d)
    /\ UNCHANGED <<sender, acks, losses, duplicates>>

(* The network delivers d and keeps a copy to deliver later. *)
Duplicate(d) ==
    /\ d \in net
    /\ duplicates < MaxDuplicates
    /\ duplicates' = duplicates + 1
    /\ Take(d)
    /\ UNCHANGED <<sender, net, acks, losses>>

(* getPendingOutbound acknowledges everything received since the last ACK. *)
FlushAcks ==
    /\ received_sequences # {}
    /\ acks' = acks \union {BuildAck(received_sequences)}
    /\ received_sequences' = {}
    /\ UNCHANGED <<sender, pending, channels, delivered, net, losses, duplicates>>

LoseDatagram(d) ==
    /\ d \in net
    /\ losses < MaxLosses
    /\ losses' = losses + 1
    /\ net' = net \ {d}
    /\ UNCHANGED <<sender, receiver, acks, duplicates>>

LoseAck(a) ==
    /\ a \in acks
    /\ losses < MaxLosses
    /\ losses' = losses + 1
    /\ acks' = acks \ {a}
    /\ UNCHANGED <<sender, receiver, net, duplicates>>

-----------------------------------------------------------------------------
SendSome == \E c \in Channel, m \in Message : Send(c, m)
ReceiveSome == \E d \in net : Receive(d)
ReceiveAckSome == \E a \in acks : ReceiveAck(a)
NakSome == \E T \in SUBSET DOMAIN sent_datagrams : ReceiveNak(T)
TimeoutSome == \E s \in DOMAIN sent_datagrams : Timeout(s + 1)

Next ==
    \/ SendSome
    \/ Ping
    \/ QueuePong
    \/ FlushPending
    \/ ReceiveSome
    \/ \E d \in net : Duplicate(d)
    \/ FlushAcks
    \/ ReceiveAckSome
    \/ NakSome
    \/ TimeoutSome
    \/ \E d \in net : LoseDatagram(d)
    \/ \E a \in acks : LoseAck(a)

Spec == Init /\ [][Next]_vars

(* Both ends call tick forever, and each tick receives all there is, sends *)
(* the ACK and the queue, and resends what is old.  Nothing obliges the    *)
(* application to send or the network to lose.                             *)
Fairness ==
    /\ WF_vars(ReceiveSome)
    /\ WF_vars(FlushAcks)
    /\ WF_vars(ReceiveAckSome)
    /\ WF_vars(FlushPending)
    /\ WF_vars(TimeoutSome)

FairSpec == Spec /\ Fairness

-----------------------------------------------------------------------------
Bodies == {Body(m) : m \in Message}

Frame ==
    {PingFrame} \union
    [reliability : {"ReliableOrdered"}, ordering_channel : Channel,
     ordering_index : Nat, is_split : BOOLEAN, split_count : Nat,
     split_id : Nat, split_index : Nat,
     body : Bodies \union (Message \X Nat)]

(* Every variable has its type: the tables are keyed by numbers handed out *)
(* before, what is on the wire fits it, the bounds are kept.               *)
TypeOK ==
    /\ send_sequence_number \in 0 .. MaxDatagrams
    /\ send_reliable_index \in 0 .. MaxMessages
    /\ send_ordering_index \in [Channel -> Nat]
    /\ send_split_id \in 0 .. (SplitMod - 1)
    /\ DOMAIN sent_datagrams \subseteq 0 .. (send_sequence_number - 1)
    /\ \A s \in DOMAIN sent_datagrams : sent_datagrams[s] \in Frame
    /\ pending_send \in Seq([number : 0 .. MaxDatagrams, frame : Frame])
    /\ received_sequences \subseteq 0 .. (NumberMod - 1)
    /\ \A id \in DOMAIN pending :
          /\ pending[id].total_count \in Nat
          /\ DOMAIN pending[id].fragments \subseteq Nat
    /\ DOMAIN channels = Channel
    /\ \A c \in Channel :
          /\ DOMAIN channels[c] = {"expected_index", "buffered"}
          /\ channels[c].expected_index \in Nat
          /\ DOMAIN channels[c].buffered \subseteq Nat
          /\ IsFiniteSet(DOMAIN channels[c].buffered)
    /\ delivered = [c \in Channel |-> delivered[c]]
    /\ net \subseteq [sequence_number : 0 .. (NumberMod - 1), frame : Frame]
    /\ acks \subseteq SUBSET ((0 .. (NumberMod - 1)) \X (0 .. (NumberMod - 1)))
    /\ sent \in [Channel -> Seq([message : Message, split_id : 0 .. (SplitMod - 1)])]
    /\ pings \in 0 .. MaxPings
    /\ losses \in 0 .. MaxLosses
    /\ duplicates \in 0 .. MaxDuplicates

(* What the user of channel c has been handed is, in order, the bodies of  *)
(* the first messages sent on c: none is missing, repeated, reordered or   *)
(* assembled from fragments of another one.                                *)
InOrderDelivery ==
    \A c \in Channel :
        /\ Len(delivered[c]) <= Len(sent[c])
        /\ \A n \in 1 .. Len(delivered[c]) :
              delivered[c][n] = Body(sent[c][n].message)

(* Fragment i of the nth message of channel c is with the receiver: the    *)
(* message was delivered or waits for its turn, or the fragment waits for  *)
(* the others.                                                             *)
Processed(c, n, i) ==
    LET entry == sent[c][n + 1]
    IN  \/ n < channels[c].expected_index
        \/ n \in DOMAIN channels[c].buffered
        \/ /\ Fragments[entry.message] > 1
           /\ entry.split_id \in DOMAIN pending
           /\ i \in DOMAIN pending[entry.split_id].fragments

(* ... or the sender still holds the frame, so as to send it (again). *)
Held(f) ==
    \/ f \in Range(sent_datagrams)
    \/ \E d \in Range(pending_send) : d.frame = f

(* No fragment of a message is ever dropped by both ends: until the        *)
(* receiver has it, the sender keeps it "awaiting ACK" or queued.  An ACK  *)
(* that runs ahead of processing, or a resend that is not recorded again,  *)
(* would lose a message, and stall its channel, for good.                  *)
NothingForgotten ==
    \A c \in Channel : \A n \in 0 .. (Len(sent[c]) - 1) :
        \A i \in 0 .. (Fragments[sent[c][n + 1].message] - 1) :
            \/ Processed(c, n, i)
            \/ Held(SplitMessage(c, n, sent[c][n + 1])[i])

(* Once nothing is on its way, and nothing was lost, nothing awaits an ACK: *)
(* the number a datagram is recorded under is the one its ACK will name,   *)
(* through every renumbering, duplicate and batching of ACKs.              *)
QuietMeansAcknowledged ==
    (/\ net = {} /\ pending_send = <<>>
     /\ received_sequences = {} /\ acks = {}
     /\ losses = 0)
    => DOMAIN sent_datagrams = {}

(* Seen by its users the connection is an ordered stream per channel. *)
Stream == INSTANCE OrderedStream
    WITH Payload <- {Body(m) : m \in Message},
         sent <- [c \in Channel |->
                    [n \in 1 .. Len(sent[c]) |-> Body(sent[c][n].message)]]

StreamSafety == Stream!Safety

(* The whole promise, with "every message sent is delivered in the end". *)
ImplementsOrderedStream == Stream!Spec

(* Retransmission ends: again and again the sender has nothing left that   *)
(* awaits an ACK.                                                          *)
EventuallyAcknowledged == []<>(DOMAIN sent_datagrams = {})
=============================================================================
