--------------------------- MODULE MixedChannel ----------------------------
(***************************************************************************)
(* ReliabilityLayer with every kind of reliability it offers on the same   *)
(* ordering channels: createFrame and splitMessage number a message, and   *)
(* processReceivedFrame sends what arrives through assembly, ordering,     *)
(* sequencing or nothing.  RakNetPeer itself sends reliable-ordered game   *)
(* packets and unreliable pings, a peer of another make sends the others.  *)
(*                                                                         *)
(* As there, what is reliable is recorded and resent, a datagram carries   *)
(* one frame, and the network loses, duplicates and reorders.  An ACK      *)
(* arrives at once or is lost.  Datagram numbers and indices travel as     *)
(* they are: unlike in ReliableChannel, nothing here is said of what       *)
(* happens when their 24 bits come round.                                  *)
(***************************************************************************)
EXTENDS ReliabilityLayer, Framing

CONSTANTS
    Channel,        \* the ordering channels in use
    Kind,           \* the reliabilities in use
    MaxFragments,   \* of a message
    MaxMessages,    \* bound on the messages sent
    MaxDatagrams,   \* bound on the datagrams numbered by the sender
    MaxLosses,      \* bound on what the network loses
    MaxDuplicates   \* bound on the datagrams it delivers twice

ASSUME ChannelAssumption == Channel \subseteq 0 .. (NUM_ORDERING_CHANNELS - 1)
ASSUME BoundsAssumption ==
    /\ MaxFragments \in Nat /\ MaxMessages \in Nat /\ MaxDatagrams \in Nat
    /\ MaxLosses \in Nat /\ MaxDuplicates \in Nat

VARIABLES
    messages,               \* what was sent: [reliability, channel, fragments]
    send_sequence_number,
    send_ordering_index,    \* per channel
    send_sequencing_index,  \* per channel
    send_split_id,
    sent_datagrams,         \* datagrams awaiting an ACK: number |-> frame
    received_sequences,     \* numbers received since the last ACK
    pending,                \* incomplete split messages, by split_id
    channels,               \* per channel, next index expected and what waits
    highest_sequenced,      \* per channel, the sequencing index expected
    net,                    \* datagrams in flight
    delivered,              \* the bodies handed to the user, oldest first
    losses, duplicates

sender == <<messages, send_sequence_number, send_ordering_index,
            send_sequencing_index, send_split_id, sent_datagrams>>
receiver == <<received_sequences, pending, channels, highest_sequenced, delivered>>
vars == <<sender, receiver, net, losses, duplicates>>

-----------------------------------------------------------------------------
\* The body of the nth message is its fragments in order.
Body(n, fragments) == [i \in 0 .. (fragments - 1) |-> <<n, i>>]

\* The indices of a message; 0 is what a frame has that needs none.
OrderingIndex(m) == IF IsOrdered(m.reliability) THEN send_ordering_index[m.channel] ELSE 0

SequencingIndex(m) ==
    IF IsSequenced(m.reliability) THEN send_sequencing_index[m.channel] ELSE 0

\* Mutant: the fragments of all messages have the same split_id.
SplitIdAlways == 0

SplitId == send_split_id

\* createFrame, or the frames of splitMessage: all of a group get its indices.
FrameOf(m, n, i) ==
    [reliability |-> m.reliability, ordering_channel |-> m.channel,
     ordering_index |-> OrderingIndex(m), sequencing_index |-> SequencingIndex(m),
     is_split |-> m.fragments > 1, split_count |-> m.fragments,
     split_id |-> SplitId, split_index |-> i,
     body |-> IF m.fragments > 1 THEN <<n, i>> ELSE Body(n, 1)]

Frames(m, n) ==
    [k \in send_sequence_number .. (send_sequence_number + m.fragments - 1) |->
        FrameOf(m, n, k - send_sequence_number)]

OnTheWire(datagrams) ==
    {[sequence_number |-> k, frame |-> datagrams[k]] : k \in DOMAIN datagrams}

Init ==
    /\ messages = <<>>
    /\ send_sequence_number = 0
    /\ send_ordering_index = [c \in Channel |-> 0]
    /\ send_sequencing_index = [c \in Channel |-> 0]
    /\ send_split_id = 0
    /\ sent_datagrams = EmptyMap
    /\ received_sequences = {}
    /\ pending = EmptyMap
    /\ channels = [c \in Channel |-> [expected_index |-> 0, buffered |-> EmptyMap]]
    /\ highest_sequenced = [c \in Channel |-> 0]
    /\ net = {}
    /\ delivered = <<>>
    /\ losses = 0 /\ duplicates = 0

Send(m) ==
    LET datagrams == Frames(m, Len(messages) + 1)
    IN  /\ Len(messages) < MaxMessages
        /\ send_sequence_number + m.fragments <= MaxDatagrams
        /\ messages' = Append(messages, m)
        /\ send_sequence_number' = send_sequence_number + m.fragments
        /\ send_ordering_index' = IF IsOrdered(m.reliability)
              THEN [send_ordering_index EXCEPT ![m.channel] = @ + 1]
              ELSE send_ordering_index
        /\ send_sequencing_index' = IF IsSequenced(m.reliability)
              THEN [send_sequencing_index EXCEPT ![m.channel] = @ + 1]
              ELSE send_sequencing_index
        /\ send_split_id' = IF m.fragments > 1 THEN (send_split_id + 1) % SplitMod
                            ELSE send_split_id
        /\ sent_datagrams' = IF IsReliable(m.reliability)
              THEN Merge(sent_datagrams, datagrams) ELSE sent_datagrams
        /\ net' = net \union OnTheWire(datagrams)
        /\ UNCHANGED <<receiver, losses, duplicates>>

SendSome ==
    \E m \in [reliability : Kind, channel : Channel, fragments : 1 .. MaxFragments] :
        Send(m)

\* The recorded datagrams below k are resent under new numbers.
Timeout(k) ==
    LET old == {s \in DOMAIN sent_datagrams : s < k}
        again == Renumbered(sent_datagrams, old, send_sequence_number)
    IN  /\ old # {}
        /\ send_sequence_number + Cardinality(old) <= MaxDatagrams
        /\ send_sequence_number' = send_sequence_number + Cardinality(old)
        /\ sent_datagrams' = Merge(Remove(sent_datagrams, old), again)
        /\ net' = net \union OnTheWire(again)
        /\ UNCHANGED <<receiver, messages, send_ordering_index,
                       send_sequencing_index, send_split_id, losses, duplicates>>

-----------------------------------------------------------------------------
\* Mutants: the index is compared as if highest were the last one, not the next;
\* the last one is taken for new again.
IsNewerThanLast(index, highest) == index > highest \/ highest = 0
IsNotOlder(index, highest) == index + 1 >= highest

\* processSequenced: newer than everything of the channel before?
IsNewer(index, highest) == index >= highest \/ highest = 0

\* processReceivedFrame once the body is assembled.
ProcessSequenced(f, body) ==
    /\ \/ /\ IsNewer(f.sequencing_index, highest_sequenced[f.ordering_channel])
          /\ highest_sequenced' =
                [highest_sequenced EXCEPT ![f.ordering_channel] = f.sequencing_index + 1]
          /\ delivered' = Append(delivered, body)
       \/ /\ ~ IsNewer(f.sequencing_index, highest_sequenced[f.ordering_channel])
          /\ UNCHANGED <<highest_sequenced, delivered>>
    /\ UNCHANGED channels

ProcessOrderedBody(f, body) ==
    LET o == ProcessOrdered(channels[f.ordering_channel], f.ordering_index, body)
    IN  /\ channels' = [channels EXCEPT ![f.ordering_channel] = o.state]
        /\ delivered' = delivered \o o.ready
        /\ UNCHANGED highest_sequenced

DeliverNow(body) ==
    /\ delivered' = Append(delivered, body)
    /\ UNCHANGED <<channels, highest_sequenced>>

ProcessReceivedFrame(f) ==
    LET added == AddFragment(pending, f)
    IN  /\ pending' = added.pending
        /\ \/ /\ added.assembled = {}
              /\ UNCHANGED <<channels, highest_sequenced, delivered>>
           \/ \E body \in added.assembled :
                \/ IsSequenced(f.reliability) /\ ProcessSequenced(f, body)
                \/ /\ IsOrdered(f.reliability) /\ ~ IsSequenced(f.reliability)
                   /\ ProcessOrderedBody(f, body)
                \/ ~ IsOrdered(f.reliability) /\ DeliverNow(body)

Take(d) ==
    /\ received_sequences' = received_sequences \union {d.sequence_number}
    /\ ProcessReceivedFrame(d.frame)

Receive(d) ==
    /\ Take(d)
    /\ net' = net \ {d}
    /\ UNCHANGED <<sender, losses, duplicates>>

Duplicate(d) ==
    /\ duplicates < MaxDuplicates
    /\ duplicates' = duplicates + 1
    /\ Take(d)
    /\ UNCHANGED <<sender, net, losses>>

Lose(d) ==
    /\ losses < MaxLosses
    /\ losses' = losses + 1
    /\ net' = net \ {d}
    /\ UNCHANGED <<sender, receiver, duplicates>>

(* getPendingOutbound sends the ACK, once; it arrives, or it is lost.      *)
Acknowledge ==
    /\ received_sequences # {}
    /\ received_sequences' = {}
    /\ \/ /\ sent_datagrams' = ProcessAck(sent_datagrams, BuildAck(received_sequences))
          /\ UNCHANGED losses
       \/ /\ losses < MaxLosses
          /\ losses' = losses + 1
          /\ UNCHANGED sent_datagrams
    /\ UNCHANGED <<messages, send_sequence_number, send_ordering_index,
                   send_sequencing_index, send_split_id, pending, channels,
                   highest_sequenced, delivered, net, duplicates>>

Next ==
    \/ SendSome
    \/ \E s \in DOMAIN sent_datagrams : Timeout(s + 1)
    \/ \E d \in net : Receive(d) \/ Duplicate(d) \/ Lose(d)
    \/ Acknowledge

Spec == Init /\ [][Next]_vars

-----------------------------------------------------------------------------
MessageOf(body) == body[0][1]

\* The messages of S among those handed over in s come in the order of sending.
InOrder(s, S) ==
    \A i, j \in DOMAIN s :
        i < j /\ MessageOf(s[i]) \in S /\ MessageOf(s[j]) \in S
        => MessageOf(s[i]) < MessageOf(s[j])

Sequenced(c) ==
    {n \in DOMAIN messages :
        messages[n].channel = c /\ IsSequenced(messages[n].reliability)}

Ordered(c) ==
    {n \in DOMAIN messages :
        /\ messages[n].channel = c
        /\ IsOrdered(messages[n].reliability) /\ ~ IsSequenced(messages[n].reliability)}

\* Nothing is on the way any more, nothing will be resent.
Quiet == net = {} /\ sent_datagrams = EmptyMap /\ received_sequences = {}

WasDelivered(n) == \E i \in DOMAIN delivered : MessageOf(delivered[i]) = n

(* Every body handed over is the whole body of one message that was sent:  *)
(* fragments of an unreliable message that lost one stay in the assembler  *)
(* for ever, and never get into a later message.                           *)
BodiesIntact ==
    \A i \in DOMAIN delivered : \E n \in DOMAIN messages :
        delivered[i] = Body(n, messages[n].fragments)

(* What is sequenced on a channel is never handed over after something     *)
(* newer of the channel, nor twice, whole or split, resent or duplicated.  *)
SequencedNeverOlder == \A c \in Channel : InOrder(delivered, Sequenced(c))

(* A reliable sequenced message has been handed over in the end, or one of *)
(* its channel that is newer; a reliable one without order has been too.   *)
ReliableArrives ==
    Quiet => \A n \in DOMAIN messages :
        /\ messages[n].reliability \in {"Reliable", "ReliableWithAck"} => WasDelivered(n)
        /\ messages[n].reliability = "ReliableSequenced" =>
              \E k \in Sequenced(messages[n].channel) : k >= n /\ WasDelivered(k)

(* A sequenced message takes an ordering index of its channel that the     *)
(* receiver never counts: in the end an ordered message has been handed    *)
(* over, in order and once, exactly if nothing sequenced was sent on its   *)
(* channel before it.                                                      *)
OrderedUntilSequenced ==
    \A c \in Channel :
        /\ InOrder(delivered, Ordered(c))
        /\ Quiet => \A n \in Ordered(c) :
              WasDelivered(n) <=> \A k \in Sequenced(c) : k > n
=============================================================================
