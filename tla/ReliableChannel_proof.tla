----------------------- MODULE ReliableChannel_proof ------------------------
(***************************************************************************)
(* Proofs about ReliableChannel, for every value of its constants.         *)
(***************************************************************************)
EXTENDS ReliableChannel, ReliabilityLayer_proof

-----------------------------------------------------------------------------
(***************************************************************************)
(* Types of the frames and datagrams the sender builds.                    *)
(***************************************************************************)
Wire == [sequence_number : 0 .. (NumberMod - 1), frame : Frame]
Entry == [message : Message, split_id : 0 .. (SplitMod - 1)]

LEMMA EncodeType ==
    ASSUME NEW n \in Nat, NEW f \in Frame
    PROVE  Encode(n, f) \in Wire
<1>1. n % NumberMod \in 0 .. (NumberMod - 1)
  BY ModuliAssumption
<1>2. CASE f = PingFrame
  BY <1>1, <1>2 DEF Encode, Wire, Frame, PingFrame
<1>3. CASE f # PingFrame
  <2>1. f.ordering_index % IndexMod \in Nat
    BY <1>3, ModuliAssumption DEF Frame
  <2>2. [f EXCEPT !.ordering_index = @ % IndexMod] \in Frame
    BY <1>3, <2>1 DEF Frame
  <2> QED BY <1>1, <1>3, <2>2 DEF Encode, Wire, Frame
<1> QED BY <1>2, <1>3

LEMMA SplitMessageType ==
    ASSUME NEW c \in Channel, NEW n \in Nat, NEW entry \in Entry
    PROVE  /\ DOMAIN SplitMessage(c, n, entry) = 0 .. (Fragments[entry.message] - 1)
           /\ Fragments[entry.message] \in Nat \ {0}
           /\ \A i \in DOMAIN SplitMessage(c, n, entry) :
                 /\ SplitMessage(c, n, entry)[i] \in Frame
                 /\ SplitMessage(c, n, entry)[i] # PingFrame
<1>1. entry.message \in Message /\ entry.split_id \in Nat
  BY ModuliAssumption DEF Entry
<1>2. Fragments[entry.message] \in Nat \ {0}
  BY <1>1, FragmentsAssumption
<1>3. DOMAIN SplitMessage(c, n, entry) = 0 .. (Fragments[entry.message] - 1)
  BY DEF SplitMessage
<1>4. ASSUME NEW i \in 0 .. (Fragments[entry.message] - 1)
      PROVE  /\ SplitMessage(c, n, entry)[i] \in Frame
             /\ SplitMessage(c, n, entry)[i] # PingFrame
  <2>1. i \in Nat
    BY <1>2
  <2>2. Body(entry.message) \in Bodies
    BY <1>1 DEF Bodies
  <2>3. CASE Fragments[entry.message] = 1
    <3>1. SplitMessage(c, n, entry)[i] = WholeFrame(c, n, Body(entry.message))
      BY <2>3, <1>4 DEF SplitMessage
    <3> QED BY <3>1, <2>2 DEF WholeFrame, Frame, PingFrame
  <2>4. CASE Fragments[entry.message] # 1
    <3>1. SplitMessage(c, n, entry)[i] =
            SplitFrame(c, n, Fragments[entry.message], entry.split_id, i,
                       <<entry.message, i>>)
      BY <2>4, <1>4 DEF SplitMessage
    <3> QED BY <3>1, <1>1, <1>2, <2>1 DEF SplitFrame, Frame, PingFrame
  <2> QED BY <2>3, <2>4
<1> QED BY <1>2, <1>3, <1>4

LEMMA BuildDatagramsType ==
    ASSUME NEW frames, NEW k \in Nat, NEW first \in Nat,
           DOMAIN frames = 0 .. (k - 1)
    PROVE  /\ DOMAIN BuildDatagrams(frames, first) = first .. (first + k - 1)
           /\ \A n \in first .. (first + k - 1) :
                 BuildDatagrams(frames, first)[n] = frames[n - first]
           /\ \A i \in 0 .. (k - 1) :
                 BuildDatagrams(frames, first)[first + i] = frames[i]
<1>1. {first + i : i \in 0 .. (k - 1)} = first .. (first + k - 1)
  <2>1. ASSUME NEW n \in first .. (first + k - 1)
        PROVE  n \in {first + i : i \in 0 .. (k - 1)}
    <3>1. n - first \in 0 .. (k - 1) /\ n = first + (n - first)
      OBVIOUS
    <3> QED BY <3>1
  <2> QED BY <2>1
<1>2. DOMAIN BuildDatagrams(frames, first) = first .. (first + k - 1)
  BY <1>1 DEF BuildDatagrams
<1>3. \A n \in first .. (first + k - 1) :
        BuildDatagrams(frames, first)[n] = frames[n - first]
  BY <1>1 DEF BuildDatagrams
<1>4. \A i \in 0 .. (k - 1) :
        first + i \in first .. (first + k - 1) /\ (first + i) - first = i
  OBVIOUS
<1> QED BY <1>2, <1>3, <1>4

LEMMA OnTheWireType ==
    ASSUME NEW g, DOMAIN g \subseteq Nat, \A n \in DOMAIN g : g[n] \in Frame
    PROVE  OnTheWire(g) \subseteq Wire
BY EncodeType DEF OnTheWire

(***************************************************************************)
(* Types on the receiving side.                                            *)
(***************************************************************************)
PendingType(p) ==
    \A id \in DOMAIN p :
        /\ p[id].total_count \in Nat
        /\ DOMAIN p[id].fragments \subseteq Nat

LEMMA AddFragmentType ==
    ASSUME NEW p, PendingType(p), NEW f \in Frame, f # PingFrame
    PROVE  PendingType(AddFragment(p, f).pending)
<1> DEFINE entry == PendingSplit(p, f)
<1>1. f.split_index \in Nat /\ f.split_count \in Nat
  BY DEF Frame
<1>2. /\ entry.total_count = f.split_count
      /\ entry.fragments = Put(FragmentsOf(p, f.split_id), f.split_index, f.body)
  BY DEF PendingSplit
<1>3. DOMAIN FragmentsOf(p, f.split_id) \subseteq Nat
  BY DEF FragmentsOf, EmptyMap, PendingType
<1>4. entry.total_count \in Nat /\ DOMAIN entry.fragments \subseteq Nat
  BY <1>1, <1>2, <1>3 DEF Put
<1>5. CASE ~ f.is_split
  BY <1>5 DEF AddFragment
<1>6. CASE f.is_split /\ IsComplete(entry)
  <2>1. AddFragment(p, f).pending = Remove(p, {f.split_id})
    BY <1>6 DEF AddFragment
  <2> QED BY <2>1 DEF Remove, Restrict, PendingType
<1>7. CASE f.is_split /\ ~ IsComplete(entry)
  <2>1. AddFragment(p, f).pending = Put(p, f.split_id, entry)
    BY <1>7 DEF AddFragment
  <2> HIDE DEF entry
  <2> QED BY <1>4, <2>1 DEF Put, PendingType
<1> QED BY <1>5, <1>6, <1>7

-----------------------------------------------------------------------------
(***************************************************************************)
(* Type correctness.                                                       *)
(***************************************************************************)
LEMMA TypeInit == Init => TypeOK
<1> SUFFICES ASSUME Init PROVE TypeOK
  OBVIOUS
<1>1. \A c \in Channel : ChannelState(channels[c])
  BY FS_EmptySet DEF Init, ChannelState, EmptyMap
<1>2. DOMAIN channels = Channel
  BY DEF Init
<1>3. pending_send \in Seq([number : 0 .. MaxDatagrams, frame : Frame])
  BY DEF Init
<1>4. send_split_id \in 0 .. (SplitMod - 1)
  BY ModuliAssumption DEF Init
<1> QED BY <1>1, <1>2, <1>3, <1>4, BoundsAssumption
        DEF Init, TypeOK, ChannelState, EmptyMap

(* Taking in a datagram keeps the types of the receiver's variables. *)
ReceiverType ==
    /\ received_sequences \subseteq 0 .. (NumberMod - 1)
    /\ PendingType(pending)
    /\ DOMAIN channels = Channel
    /\ delivered = [c \in Channel |-> delivered[c]]
    /\ \A c \in Channel : ChannelState(channels[c])

LEMMA TypeTake ==
    ASSUME TypeOK, NEW d \in net, Take(d)
    PROVE  ReceiverType'
<1>1. d \in Wire
  BY DEF TypeOK, Wire
<1>2. received_sequences' \subseteq 0 .. (NumberMod - 1)
  BY <1>1 DEF TypeOK, Take, Wire
<1>3. delivered' = [c \in Channel |-> delivered'[c]]
  BY DEF TypeOK, Take, ProcessOrderedFrame
<1>4. CASE UNCHANGED <<pending, channels>>
  BY <1>2, <1>4, <1>3 DEF TypeOK, ReceiverType, PendingType, ChannelState
<1>5. CASE d.frame.reliability = "ReliableOrdered" /\ ProcessOrderedFrame(d.frame)
  <2> DEFINE f == d.frame
             c == f.ordering_channel
             added == AddFragment(pending, f)
  <2>1. /\ f \in Frame /\ f # PingFrame
        /\ f.ordering_channel \in Channel
        /\ f.ordering_index \in Nat
    BY <1>1, <1>5 DEF Wire, Frame, PingFrame
  <2>2. PendingType(pending)'
    BY <1>5, <2>1, AddFragmentType DEF TypeOK, PendingType, ProcessOrderedFrame
  <2>3. CASE UNCHANGED channels
    BY <1>2, <1>3, <2>2, <2>3 DEF TypeOK, ReceiverType, ChannelState
  <2>4. ASSUME NEW body,
               channels' = [channels EXCEPT ![c] =
                  ProcessOrdered(channels[c], f.ordering_index, body).state]
        PROVE  ReceiverType'
    <3>1. ChannelState(ProcessOrdered(channels[c], f.ordering_index, body).state)
      BY <2>1, ProcessOrderedType DEF TypeOK, ChannelState
    <3>2. \A k \in Channel : ChannelState(channels'[k])
      BY <2>1, <2>4, <3>1 DEF TypeOK, ChannelState
    <3>3. DOMAIN channels' = Channel
      BY <2>4 DEF TypeOK
    <3> QED BY <1>2, <1>3, <2>2, <3>2, <3>3 DEF ReceiverType
  <2> QED BY <1>5, <2>3, <2>4 DEF ProcessOrderedFrame
<1> QED BY <1>4, <1>5 DEF Take

LEMMA TypeSend ==
    ASSUME TypeOK, NEW c \in Channel, NEW m \in Message, Send(c, m)
    PROVE  TypeOK'
<1> DEFINE entry == [message |-> m, split_id |-> send_split_id]
           frames == SplitMessage(c, send_ordering_index[c], entry)
           datagrams == BuildDatagrams(frames, send_sequence_number)
           F == Fragments[m]
<1>1. /\ entry \in Entry
      /\ send_ordering_index[c] \in Nat
      /\ send_sequence_number \in Nat
      /\ F \in Nat \ {0}
  BY FragmentsAssumption DEF TypeOK, Entry
<1>2. /\ DOMAIN frames = 0 .. (F - 1)
      /\ \A i \in 0 .. (F - 1) : frames[i] \in Frame
  BY <1>1, SplitMessageType
<1>3. /\ DOMAIN datagrams = send_sequence_number .. (send_sequence_number + F - 1)
      /\ \A n \in DOMAIN datagrams : datagrams[n] \in Frame
  <2>1. /\ DOMAIN datagrams = send_sequence_number .. (send_sequence_number + F - 1)
        /\ \A n \in send_sequence_number .. (send_sequence_number + F - 1) :
              datagrams[n] = frames[n - send_sequence_number]
    <3> HIDE DEF frames, F
    <3> QED BY <1>1, <1>2, BuildDatagramsType
  <2>2. \A n \in send_sequence_number .. (send_sequence_number + F - 1) :
              n - send_sequence_number \in 0 .. (F - 1)
    <3> HIDE DEF F
    <3> QED BY <1>1
  <2> HIDE DEF frames, datagrams, F
  <2> QED BY <1>2, <2>1, <2>2
<1>4. OnTheWire(datagrams) \subseteq Wire
  <2> HIDE DEF datagrams, F
  <2>1. DOMAIN datagrams \subseteq Nat
    BY <1>1, <1>3
  <2> QED BY <1>3, <2>1, OnTheWireType
<1>5. /\ sent_datagrams' = Merge(sent_datagrams, datagrams)
      /\ net' = net \union OnTheWire(datagrams)
      /\ send_sequence_number' = send_sequence_number + F
      /\ send_sequence_number + F <= MaxDatagrams
      /\ send_reliable_index < MaxMessages
      /\ send_reliable_index' = send_reliable_index + 1
      /\ sent' = [sent EXCEPT ![c] = Append(@, entry)]
  BY DEF Send
<1>6. /\ DOMAIN sent_datagrams' \subseteq 0 .. (send_sequence_number' - 1)
      /\ \A s \in DOMAIN sent_datagrams' : sent_datagrams'[s] \in Frame
  <2>1. /\ DOMAIN sent_datagrams \subseteq 0 .. (send_sequence_number - 1)
        /\ \A s \in DOMAIN sent_datagrams : sent_datagrams[s] \in Frame
    BY DEF TypeOK
  <2> HIDE DEF datagrams, F
  <2>2. /\ DOMAIN sent_datagrams' = DOMAIN sent_datagrams \union DOMAIN datagrams
        /\ \A s \in DOMAIN sent_datagrams' : sent_datagrams'[s] \in Frame
    BY <1>3, <1>5, <2>1 DEF Merge
  <2> QED BY <1>1, <1>3, <1>5, <2>1, <2>2
<1>7. send_sequence_number' \in 0 .. MaxDatagrams
  BY <1>1, <1>5, BoundsAssumption
<1>8. send_split_id' \in 0 .. (SplitMod - 1)
  <2>1. send_split_id \in 0 .. (SplitMod - 1)
    BY DEF TypeOK
  <2>2. \/ send_split_id' = send_split_id
        \/ send_split_id' = (send_split_id + 1) % SplitMod
    BY DEF Send
  <2> QED BY <2>1, <2>2, ModuliAssumption
<1>9. sent' \in [Channel -> Seq(Entry)]
  <2> HIDE DEF entry
  <2>1. sent \in [Channel -> Seq(Entry)]
    BY DEF TypeOK, Entry
  <2> QED BY <1>1, <1>5, <2>1
<1>10. send_reliable_index' \in 0 .. MaxMessages
  BY <1>5, BoundsAssumption DEF TypeOK
<1>11. send_ordering_index' \in [Channel -> Nat]
  BY DEF Send, TypeOK
<1>12. net' \subseteq Wire
  BY <1>4, <1>5 DEF TypeOK, Wire
<1>13. UNCHANGED <<receiver, pending_send, pings, acks, losses, duplicates>>
  BY DEF Send
<1> HIDE DEF entry, frames, datagrams, F
<1> QED BY <1>6, <1>7, <1>8, <1>9, <1>10, <1>11, <1>12, <1>13
        DEF TypeOK, receiver, Wire, Entry

(* Renumbering T and numbering on from there keeps the types. *)
LEMMA TypeRenumbered ==
    ASSUME TypeOK, NEW T, T \subseteq DOMAIN sent_datagrams
    PROVE  LET again == Renumbered(sent_datagrams, T, send_sequence_number)
           IN  /\ Cardinality(T) \in Nat
               /\ DOMAIN again =
                     send_sequence_number .. (send_sequence_number + Cardinality(T) - 1)
               /\ \A n \in DOMAIN again : again[n] \in Frame
               /\ OnTheWire(again) \subseteq Wire
<1> DEFINE again == Renumbered(sent_datagrams, T, send_sequence_number)
<1>1. send_sequence_number \in Nat
  BY DEF TypeOK
<1>2. T \subseteq Nat /\ IsFiniteSet(T)
  <2>1. T \subseteq 0 .. (send_sequence_number - 1)
    BY DEF TypeOK
  <2>2. IsFiniteSet(0 .. (send_sequence_number - 1))
    BY <1>1, FS_Interval
  <2>3. IsFiniteSet(T)
    BY <2>1, <2>2, FS_Subset
  <2> QED BY <1>1, <2>1, <2>3
<1>3. /\ DOMAIN again =
            send_sequence_number .. (send_sequence_number + Cardinality(T) - 1)
      /\ Cardinality(T) \in Nat
      /\ \A n \in DOMAIN again : \E s \in T : again[n] = sent_datagrams[s]
  <2>1. DOMAIN again =
            send_sequence_number .. (send_sequence_number + Cardinality(T) - 1)
    BY <1>1, <1>2, RenumberedDomain
  <2>2. Cardinality(T) \in Nat
    BY <1>2, FS_CardinalityType
  <2>3. \A n \in DOMAIN again : \E s \in T : again[n] = sent_datagrams[s]
    BY <1>1, <1>2, RenumberedAddsNone
  <2> QED BY <2>1, <2>2, <2>3
<1>4. \A n \in DOMAIN again : again[n] \in Frame
  BY <1>3 DEF TypeOK
<1>5. OnTheWire(again) \subseteq Wire
  <2> HIDE DEF again
  <2>1. DOMAIN again \subseteq Nat
    BY <1>1, <1>3
  <2> QED BY <1>4, <2>1, OnTheWireType
<1> QED BY <1>3, <1>4, <1>5

LEMMA TypeNak ==
    ASSUME TypeOK, NEW T, ReceiveNak(T)
    PROVE  TypeOK'
<1> DEFINE again == Renumbered(sent_datagrams, T, send_sequence_number)
           C == Cardinality(T)
           R == [number : 0 .. MaxDatagrams, frame : Frame]
           queued == [i \in 1 .. C |->
                        [number |-> send_sequence_number + i - 1,
                         frame |-> again[send_sequence_number + i - 1]]]
<1>1. /\ T \subseteq DOMAIN sent_datagrams
      /\ send_sequence_number + C <= MaxDatagrams
      /\ send_sequence_number' = send_sequence_number + C
      /\ sent_datagrams' = Remove(sent_datagrams, T)
      /\ pending_send' = pending_send \o queued
      /\ UNCHANGED <<receiver, network, send_reliable_index,
                     send_ordering_index, send_split_id, sent, pings>>
  BY DEF ReceiveNak
<1>2. send_sequence_number \in Nat /\ pending_send \in Seq(R)
  BY DEF TypeOK
<1>3. /\ C \in Nat
      /\ \A n \in DOMAIN again : again[n] \in Frame
  BY <1>1, TypeRenumbered
<1>4. DOMAIN again = send_sequence_number .. (send_sequence_number + C - 1)
  BY <1>1, TypeRenumbered
<1>5. queued \in Seq(R)
  <2>1. ASSUME NEW i \in 1 .. C
        PROVE  /\ send_sequence_number + i - 1 \in 0 .. MaxDatagrams
               /\ again[send_sequence_number + i - 1] \in Frame
    <3> HIDE DEF again, C
    <3>1. send_sequence_number + i - 1 \in
            send_sequence_number .. (send_sequence_number + C - 1)
      BY <1>2, <1>3
    <3>2. MaxDatagrams \in Nat
      BY BoundsAssumption
    <3>3. send_sequence_number + i - 1 <= MaxDatagrams
      BY <1>1, <1>2, <1>3, <3>1, <3>2
    <3>4. again[send_sequence_number + i - 1] \in Frame
      BY <1>3, <1>4, <3>1
    <3> QED BY <1>2, <3>2, <3>3, <3>4
  <2> HIDE DEF again, C
  <2>2. \A i \in 1 .. C : queued[i] \in R
    BY <2>1
  <2>3. queued \in [1 .. C -> R]
    BY <2>2
  <2> HIDE DEF queued, R
  <2> QED BY <1>3, <2>3
<1>6. pending_send' \in Seq(R)
  <2> HIDE DEF queued, R
  <2> QED BY <1>1, <1>2, <1>5
<1>7. send_sequence_number' \in 0 .. MaxDatagrams
  <2> HIDE DEF C
  <2> QED BY <1>1, <1>2, <1>3, BoundsAssumption
<1>8. /\ DOMAIN sent_datagrams' \subseteq 0 .. (send_sequence_number' - 1)
      /\ \A s \in DOMAIN sent_datagrams' : sent_datagrams'[s] \in Frame
  <2> HIDE DEF C
  <2>1. /\ DOMAIN sent_datagrams' \subseteq DOMAIN sent_datagrams
        /\ \A s \in DOMAIN sent_datagrams' : sent_datagrams'[s] = sent_datagrams[s]
    BY <1>1 DEF Remove, Restrict
  <2>2. 0 .. (send_sequence_number - 1) \subseteq 0 .. (send_sequence_number' - 1)
    BY <1>1, <1>2, <1>3
  <2> QED BY <2>1, <2>2 DEF TypeOK
<1> HIDE DEF again, C, queued
<1> QED BY <1>1, <1>6, <1>7, <1>8 DEF TypeOK, receiver, network

LEMMA TypeTimeout ==
    ASSUME TypeOK, NEW k, Timeout(k)
    PROVE  TypeOK'
<1> DEFINE T == TimedOut(k)
           again == Renumbered(sent_datagrams, T, send_sequence_number)
           C == Cardinality(T)
<1>1. /\ send_sequence_number + C <= MaxDatagrams
      /\ send_sequence_number' = send_sequence_number + C
      /\ sent_datagrams' = Merge(Remove(sent_datagrams, T), again)
      /\ net' = net \union OnTheWire(again)
      /\ UNCHANGED <<receiver, send_reliable_index, send_ordering_index,
                     send_split_id, pending_send, sent, pings, acks, losses,
                     duplicates>>
  BY DEF Timeout
<1>2. send_sequence_number \in Nat
  BY DEF TypeOK
<1>3. /\ C \in Nat
      /\ DOMAIN again \subseteq
            send_sequence_number .. (send_sequence_number + C - 1)
      /\ \A n \in DOMAIN again : again[n] \in Frame
      /\ OnTheWire(again) \subseteq Wire
  <2>1. T \subseteq DOMAIN sent_datagrams
    BY DEF TimedOut
  <2> HIDE DEF T
  <2> QED BY <2>1, TypeRenumbered
<1> HIDE DEF again, C, T
<1>4. send_sequence_number' \in 0 .. MaxDatagrams
  BY <1>1, <1>2, <1>3, BoundsAssumption
<1>5. /\ DOMAIN sent_datagrams' \subseteq 0 .. (send_sequence_number' - 1)
      /\ \A s \in DOMAIN sent_datagrams' : sent_datagrams'[s] \in Frame
  <2>1. /\ DOMAIN sent_datagrams' \subseteq DOMAIN sent_datagrams \union DOMAIN again
        /\ \A s \in DOMAIN sent_datagrams' : sent_datagrams'[s] \in Frame
    BY <1>1, <1>3 DEF Merge, Remove, Restrict, TypeOK
  <2>2. 0 .. (send_sequence_number - 1) \subseteq 0 .. (send_sequence_number' - 1)
    BY <1>1, <1>2, <1>3
  <2>3. send_sequence_number .. (send_sequence_number + C - 1)
          \subseteq 0 .. (send_sequence_number' - 1)
    BY <1>1, <1>2, <1>3
  <2> QED BY <1>3, <2>1, <2>2, <2>3 DEF TypeOK
<1>6. net' \subseteq Wire
  BY <1>1, <1>3 DEF TypeOK, Wire
<1> QED BY <1>1, <1>4, <1>5, <1>6 DEF TypeOK, receiver, Wire

LEMMA TypeNext == TypeOK /\ [Next]_vars => TypeOK'
<1> SUFFICES ASSUME TypeOK, [Next]_vars PROVE TypeOK'
  OBVIOUS
<1>1. ASSUME SendSome PROVE TypeOK'
  BY <1>1, TypeSend DEF SendSome
<1>2. ASSUME Ping PROVE TypeOK'
  <2>1. Encode(send_sequence_number, PingFrame) \in Wire
    <3>1. send_sequence_number \in Nat /\ PingFrame \in Frame
      BY DEF TypeOK, Frame
    <3> QED BY <3>1, EncodeType
  <2>2. net' \subseteq Wire
    BY <1>2, <2>1 DEF Ping, TypeOK, Wire
  <2>3. /\ send_sequence_number' \in 0 .. MaxDatagrams
        /\ pings' \in 0 .. MaxPings
        /\ DOMAIN sent_datagrams' \subseteq 0 .. (send_sequence_number' - 1)
    <3>1. /\ send_sequence_number \in 0 .. MaxDatagrams
          /\ pings \in 0 .. MaxPings
          /\ DOMAIN sent_datagrams \subseteq 0 .. (send_sequence_number - 1)
      BY DEF TypeOK
    <3> QED BY <1>2, <3>1, BoundsAssumption DEF Ping
  <2> QED BY <1>2, <2>2, <2>3 DEF Ping, TypeOK, Wire, receiver
<1>3. ASSUME QueuePong PROVE TypeOK'
  <2>1. pending_send' \in Seq([number : 0 .. MaxDatagrams, frame : Frame])
    BY <1>3 DEF QueuePong, TypeOK, Frame
  <2>2. /\ send_sequence_number' \in 0 .. MaxDatagrams
        /\ pings' \in 0 .. MaxPings
        /\ DOMAIN sent_datagrams' \subseteq 0 .. (send_sequence_number' - 1)
    <3>1. /\ send_sequence_number \in 0 .. MaxDatagrams
          /\ pings \in 0 .. MaxPings
          /\ DOMAIN sent_datagrams \subseteq 0 .. (send_sequence_number - 1)
      BY DEF TypeOK
    <3> QED BY <1>3, <3>1, BoundsAssumption DEF QueuePong
  <2> QED BY <1>3, <2>1, <2>2 DEF QueuePong, TypeOK, receiver, network
<1>4. ASSUME FlushPending PROVE TypeOK'
  <2>1. \A d \in Range(pending_send) : Encode(d.number, d.frame) \in Wire
    <3> DEFINE R == [number : 0 .. MaxDatagrams, frame : Frame]
    <3>1. pending_send \in Seq(R)
      BY DEF TypeOK
    <3>2. \A d \in Range(pending_send) : d \in R
      <4> HIDE DEF R
      <4> QED BY <3>1 DEF Range
    <3>3. \A d \in R : d.number \in Nat /\ d.frame \in Frame
      BY BoundsAssumption
    <3> HIDE DEF R
    <3> QED BY <3>2, <3>3, EncodeType
  <2>2. net' \subseteq Wire
    BY <1>4, <2>1 DEF FlushPending, TypeOK, Wire
  <2>3. pending_send' \in Seq([number : 0 .. MaxDatagrams, frame : Frame])
    BY <1>4 DEF FlushPending
  <2> QED BY <1>4, <2>2, <2>3 DEF FlushPending, TypeOK, Wire, receiver
<1>5. ASSUME NEW d \in net, Take(d),
             UNCHANGED <<sender, acks, losses>>,
             net' \subseteq net, duplicates' \in 0 .. MaxDuplicates
      PROVE  TypeOK'
  <2>1. ReceiverType'
    BY <1>5, TypeTake
  <2> QED BY <1>5, <2>1
          DEF TypeOK, ReceiverType, PendingType, ChannelState, sender
<1>6. ASSUME ReceiveSome PROVE TypeOK'
  <2>1. duplicates \in 0 .. MaxDuplicates
    BY DEF TypeOK
  <2> QED BY <1>5, <1>6, <2>1 DEF ReceiveSome, Receive
<1>7. ASSUME NEW d \in net, Duplicate(d) PROVE TypeOK'
  <2>1. duplicates' \in 0 .. MaxDuplicates
    BY <1>7, BoundsAssumption DEF Duplicate, TypeOK
  <2> QED BY <1>5, <1>7, <2>1 DEF Duplicate
<1>8. ASSUME FlushAcks PROVE TypeOK'
  <2>1. received_sequences \subseteq 0 .. (NumberMod - 1)
    BY DEF TypeOK
  <2>2. BuildAck(received_sequences)
          \subseteq (0 .. (NumberMod - 1)) \X (0 .. (NumberMod - 1))
    BY <2>1 DEF BuildAck
  <2>3. acks' \subseteq
           SUBSET ((0 .. (NumberMod - 1)) \X (0 .. (NumberMod - 1)))
    <3> DEFINE Pair == (0 .. (NumberMod - 1)) \X (0 .. (NumberMod - 1))
    <3>1. acks \subseteq SUBSET Pair
      BY DEF TypeOK
    <3>2. acks' = acks \union {BuildAck(received_sequences)}
      BY <1>8 DEF FlushAcks
    <3>3. BuildAck(received_sequences) \in SUBSET Pair
      BY <2>2
    <3> HIDE DEF Pair
    <3>4. acks' \subseteq SUBSET Pair
      BY <3>1, <3>2, <3>3
    <3> QED BY <3>4 DEF Pair
  <2>4. received_sequences' \subseteq 0 .. (NumberMod - 1)
    BY <1>8 DEF FlushAcks
  <2> QED BY <1>8, <2>3, <2>4 DEF FlushAcks, TypeOK, sender
<1>9. ASSUME ReceiveAckSome PROVE TypeOK'
  <2>1. PICK a \in acks : ReceiveAck(a)
    BY <1>9 DEF ReceiveAckSome
  <2>2. /\ DOMAIN sent_datagrams' \subseteq DOMAIN sent_datagrams
        /\ \A s \in DOMAIN sent_datagrams' : sent_datagrams'[s] = sent_datagrams[s]
    BY <2>1 DEF ReceiveAck, ProcessAck, Remove, Restrict
  <2> QED BY <2>1, <2>2 DEF ReceiveAck, TypeOK, receiver
<1>10. ASSUME NakSome PROVE TypeOK'
  BY <1>10, TypeNak DEF NakSome
<1>11. ASSUME TimeoutSome PROVE TypeOK'
  BY <1>11, TypeTimeout DEF TimeoutSome
<1>12. ASSUME NEW d \in net, LoseDatagram(d) PROVE TypeOK'
  <2>1. losses' \in 0 .. MaxLosses
    BY <1>12, BoundsAssumption DEF LoseDatagram, TypeOK
  <2> QED BY <1>12, <2>1 DEF LoseDatagram, TypeOK, sender, receiver
<1>13. ASSUME NEW a \in acks, LoseAck(a) PROVE TypeOK'
  <2>1. losses' \in 0 .. MaxLosses
    BY <1>13, BoundsAssumption DEF LoseAck, TypeOK
  <2> QED BY <1>13, <2>1 DEF LoseAck, TypeOK, sender, receiver
<1>14. ASSUME UNCHANGED vars PROVE TypeOK'
  BY <1>14 DEF vars, sender, receiver, network, TypeOK
<1> QED BY <1>1, <1>2, <1>3, <1>4, <1>6, <1>7, <1>8, <1>9, <1>10, <1>11,
           <1>12, <1>13, <1>14 DEF Next

(***************************************************************************)
(* Every variable keeps its type, whatever the bounds, the width of the    *)
(* wire counters and the behaviour of the network and of a NAKing peer.    *)
(***************************************************************************)
THEOREM TypeCorrect == Spec => []TypeOK
<1>1. Init => TypeOK
  BY TypeInit
<1>2. TypeOK /\ [Next]_vars => TypeOK'
  BY TypeNext
<1> QED BY <1>1, <1>2, PTL DEF Spec

-----------------------------------------------------------------------------
(***************************************************************************)
(* In-order delivery, as long as neither the ordering indices nor the ids  *)
(* of split messages come round.  The datagram numbers may: they only tell *)
(* the sender what to stop resending.                                      *)
(***************************************************************************)
NoWrap ==
    /\ MaxMessages <= IndexMod
    /\ MaxMessages < SplitMod

IsSplit(c, n) == Fragments[sent[c][n].message] > 1

(* Message bodies by ordering index. *)
SentBody(c) == [k \in 0 .. (Len(sent[c]) - 1) |-> Body(sent[c][k + 1].message)]

(* The sender's counters agree with the history, and no two split messages *)
(* share an id.                                                            *)
CountersInv ==
    /\ \A c \in Channel :
          /\ send_ordering_index[c] = Len(sent[c])
          /\ Len(sent[c]) <= send_reliable_index
    /\ send_split_id <= send_reliable_index
    /\ \A c \in Channel : \A n \in 1 .. Len(sent[c]) :
          IsSplit(c, n) => sent[c][n].split_id < send_split_id
    /\ \A c, d \in Channel :
          \A n \in 1 .. Len(sent[c]), m \in 1 .. Len(sent[d]) :
             /\ IsSplit(c, n) /\ IsSplit(d, m)
             /\ sent[c][n].split_id = sent[d][m].split_id
             => c = d /\ n = m

(* f is a ping or, in the given history, the ith frame of the message with *)
(* index n - 1.                                                            *)
FrameAt(c, n, i, history) == SplitMessage(c, n - 1, history[c][n])[i]

Genuine(f, history) ==
    \/ f = PingFrame
    \/ \E c \in Channel : \E n \in 1 .. Len(history[c]) :
          \E i \in 0 .. (Fragments[history[c][n].message] - 1) :
             f = FrameAt(c, n, i, history)

FramesInv ==
    /\ \A s \in DOMAIN sent_datagrams : Genuine(sent_datagrams[s], sent)
    /\ \A d \in Range(pending_send) : Genuine(d.frame, sent)
    /\ \A d \in net : Genuine(d.frame, sent)

(* What waits under a split_id are fragments of the message with that id. *)
AssemblyOf(p) ==
    \A id \in DOMAIN p :
        \E c \in Channel : \E n \in 1 .. Len(sent[c]) :
            /\ IsSplit(c, n)
            /\ sent[c][n].split_id = id
            /\ FragmentsFrom(p[id].fragments, Body(sent[c][n].message),
                             Fragments[sent[c][n].message])

AssemblyInv == AssemblyOf(pending)

OrderInv ==
    \A c \in Channel :
        /\ Consistent(channels[c], SentBody(c), Len(sent[c]))
        /\ delivered[c] = [n \in 1 .. channels[c].expected_index |->
                             Body(sent[c][n].message)]

IInv == TypeOK /\ CountersInv /\ FramesInv /\ AssemblyInv /\ OrderInv

(* The frames of a message, spelled out. *)
LEMMA SplitMessageFields ==
    ASSUME NEW c \in Channel, NEW n \in Nat, NEW entry \in Entry,
           NEW i \in 0 .. (Fragments[entry.message] - 1)
    PROVE  LET m == entry.message
               f == SplitMessage(c, n, entry)[i]
           IN  /\ m \in Message
               /\ Fragments[m] \in Nat \ {0}
               /\ f \in Frame /\ f # PingFrame
               /\ f.reliability = "ReliableOrdered"
               /\ f.ordering_channel = c
               /\ f.ordering_index = n
               /\ \/ Fragments[m] = 1 /\ ~ f.is_split /\ f.body = Body(m)
                  \/ /\ Fragments[m] > 1
                     /\ f.is_split
                     /\ f.split_count = Fragments[m]
                     /\ f.split_id = entry.split_id
                     /\ f.split_index = i
                     /\ f.body = Body(m)[i]
<1> DEFINE m == entry.message
           f == SplitMessage(c, n, entry)[i]
<1>1. m \in Message
  BY DEF Entry
<1>2. Fragments[m] \in Nat \ {0} /\ f \in Frame /\ f # PingFrame
  BY SplitMessageType
<1>3. CASE Fragments[m] = 1
  <2>1. f = WholeFrame(c, n, Body(m))
    BY <1>3 DEF SplitMessage
  <2> HIDE DEF f
  <2>2. f.reliability = "ReliableOrdered" /\ f.ordering_channel = c
        /\ f.ordering_index = n
    BY <2>1 DEF WholeFrame
  <2>3. ~ f.is_split /\ f.body = Body(m)
    BY <2>1 DEF WholeFrame
  <2> QED BY <1>1, <1>2, <1>3, <2>2, <2>3 DEF f
<1>4. CASE Fragments[m] > 1
  <2>1. f = SplitFrame(c, n, Fragments[m], entry.split_id, i, <<m, i>>)
    BY <1>2, <1>4 DEF SplitMessage
  <2>2. Body(m)[i] = <<m, i>>
    BY DEF Body
  <2> HIDE DEF f
  <2>3. f.reliability = "ReliableOrdered" /\ f.ordering_channel = c
        /\ f.ordering_index = n
    BY <2>1 DEF SplitFrame
  <2>4. /\ f.is_split
        /\ f.split_count = Fragments[m]
        /\ f.split_id = entry.split_id
        /\ f.split_index = i
        /\ f.body = Body(m)[i]
    BY <2>1, <2>2 DEF SplitFrame
  <2> QED BY <1>1, <1>2, <1>4, <2>3, <2>4 DEF f
<1> QED BY <1>2, <1>3, <1>4

LEMMA SentEntry ==
    ASSUME TypeOK, NEW c \in Channel
    PROVE  /\ sent[c] \in Seq(Entry)
           /\ Len(sent[c]) \in Nat
           /\ \A n \in 1 .. Len(sent[c]) : sent[c][n] \in Entry /\ n - 1 \in Nat
<1>1. sent[c] \in Seq(Entry)
  BY DEF TypeOK, Entry
<1> QED BY <1>1

LEMMA SmallMod ==
    ASSUME NEW b \in Nat \ {0}, NEW a \in 0 .. (b - 1)
    PROVE  a % b = a
OBVIOUS

(* While no index wraps, the wire shows frames as they are. *)
LEMMA EncodeFrame ==
    ASSUME NEW f \in Frame, NEW k,
           f # PingFrame => f.ordering_index < IndexMod
    PROVE  Encode(k, f).frame = f
<1>1. CASE f = PingFrame
  BY <1>1 DEF Encode, PingFrame
<1>2. CASE f # PingFrame
  <2>1. f.ordering_index \in 0 .. (IndexMod - 1)
    BY <1>2, ModuliAssumption DEF Frame
  <2>2. f.ordering_index % IndexMod = f.ordering_index
    BY <2>1, ModuliAssumption, SmallMod
  <2>3. [f EXCEPT !.ordering_index = f.ordering_index] = f
    BY <1>2 DEF Frame
  <2>4. f.reliability = "ReliableOrdered"
    BY <1>2 DEF Frame
  <2> QED BY <2>2, <2>3, <2>4 DEF Encode
<1> QED BY <1>1, <1>2

LEMMA EncodeGenuine ==
    ASSUME NoWrap, TypeOK, CountersInv, NEW f, Genuine(f, sent), NEW k
    PROVE  Encode(k, f).frame = f
<1>1. CASE f = PingFrame
  BY <1>1, EncodeFrame DEF Frame
<1>2. ASSUME NEW c \in Channel, NEW n \in 1 .. Len(sent[c]),
             NEW i \in 0 .. (Fragments[sent[c][n].message] - 1),
             f = FrameAt(c, n, i, sent)
      PROVE  Encode(k, f).frame = f
  <2>1. f \in Frame /\ f.ordering_index = n - 1
    BY <1>2, SentEntry, SplitMessageFields DEF FrameAt
  <2>2. n - 1 < IndexMod
    <3>1. send_reliable_index \in 0 .. MaxMessages
      BY DEF TypeOK
    <3>2. Len(sent[c]) \in Nat /\ Len(sent[c]) <= send_reliable_index
      BY SentEntry DEF CountersInv
    <3> QED BY <3>1, <3>2, ModuliAssumption, BoundsAssumption DEF NoWrap
  <2> QED BY <2>1, <2>2, EncodeFrame
<1> QED BY <1>1, <1>2 DEF Genuine

(* Sending extends the history by one entry, and changes nothing in it. *)
LEMMA SendExtends ==
    ASSUME TypeOK, NEW c \in Channel, NEW m \in Message, Send(c, m)
    PROVE  LET entry == [message |-> m, split_id |-> send_split_id]
           IN  /\ entry \in Entry
               /\ sent'[c] = Append(sent[c], entry)
               /\ Len(sent'[c]) = Len(sent[c]) + 1
               /\ sent'[c][Len(sent[c]) + 1] = entry
               /\ \A d \in Channel \ {c} : sent'[d] = sent[d]
               /\ \A d \in Channel : \A n \in 1 .. Len(sent[d]) :
                     /\ n \in 1 .. Len(sent'[d])
                     /\ sent'[d][n] = sent[d][n]
<1> DEFINE entry == [message |-> m, split_id |-> send_split_id]
<1>1. entry \in Entry
  BY DEF TypeOK, Entry
<1>2. sent \in [Channel -> Seq(Entry)]
  BY DEF TypeOK, Entry
<1>3. sent' = [sent EXCEPT ![c] = Append(@, entry)]
  BY DEF Send
<1> HIDE DEF entry
<1>4. sent'[c] = Append(sent[c], entry) /\ \A d \in Channel \ {c} : sent'[d] = sent[d]
  BY <1>2, <1>3
<1>5. /\ Len(sent'[c]) = Len(sent[c]) + 1
      /\ sent'[c][Len(sent[c]) + 1] = entry
      /\ \A n \in 1 .. Len(sent[c]) : sent'[c][n] = sent[c][n]
  BY <1>1, <1>2, <1>4
<1>6. \A d \in Channel : Len(sent[d]) \in Nat
  BY <1>2
<1> QED BY <1>1, <1>4, <1>5, <1>6 DEF entry

(* The history only grows. *)
Grows ==
    \A d \in Channel : \A n \in 1 .. Len(sent[d]) :
        /\ n \in 1 .. Len(sent'[d])
        /\ sent'[d][n] = sent[d][n]

LEMMA GenuineKept ==
    ASSUME Grows
    PROVE  \A f : Genuine(f, sent) => Genuine(f, sent')
<1> SUFFICES ASSUME NEW f, Genuine(f, sent) PROVE Genuine(f, sent')
  OBVIOUS
<1>1. CASE f = PingFrame
  BY <1>1 DEF Genuine
<1>2. ASSUME NEW c \in Channel, NEW n \in 1 .. Len(sent[c]),
             NEW i \in 0 .. (Fragments[sent[c][n].message] - 1),
             f = FrameAt(c, n, i, sent)
      PROVE  Genuine(f, sent')
  <2>1. n \in 1 .. Len(sent'[c]) /\ sent'[c][n] = sent[c][n]
    BY DEF Grows
  <2>2. FrameAt(c, n, i, sent') = FrameAt(c, n, i, sent)
    BY <2>1 DEF FrameAt
  <2>3. i \in 0 .. (Fragments[sent'[c][n].message] - 1)
    BY <2>1
  <2> QED BY <1>2, <2>1, <2>2, <2>3 DEF Genuine
<1> QED BY <1>1, <1>2 DEF Genuine

LEMMA AssemblyKept ==
    ASSUME Grows, AssemblyInv, UNCHANGED pending
    PROVE  AssemblyInv'
BY DEF Grows, AssemblyInv, AssemblyOf, IsSplit

LEMMA OrderKept ==
    ASSUME TypeOK, Grows, OrderInv, UNCHANGED <<channels, delivered>>,
           \A c \in Channel : Len(sent'[c]) \in Nat /\ Len(sent'[c]) >= Len(sent[c])
    PROVE  OrderInv'
<1> SUFFICES ASSUME NEW c \in Channel
             PROVE  /\ Consistent(channels'[c], SentBody(c)', Len(sent'[c]))
                    /\ delivered'[c] = [n \in 1 .. channels'[c].expected_index |->
                                          Body(sent'[c][n].message)]
  BY DEF OrderInv
<1>1. /\ Consistent(channels[c], SentBody(c), Len(sent[c]))
      /\ delivered[c] = [n \in 1 .. channels[c].expected_index |->
                             Body(sent[c][n].message)]
      /\ channels'[c] = channels[c] /\ delivered'[c] = delivered[c]
      /\ Len(sent[c]) \in Nat
  BY SentEntry DEF OrderInv
<1>2. \A n \in 1 .. Len(sent[c]) : sent'[c][n] = sent[c][n]
  BY DEF Grows
<1>3. \A k \in 0 .. (Len(sent[c]) - 1) : SentBody(c)'[k] = SentBody(c)[k]
  <2> SUFFICES ASSUME NEW k \in 0 .. (Len(sent[c]) - 1)
               PROVE  SentBody(c)'[k] = SentBody(c)[k]
    OBVIOUS
  <2>1. k + 1 \in 1 .. Len(sent[c]) /\ k \in 0 .. (Len(sent'[c]) - 1)
    BY <1>1
  <2>2. sent'[c][k + 1] = sent[c][k + 1]
    BY <1>2, <2>1
  <2> QED BY <2>1, <2>2 DEF SentBody
<1>4. /\ ChannelState(channels[c])
      /\ channels[c].expected_index \in 0 .. Len(sent[c])
      /\ \A k \in DOMAIN channels[c].buffered :
            /\ k \in 0 .. (Len(sent[c]) - 1)
            /\ channels[c].expected_index < k
            /\ channels[c].buffered[k] = SentBody(c)[k]
  BY <1>1 DEF Consistent, ChannelState
<1>5. Consistent(channels[c], SentBody(c)', Len(sent'[c]))
  <2>1. \A k \in DOMAIN channels[c].buffered :
            /\ channels[c].expected_index < k /\ k < Len(sent'[c])
            /\ channels[c].buffered[k] = SentBody(c)'[k]
    BY <1>1, <1>3, <1>4
  <2>2. channels[c].expected_index <= Len(sent'[c])
    BY <1>1, <1>4
  <2> QED BY <1>4, <2>1, <2>2 DEF Consistent
<1>6. \A n \in 1 .. channels[c].expected_index : sent'[c][n] = sent[c][n]
  BY <1>1, <1>2, <1>4
<1> QED BY <1>1, <1>5, <1>6

LEMMA InitIInv == Init => IInv
<1> SUFFICES ASSUME Init PROVE IInv
  OBVIOUS
<1>1. TypeOK
  BY TypeInit
<1>2. \A c \in Channel : sent[c] = <<>> /\ Len(sent[c]) = 0
  BY DEF Init
<1>3. CountersInv
  BY <1>2 DEF Init, CountersInv
<1>4. FramesInv
  BY DEF Init, FramesInv, EmptyMap, Range
<1>5. AssemblyInv
  BY DEF Init, AssemblyInv, AssemblyOf, EmptyMap
<1>6. OrderInv
  <2> SUFFICES ASSUME NEW c \in Channel
               PROVE  /\ Consistent(channels[c], SentBody(c), Len(sent[c]))
                      /\ delivered[c] = [n \in 1 .. channels[c].expected_index |->
                                          Body(sent[c][n].message)]
    BY DEF OrderInv
  <2>1. /\ channels[c] = [expected_index |-> 0, buffered |-> EmptyMap]
        /\ delivered[c] = <<>>
    BY DEF Init
  <2>2. channels[c].expected_index = 0 /\ DOMAIN channels[c].buffered = {}
    BY <2>1 DEF EmptyMap
  <2>3. ChannelState(channels[c])
    BY <1>1 DEF TypeOK, ChannelState
  <2>4. Consistent(channels[c], SentBody(c), Len(sent[c]))
    <3> HIDE DEF ChannelState
    <3> QED BY <1>2, <2>2, <2>3 DEF Consistent
  <2> QED BY <2>1, <2>2, <2>4
<1> QED BY <1>1, <1>3, <1>4, <1>5, <1>6 DEF IInv

(***************************************************************************)
(* Sending: the new message gets the next index of its channel and, if it  *)
(* is split, an id above all that were used.                               *)
(***************************************************************************)
LEMMA SendCounters ==
    ASSUME NoWrap, TypeOK, CountersInv, NEW c \in Channel, NEW m \in Message,
           Send(c, m)
    PROVE  CountersInv'
<1> DEFINE entry == [message |-> m, split_id |-> send_split_id]
           L == Len(sent[c])
<1>1. /\ sent'[c] = Append(sent[c], entry)
      /\ Len(sent'[c]) = L + 1
      /\ sent'[c][L + 1] = entry
      /\ \A d \in Channel \ {c} : sent'[d] = sent[d]
      /\ \A d \in Channel : \A n \in 1 .. Len(sent[d]) :
            sent'[d][n] = sent[d][n]
  BY SendExtends
<1>2. /\ send_reliable_index \in Nat /\ send_split_id \in Nat
      /\ send_reliable_index < MaxMessages
      /\ send_reliable_index' = send_reliable_index + 1
      /\ send_split_id <= send_reliable_index
      /\ \A d \in Channel : /\ Len(sent[d]) \in Nat
                            /\ send_ordering_index[d] = Len(sent[d])
                            /\ Len(sent[d]) <= send_reliable_index
  BY SentEntry DEF TypeOK, Send, CountersInv
<1>3. MaxMessages \in Nat /\ MaxMessages < SplitMod /\ SplitMod \in Nat
  BY BoundsAssumption, ModuliAssumption DEF NoWrap
<1>4. /\ Fragments[m] = 1 => send_split_id' = send_split_id
      /\ Fragments[m] # 1 => send_split_id' = send_split_id + 1
  <2>1. (send_split_id + 1) % SplitMod = send_split_id + 1
    <3>1. send_split_id + 1 \in 0 .. (SplitMod - 1)
      BY <1>2, <1>3
    <3> QED BY <3>1, ModuliAssumption, SmallMod
  <2> QED BY <2>1 DEF Send
<1>5. ASSUME NEW d \in Channel, NEW n \in 1 .. Len(sent'[d])
      PROVE  \/ /\ n \in 1 .. Len(sent[d])
                /\ sent'[d][n] = sent[d][n]
             \/ d = c /\ n = L + 1 /\ sent'[d][n] = entry
  <2>1. CASE d = c
    <3>1. n \in 1 .. L \/ n = L + 1
      BY <1>1, <1>2, <2>1
    <3> QED BY <1>1, <2>1, <3>1
  <2>2. CASE d # c
    BY <1>1, <2>2
  <2> QED BY <2>1, <2>2
<1>6. \A d \in Channel :
        /\ send_ordering_index'[d] = Len(sent'[d])
        /\ Len(sent'[d]) <= send_reliable_index'
  <2> SUFFICES ASSUME NEW d \in Channel
               PROVE  /\ send_ordering_index'[d] = Len(sent'[d])
                      /\ Len(sent'[d]) <= send_reliable_index'
    OBVIOUS
  <2>1. send_ordering_index' = [send_ordering_index EXCEPT ![c] = @ + 1]
    BY DEF Send
  <2>2. send_ordering_index \in [Channel -> Nat]
    BY DEF TypeOK
  <2>3. CASE d = c
    BY <1>1, <1>2, <2>1, <2>2, <2>3
  <2>4. CASE d # c
    BY <1>1, <1>2, <2>1, <2>2, <2>4
  <2> QED BY <2>3, <2>4
<1>7. send_split_id' <= send_reliable_index' /\ send_split_id <= send_split_id'
      /\ send_split_id' \in Nat
  BY <1>2, <1>4
<1>8. \A d \in Channel : \A n \in 1 .. Len(sent[d]) :
         /\ sent[d][n].split_id \in Nat
         /\ Fragments[sent[d][n].message] > 1
            => sent[d][n].split_id < send_split_id
  BY SentEntry, ModuliAssumption DEF CountersInv, IsSplit, Entry
<1>9. Fragments[m] \in Nat \ {0}
  BY FragmentsAssumption
<1>10. entry.message = m /\ entry.split_id = send_split_id
  OBVIOUS
<1> HIDE DEF entry
<1>11. \A d \in Channel : \A n \in 1 .. Len(sent'[d]) :
          Fragments[sent'[d][n].message] > 1
          => sent'[d][n].split_id < send_split_id'
  <2> SUFFICES ASSUME NEW d \in Channel, NEW n \in 1 .. Len(sent'[d]),
                      Fragments[sent'[d][n].message] > 1
               PROVE  sent'[d][n].split_id < send_split_id'
    OBVIOUS
  <2>1. CASE n \in 1 .. Len(sent[d]) /\ sent'[d][n] = sent[d][n]
    BY <1>2, <1>7, <1>8, <2>1
  <2>2. CASE d = c /\ n = L + 1 /\ sent'[d][n] = entry
    BY <1>2, <1>4, <1>10, <2>2
  <2> QED BY <1>5, <2>1, <2>2
<1>12. ASSUME NEW d \in Channel, NEW e \in Channel,
              NEW n \in 1 .. Len(sent'[d]), NEW k \in 1 .. Len(sent'[e]),
              Fragments[sent'[d][n].message] > 1,
              Fragments[sent'[e][k].message] > 1,
              sent'[d][n].split_id = sent'[e][k].split_id
       PROVE  d = e /\ n = k
  <2>1. CASE /\ n \in 1 .. Len(sent[d]) /\ sent'[d][n] = sent[d][n]
             /\ k \in 1 .. Len(sent[e]) /\ sent'[e][k] = sent[e][k]
    BY <1>12, <2>1 DEF CountersInv, IsSplit
  <2>2. CASE /\ n \in 1 .. Len(sent[d]) /\ sent'[d][n] = sent[d][n]
             /\ e = c /\ k = L + 1 /\ sent'[e][k] = entry
    BY <1>2, <1>8, <1>10, <1>12, <2>2
  <2>3. CASE /\ k \in 1 .. Len(sent[e]) /\ sent'[e][k] = sent[e][k]
             /\ d = c /\ n = L + 1 /\ sent'[d][n] = entry
    BY <1>2, <1>8, <1>10, <1>12, <2>3
  <2>4. CASE /\ d = c /\ n = L + 1
             /\ e = c /\ k = L + 1
    BY <2>4
  <2> QED BY <1>5, <2>1, <2>2, <2>3, <2>4
<1> QED BY <1>6, <1>7, <1>11, <1>12 DEF CountersInv, IsSplit

LEMMA SendFrames ==
    ASSUME NoWrap, TypeOK, CountersInv, FramesInv, CountersInv', TypeOK',
           NEW c \in Channel, NEW m \in Message, Send(c, m)
    PROVE  FramesInv'
<1> DEFINE entry == [message |-> m, split_id |-> send_split_id]
           L == Len(sent[c])
           F == Fragments[m]
           frames == SplitMessage(c, L, entry)
           datagrams == BuildDatagrams(frames, send_sequence_number)
<1>1. /\ entry \in Entry
      /\ Len(sent'[c]) = L + 1
      /\ sent'[c][L + 1] = entry
      /\ \A d \in Channel : \A n \in 1 .. Len(sent[d]) :
            n \in 1 .. Len(sent'[d]) /\ sent'[d][n] = sent[d][n]
  BY SendExtends
<1>2. L \in Nat /\ L = send_ordering_index[c] /\ send_sequence_number \in Nat
      /\ F \in Nat \ {0}
  BY SentEntry, FragmentsAssumption DEF CountersInv, TypeOK
<1>3. \A f : Genuine(f, sent) => Genuine(f, sent')
  BY <1>1, GenuineKept DEF Grows
<1>4. ASSUME NEW i \in 0 .. (F - 1) PROVE Genuine(frames[i], sent')
  <2>1. frames[i] = FrameAt(c, L + 1, i, sent')
    <3>1. L + 1 - 1 = L
      BY <1>2
    <3>2. FrameAt(c, L + 1, i, sent') = SplitMessage(c, L + 1 - 1, sent'[c][L + 1])[i]
      BY DEF FrameAt
    <3>3. SplitMessage(c, L + 1 - 1, sent'[c][L + 1])[i] = SplitMessage(c, L, entry)[i]
      <4> HIDE DEF entry, L
      <4> QED BY <1>1, <3>1
    <3> QED BY <3>2, <3>3
  <2>2. L + 1 \in 1 .. Len(sent'[c])
    BY <1>1, <1>2
  <2>3. Fragments[sent'[c][L + 1].message] = F
    BY <1>1
  <2> HIDE DEF frames, F
  <2> QED BY <2>1, <2>2, <2>3 DEF Genuine
<1>5. /\ DOMAIN datagrams = send_sequence_number .. (send_sequence_number + F - 1)
      /\ \A n \in DOMAIN datagrams : \E i \in 0 .. (F - 1) : datagrams[n] = frames[i]
  <2>1. DOMAIN frames = 0 .. (F - 1)
    BY <1>1, <1>2, SplitMessageType
  <2> HIDE DEF frames, F
  <2>2. /\ DOMAIN datagrams = send_sequence_number .. (send_sequence_number + F - 1)
        /\ \A n \in send_sequence_number .. (send_sequence_number + F - 1) :
              datagrams[n] = frames[n - send_sequence_number]
    BY <1>2, <2>1, BuildDatagramsType
  <2>3. \A n \in send_sequence_number .. (send_sequence_number + F - 1) :
              n - send_sequence_number \in 0 .. (F - 1)
    BY <1>2
  <2> HIDE DEF datagrams
  <2> QED BY <2>2, <2>3
<1>6. \A n \in DOMAIN datagrams : Genuine(datagrams[n], sent')
  <2> HIDE DEF datagrams, frames, F
  <2> QED BY <1>4, <1>5
<1>7. /\ sent_datagrams' = Merge(sent_datagrams, datagrams)
      /\ net' = net \union OnTheWire(datagrams)
      /\ send_sequence_number + F <= MaxDatagrams
      /\ pending_send' = pending_send
  BY <1>2 DEF Send
<1> HIDE DEF datagrams, frames, F, entry, L
<1>8. \A s \in DOMAIN sent_datagrams' : Genuine(sent_datagrams'[s], sent')
  BY <1>3, <1>6, <1>7 DEF Merge, FramesInv
<1>9. \A d \in Range(pending_send') : Genuine(d.frame, sent')
  BY <1>3, <1>7 DEF FramesInv
<1>10. ASSUME NEW n \in DOMAIN datagrams
       PROVE  Encode(n, datagrams[n]).frame = datagrams[n]
  <2>1. Genuine(datagrams[n], sent')
    BY <1>6
  <2>2. CASE datagrams[n] = PingFrame
    BY <2>2, EncodeFrame DEF Frame
  <2>3. CASE datagrams[n] # PingFrame
    <3>1. PICK i \in 0 .. (F - 1) : datagrams[n] = frames[i]
      BY <1>5
    <3>2. F = Fragments[entry.message] /\ L < IndexMod
      BY <1>2, BoundsAssumption, ModuliAssumption
         DEF F, entry, L, NoWrap, CountersInv, TypeOK, Send
    <3>3. frames[i] \in Frame /\ frames[i].ordering_index = L
      BY <1>1, <1>2, <3>2, SplitMessageFields DEF frames
    <3> QED BY <3>1, <3>2, <3>3, EncodeFrame
  <2> QED BY <2>2, <2>3
<1>11. \A d \in net' : Genuine(d.frame, sent')
  <2> SUFFICES ASSUME NEW d \in net' PROVE Genuine(d.frame, sent')
    OBVIOUS
  <2>1. CASE d \in net
    BY <1>3, <2>1 DEF FramesInv
  <2>2. CASE d \in OnTheWire(datagrams)
    <3>1. PICK n \in DOMAIN datagrams : d = Encode(n, datagrams[n])
      BY <2>2 DEF OnTheWire
    <3>2. d.frame = datagrams[n]
      BY <1>10, <3>1
    <3> QED BY <1>6, <3>2
  <2> QED BY <1>7, <2>1, <2>2
<1> QED BY <1>8, <1>9, <1>11 DEF FramesInv

(***************************************************************************)
(* Every other step of the sender or of the network copies, moves or drops *)
(* frames that exist.                                                      *)
(***************************************************************************)
LEMMA PingFrames ==
    ASSUME FramesInv, Ping \/ QueuePong, TypeOK
    PROVE  FramesInv'
<1>1. Genuine(PingFrame, sent) /\ sent' = sent
  BY DEF Genuine, Ping, QueuePong
<1>2. CASE Ping
  <2>1. Encode(send_sequence_number, PingFrame).frame = PingFrame
    BY DEF Encode, PingFrame
  <2> QED BY <1>1, <1>2, <2>1 DEF Ping, FramesInv
<1>3. CASE QueuePong
  <2> DEFINE e == [number |-> send_sequence_number, frame |-> PingFrame]
  <2>1. pending_send' = Append(pending_send, e) /\ e.frame = PingFrame
        /\ UNCHANGED <<net, sent_datagrams>>
    BY <1>3 DEF QueuePong, network
  <2> HIDE DEF e
  <2>2. Range(pending_send') \subseteq Range(pending_send) \union {e}
    BY <2>1 DEF Range, TypeOK
  <2> QED BY <1>1, <2>1, <2>2 DEF FramesInv
<1> QED BY <1>2, <1>3

LEMMA FlushPendingFrames ==
    ASSUME NoWrap, TypeOK, CountersInv, FramesInv, FlushPending
    PROVE  FramesInv'
<1>1. /\ net' = net \union {Encode(d.number, d.frame) : d \in Range(pending_send)}
      /\ pending_send' = <<>>
      /\ UNCHANGED <<sent, sent_datagrams>>
  BY DEF FlushPending
<1>2. Range(pending_send') = {}
  BY <1>1 DEF Range
<1>3. \A d \in Range(pending_send) :
        Genuine(d.frame, sent) /\ Encode(d.number, d.frame).frame = d.frame
  BY EncodeGenuine DEF FramesInv
<1> QED BY <1>1, <1>2, <1>3 DEF FramesInv

LEMMA RenumberedFrames ==
    ASSUME TypeOK, FramesInv, NEW T, T \subseteq DOMAIN sent_datagrams
    PROVE  LET again == Renumbered(sent_datagrams, T, send_sequence_number)
           IN  \A n \in DOMAIN again : Genuine(again[n], sent)
<1>1. send_sequence_number \in Nat
  BY DEF TypeOK
<1>2. T \subseteq Nat /\ IsFiniteSet(T)
  <2>1. T \subseteq 0 .. (send_sequence_number - 1)
    BY DEF TypeOK
  <2>2. IsFiniteSet(0 .. (send_sequence_number - 1))
    BY <1>1, FS_Interval
  <2>3. IsFiniteSet(T)
    BY <2>1, <2>2, FS_Subset
  <2> QED BY <1>1, <2>1, <2>3
<1> QED BY <1>1, <1>2, RenumberedAddsNone DEF FramesInv

LEMMA NakFrames ==
    ASSUME TypeOK, FramesInv, NEW T, ReceiveNak(T)
    PROVE  FramesInv'
<1> DEFINE again == Renumbered(sent_datagrams, T, send_sequence_number)
           C == Cardinality(T)
           queued == [i \in 1 .. C |->
                        [number |-> send_sequence_number + i - 1,
                         frame |-> again[send_sequence_number + i - 1]]]
<1>1. /\ T \subseteq DOMAIN sent_datagrams
      /\ sent_datagrams' = Remove(sent_datagrams, T)
      /\ pending_send' = pending_send \o queued
      /\ UNCHANGED <<net, sent>>
  BY DEF ReceiveNak, network
<1>2. \A n \in DOMAIN again : Genuine(again[n], sent)
  BY <1>1, RenumberedFrames
<1>3. C \in Nat /\ DOMAIN again =
        send_sequence_number .. (send_sequence_number + C - 1)
  BY <1>1, TypeRenumbered
<1>4. \A i \in 1 .. C : Genuine(queued[i].frame, sent)
  <2> SUFFICES ASSUME NEW i \in 1 .. C PROVE Genuine(queued[i].frame, sent)
    OBVIOUS
  <2> HIDE DEF again, C
  <2>1. send_sequence_number + i - 1 \in DOMAIN again
    BY <1>3 DEF TypeOK
  <2> QED BY <1>2, <2>1
<1>5. queued \in Seq({queued[i] : i \in 1 .. C}) /\ Len(queued) = C
  <2> HIDE DEF C
  <2>1. queued \in [1 .. C -> {queued[i] : i \in 1 .. C}]
    OBVIOUS
  <2>2. DOMAIN queued = 1 .. C
    OBVIOUS
  <2> HIDE DEF queued
  <2> QED BY <1>3, <2>1, <2>2
<1> HIDE DEF queued, C, again
<1>6. Range(pending_send') \subseteq Range(pending_send) \union {queued[i] : i \in 1 .. C}
  <2>1. pending_send \in Seq([number : 0 .. MaxDatagrams, frame : Frame])
    BY DEF TypeOK
  <2>2. /\ DOMAIN pending_send = 1 .. Len(pending_send)
        /\ DOMAIN pending_send' = 1 .. (Len(pending_send) + C)
        /\ Len(pending_send) \in Nat
    BY <1>1, <1>5, <2>1
  <2>3. \A n \in DOMAIN pending_send' :
          pending_send'[n] = IF n <= Len(pending_send) THEN pending_send[n]
                             ELSE queued[n - Len(pending_send)]
    BY <1>1, <1>5, <2>1, <2>2
  <2>4. ASSUME NEW n \in DOMAIN pending_send'
        PROVE  pending_send'[n] \in Range(pending_send) \union {queued[i] : i \in 1 .. C}
    <3>1. CASE n <= Len(pending_send)
      <4>1. n \in DOMAIN pending_send /\ pending_send'[n] = pending_send[n]
        BY <2>2, <2>3, <2>4, <3>1
      <4> QED BY <4>1 DEF Range
    <3>2. CASE ~ (n <= Len(pending_send))
      <4>1. n - Len(pending_send) \in 1 .. C
        BY <1>3, <2>2, <2>4, <3>2
      <4> QED BY <2>3, <3>2, <4>1
    <3> QED BY <3>1, <3>2
  <2> QED BY <2>4 DEF Range
<1>7. \A d \in Range(pending_send') : Genuine(d.frame, sent)
  BY <1>4, <1>6 DEF FramesInv
<1>8. \A s \in DOMAIN sent_datagrams' :
        s \in DOMAIN sent_datagrams /\ sent_datagrams'[s] = sent_datagrams[s]
  BY <1>1 DEF Remove, Restrict
<1> QED BY <1>1, <1>7, <1>8 DEF FramesInv

LEMMA TimeoutFrames ==
    ASSUME NoWrap, TypeOK, CountersInv, FramesInv, NEW k, Timeout(k)
    PROVE  FramesInv'
<1> DEFINE T == TimedOut(k)
           again == Renumbered(sent_datagrams, T, send_sequence_number)
<1>1. /\ sent_datagrams' = Merge(Remove(sent_datagrams, T), again)
      /\ net' = net \union OnTheWire(again)
      /\ UNCHANGED <<sent, pending_send>>
  BY DEF Timeout
<1>2. \A n \in DOMAIN again : Genuine(again[n], sent)
  <2>1. T \subseteq DOMAIN sent_datagrams
    BY DEF TimedOut
  <2> HIDE DEF T
  <2> QED BY <2>1, RenumberedFrames
<1> HIDE DEF again, T
<1>3. \A n \in DOMAIN again : Encode(n, again[n]).frame = again[n]
  BY <1>2, EncodeGenuine
<1>4. \A s \in DOMAIN sent_datagrams' : Genuine(sent_datagrams'[s], sent)
  BY <1>1, <1>2 DEF Merge, Remove, Restrict, FramesInv
<1>5. \A d \in net' : Genuine(d.frame, sent)
  BY <1>1, <1>2, <1>3 DEF OnTheWire, FramesInv
<1> QED BY <1>1, <1>4, <1>5 DEF FramesInv

(***************************************************************************)
(* Taking in a frame of a message that was sent: what it completes, if     *)
(* anything, is the body of that message.                                  *)
(***************************************************************************)
LEMMA AssembledIsBody ==
    ASSUME TypeOK, CountersInv, AssemblyInv,
           NEW c \in Channel, NEW n \in 1 .. Len(sent[c]),
           NEW i \in 0 .. (Fragments[sent[c][n].message] - 1)
    PROVE  LET added == AddFragment(pending, FrameAt(c, n, i, sent))
           IN  /\ added.assembled \subseteq {Body(sent[c][n].message)}
               /\ AssemblyOf(added.pending)
<1> DEFINE entry == sent[c][n]
           m == entry.message
           f == FrameAt(c, n, i, sent)
           added == AddFragment(pending, f)
           F == Fragments[m]
<1>1. /\ F \in Nat \ {0}
      /\ \/ F = 1 /\ ~ f.is_split /\ f.body = Body(m)
         \/ /\ F > 1
            /\ f.is_split
            /\ f.split_count = F
            /\ f.split_id = entry.split_id
            /\ f.split_index = i
            /\ f.body = Body(m)[i]
  <2>1. entry \in Entry /\ n - 1 \in Nat
    BY SentEntry
  <2>2. f = SplitMessage(c, n - 1, entry)[i]
    BY DEF FrameAt
  <2> HIDE DEF entry, f
  <2>3. i \in 0 .. (Fragments[entry.message] - 1)
    BY DEF entry
  <2> QED BY ONLY <2>1, <2>2, <2>3, SplitMessageFields, c \in Channel
<1>2. Body(m) = [j \in 0 .. (F - 1) |-> Body(m)[j]]
  BY DEF Body
<1> HIDE DEF f
<1>3. CASE F = 1
  <2>1. added.assembled = {f.body} /\ added.pending = pending
    BY <1>1, <1>3 DEF AddFragment
  <2> QED BY <1>1, <1>3, <2>1 DEF AssemblyInv, f
<1>4. CASE F > 1
  <2> DEFINE id == entry.split_id
             e == PendingSplit(pending, f)
  <2>1. FragmentsFrom(FragmentsOf(pending, id), Body(m), F)
    <3>1. CASE id \in DOMAIN pending
      <4>1. PICK c2 \in Channel : \E n2 \in 1 .. Len(sent[c2]) :
              /\ IsSplit(c2, n2)
              /\ sent[c2][n2].split_id = id
              /\ FragmentsFrom(pending[id].fragments, Body(sent[c2][n2].message),
                               Fragments[sent[c2][n2].message])
        BY <3>1 DEF AssemblyInv, AssemblyOf
      <4>2. PICK n2 \in 1 .. Len(sent[c2]) :
              /\ IsSplit(c2, n2)
              /\ sent[c2][n2].split_id = id
              /\ FragmentsFrom(pending[id].fragments, Body(sent[c2][n2].message),
                               Fragments[sent[c2][n2].message])
        BY <4>1
      <4>3. c2 = c /\ n2 = n
        BY <1>4, <4>2 DEF CountersInv, IsSplit
      <4> QED BY <3>1, <4>2, <4>3 DEF FragmentsOf
    <3>2. CASE id \notin DOMAIN pending
      BY <3>2 DEF FragmentsOf, FragmentsFrom, EmptyMap
    <3> QED BY <3>1, <3>2
  <2>2. /\ F \in Nat /\ f.is_split /\ f.split_count = F
        /\ f.split_index \in 0 .. (F - 1)
        /\ f.body = Body(m)[f.split_index]
        /\ f.split_id = id
    BY <1>1, <1>4
  <2> HIDE DEF F, m, id
  <2>3. /\ FragmentsFrom(e.fragments, Body(m), F)
        /\ \/ /\ added.pending = Remove(pending, {id})
              /\ added.assembled = {Body(m)}
           \/ /\ added.pending = Put(pending, id, e)
              /\ added.assembled = {}
    <3>1. Assembles(pending, f, Body(m), F)
      BY <1>2, <2>1, <2>2, AddFragmentAssembles
    <3> QED BY <1>2, <2>2, <3>1 DEF Assembles
  <2> HIDE DEF e, added
  <2>4. ASSUME added.pending = Remove(pending, {id})
        PROVE  AssemblyOf(added.pending)
    BY <2>4 DEF Remove, Restrict, AssemblyInv, AssemblyOf
  <2>5. ASSUME added.pending = Put(pending, id, e)
        PROVE  AssemblyOf(added.pending)
    <3>1. /\ DOMAIN added.pending = DOMAIN pending \union {id}
          /\ added.pending[id] = e
          /\ \A k \in DOMAIN pending \ {id} : added.pending[k] = pending[k]
      BY <2>5 DEF Put
    <3>2. IsSplit(c, n) /\ sent[c][n].split_id = id
      BY <1>4 DEF IsSplit, id, F, m
    <3>3. FragmentsFrom(added.pending[id].fragments, Body(sent[c][n].message),
                        Fragments[sent[c][n].message])
      BY <2>3, <3>1 DEF F, m
    <3>4. ASSUME NEW k \in DOMAIN added.pending
          PROVE  \E cc \in Channel : \E nn \in 1 .. Len(sent[cc]) :
                    /\ IsSplit(cc, nn)
                    /\ sent[cc][nn].split_id = k
                    /\ FragmentsFrom(added.pending[k].fragments,
                                     Body(sent[cc][nn].message),
                                     Fragments[sent[cc][nn].message])
      <4>1. CASE k = id
        BY <3>2, <3>3, <4>1
      <4>2. CASE k # id
        BY <3>1, <4>2 DEF AssemblyInv, AssemblyOf
      <4> QED BY <4>1, <4>2
    <3> QED BY <3>4 DEF AssemblyOf
  <2> QED BY <2>3, <2>4, <2>5 DEF added, f, m
<1> QED BY <1>1, <1>3, <1>4

(***************************************************************************)
(* Taking in a genuine datagram: its message is assembled right and waits  *)
(* for its turn, or is handed up with what it was holding back.            *)
(***************************************************************************)
LEMMA OrderedKept ==
    ASSUME TypeOK, OrderInv,
           NEW c \in Channel, NEW n \in 1 .. Len(sent[c]),
           LET o == ProcessOrdered(channels[c], n - 1, Body(sent[c][n].message))
           IN  /\ channels' = [channels EXCEPT ![c] = o.state]
               /\ delivered' = [delivered EXCEPT ![c] = @ \o o.ready],
           UNCHANGED sent
    PROVE  OrderInv'
<1> DEFINE L == Len(sent[c])
           B == SentBody(c)
           e == channels[c].expected_index
           o == ProcessOrdered(channels[c], n - 1, Body(sent[c][n].message))
           g == [k \in 1 .. L |-> Body(sent[c][k].message)]
<1>1. /\ L \in Nat
      /\ Consistent(channels[c], B, L)
      /\ e \in 0 .. L
      /\ n - 1 \in 0 .. (L - 1)
      /\ delivered[c] = [k \in 1 .. e |-> Body(sent[c][k].message)]
  <2> HIDE DEF o, g
  <2>1. L \in Nat
    BY SentEntry
  <2>2. /\ Consistent(channels[c], B, L)
        /\ delivered[c] = [k \in 1 .. e |-> Body(sent[c][k].message)]
    BY DEF OrderInv
  <2>3. e \in Nat /\ e <= L
    BY <2>2 DEF Consistent, ChannelState
  <2> HIDE DEF e, L, B
  <2>4. e \in 0 .. L /\ n - 1 \in 0 .. (L - 1)
    BY <2>1, <2>3 DEF L
  <2> QED BY <2>1, <2>2, <2>4
<1>2. Body(sent[c][n].message) = B[n - 1]
  <2>1. n - 1 + 1 = n
    BY <1>1
  <2> QED BY <1>1, <2>1 DEF SentBody
<1>3. /\ Consistent(o.state, B, L)
      /\ o.state.expected_index >= e
      /\ o.ready = [k \in 1 .. (o.state.expected_index - e) |-> B[e + k - 1]]
  <2> HIDE DEF B, L, g
  <2>1. n - 1 \in 0 .. (L - 1) /\ L \in Nat /\ Consistent(channels[c], B, L)
    BY <1>1
  <2> DEFINE p == ProcessOrdered(channels[c], n - 1, B[n - 1])
  <2>2. /\ Consistent(p.state, B, L)
        /\ p.state.expected_index >= e
        /\ p.ready = [k \in 1 .. (p.state.expected_index - e) |-> B[e + k - 1]]
    BY <2>1, ProcessOrderedDelivers
  <2> QED BY <1>2, <2>2
<1> DEFINE b == o.state.expected_index
<1>4. b \in Nat /\ b <= L /\ e \in Nat /\ e <= b
  BY <1>1, <1>3 DEF Consistent, ChannelState
<1>5. delivered[c] \o o.ready = [k \in 1 .. b |-> Body(sent[c][k].message)]
  <2> HIDE DEF o, L, e, B, b
  <2>1. \A k \in 1 .. L : g[k] = Body(sent[c][k].message)
    OBVIOUS
  <2> HIDE DEF g
  <2>2. delivered[c] = [k \in 1 .. e |-> g[k]]
    BY <1>1, <1>4, <2>1
  <2>3. o.ready = [k \in 1 .. (b - e) |-> g[e + k]]
    <3>1. ASSUME NEW k \in 1 .. (b - e) PROVE B[e + k - 1] = g[e + k]
      <4>1. /\ e + k \in 1 .. L
            /\ e + k - 1 \in 0 .. (L - 1)
            /\ e + k - 1 + 1 = e + k
        <5>1. e \in Nat /\ b \in Nat /\ L \in Nat /\ e <= b /\ b <= L
              /\ k \in Nat /\ 1 <= k /\ k <= b - e
          BY <1>1, <1>4
        <5> QED BY <5>1
      <4>2. B[e + k - 1] = Body(sent[c][e + k - 1 + 1].message)
        BY <4>1 DEF B, L, SentBody
      <4> QED BY <2>1, <4>1, <4>2
    <3>2. o.ready = [k \in 1 .. (b - e) |-> B[e + k - 1]]
      BY <1>3 DEF b
    <3> QED BY <3>1, <3>2
  <2>4. [k \in 1 .. e |-> g[k]] \o [k \in 1 .. (b - e) |-> g[e + k]]
          = [k \in 1 .. b |-> g[k]]
    <3> DEFINE S == {g[k] : k \in 1 .. b}
    <3>1. \A k \in 1 .. b : g[k] \in S
      OBVIOUS
    <3> HIDE DEF S
    <3> QED BY <1>4, <3>1, DeliveredGrows
  <2>5. [k \in 1 .. b |-> g[k]] = [k \in 1 .. b |-> Body(sent[c][k].message)]
    BY <1>1, <1>4, <2>1
  <2> QED BY <2>2, <2>3, <2>4, <2>5
<1>6. /\ channels'[c] = o.state
      /\ delivered'[c] = delivered[c] \o o.ready
      /\ \A d \in Channel \ {c} :
            channels'[d] = channels[d] /\ delivered'[d] = delivered[d]
  BY DEF TypeOK
<1>7. ASSUME NEW d \in Channel
      PROVE  /\ Consistent(channels'[d], SentBody(d)', Len(sent'[d]))
             /\ delivered'[d] = [k \in 1 .. channels'[d].expected_index |->
                                   Body(sent'[d][k].message)]
  <2>1. SentBody(d)' = SentBody(d)
    BY DEF SentBody
  <2>2. CASE d = c
    <3>1. channels'[d].expected_index = b
      BY <1>6, <2>2
    <3>2. delivered'[d] = [k \in 1 .. b |-> Body(sent'[d][k].message)]
      <4> HIDE DEF o, b
      <4> QED BY <1>5, <1>6, <2>2
    <3>3. Consistent(channels'[d], SentBody(d)', Len(sent'[d]))
      <4> HIDE DEF o, b
      <4> QED BY <1>3, <1>6, <2>1, <2>2
    <3> QED BY <3>1, <3>2, <3>3
  <2>3. CASE d # c
    <3> HIDE DEF o
    <3> QED BY <1>6, <2>1, <2>3 DEF OrderInv
  <2> QED BY <2>2, <2>3
<1> QED BY <1>7 DEF OrderInv

LEMMA TakeKept ==
    ASSUME TypeOK, CountersInv, FramesInv, AssemblyInv, OrderInv,
           NEW d \in net, Take(d), UNCHANGED sent
    PROVE  AssemblyInv' /\ OrderInv'
<1>1. CASE UNCHANGED <<pending, channels, delivered>>
  <2>1. Grows
    BY DEF Grows
  <2> QED BY <1>1, <2>1, AssemblyKept, OrderKept, SentEntry
<1>2. CASE d.frame # PingFrame /\ ProcessOrderedFrame(d.frame)
  <2>1. PICK c \in Channel : \E n \in 1 .. Len(sent[c]) :
          \E i \in 0 .. (Fragments[sent[c][n].message] - 1) :
             d.frame = FrameAt(c, n, i, sent)
    BY <1>2 DEF FramesInv, Genuine
  <2>2. PICK n \in 1 .. Len(sent[c]) :
          \E i \in 0 .. (Fragments[sent[c][n].message] - 1) :
             d.frame = FrameAt(c, n, i, sent)
    BY <2>1
  <2>3. PICK i \in 0 .. (Fragments[sent[c][n].message] - 1) :
          d.frame = FrameAt(c, n, i, sent)
    BY <2>2
  <2> DEFINE f == d.frame
             added == AddFragment(pending, f)
             m == sent[c][n].message
  <2>4. f.ordering_channel = c /\ f.ordering_index = n - 1
    BY <2>3, SentEntry, SplitMessageFields DEF FrameAt
  <2>5. added.assembled \subseteq {Body(m)} /\ AssemblyOf(added.pending)
    BY <2>3, AssembledIsBody
  <2>6. /\ pending' = added.pending
        /\ \/ UNCHANGED <<channels, delivered>>
           \/ LET o == ProcessOrdered(channels[c], n - 1, Body(m))
              IN  /\ channels' = [channels EXCEPT ![c] = o.state]
                  /\ delivered' = [delivered EXCEPT ![c] = @ \o o.ready]
    BY <1>2, <2>4, <2>5 DEF ProcessOrderedFrame
  <2>7. AssemblyInv'
    <3> HIDE DEF added
    <3> QED BY <2>5, <2>6 DEF AssemblyInv, AssemblyOf, IsSplit
  <2>8. OrderInv'
    <3>1. CASE UNCHANGED <<channels, delivered>>
      BY <3>1, OrderKept, SentEntry DEF Grows
    <3>2. CASE LET o == ProcessOrdered(channels[c], n - 1, Body(m))
               IN  /\ channels' = [channels EXCEPT ![c] = o.state]
                   /\ delivered' = [delivered EXCEPT ![c] = @ \o o.ready]
      BY <3>2, OrderedKept
    <3> QED BY <2>6, <3>1, <3>2
  <2> QED BY <2>7, <2>8
<1>3. d.frame.reliability = "ReliableOrdered" => d.frame # PingFrame
  BY DEF PingFrame
<1> QED BY <1>1, <1>2, <1>3 DEF Take

LEMMA SendKept ==
    ASSUME NoWrap, IInv, TypeOK', NEW c \in Channel, NEW m \in Message, Send(c, m)
    PROVE  IInv'
<1>1. TypeOK /\ CountersInv /\ FramesInv /\ AssemblyInv /\ OrderInv
  BY DEF IInv
<1>2. CountersInv'
  BY <1>1, SendCounters
<1>3. FramesInv'
  BY <1>1, <1>2, SendFrames
<1>4. UNCHANGED <<pending, channels, delivered>>
  BY DEF Send, receiver
<1>5. Grows
  BY <1>1, SendExtends DEF Grows
<1>6. \A d \in Channel : Len(sent'[d]) \in Nat /\ Len(sent'[d]) >= Len(sent[d])
  <2> SUFFICES ASSUME NEW d \in Channel
               PROVE  Len(sent'[d]) \in Nat /\ Len(sent'[d]) >= Len(sent[d])
    OBVIOUS
  <2>1. Len(sent[d]) \in Nat
    BY <1>1, SentEntry
  <2>2. Len(sent'[c]) = Len(sent[c]) + 1 /\ \A k \in Channel \ {c} : sent'[k] = sent[k]
    BY <1>1, SendExtends
  <2> QED BY <2>1, <2>2
<1>7. AssemblyInv' /\ OrderInv'
  BY <1>1, <1>4, <1>5, <1>6, AssemblyKept, OrderKept
<1> QED BY <1>2, <1>3, <1>7 DEF IInv

(* A step that sends nothing and takes nothing in. *)
LEMMA QuietKept ==
    ASSUME IInv, TypeOK', FramesInv',
           UNCHANGED <<send_reliable_index, send_ordering_index, send_split_id,
                       sent, pending, channels, delivered>>
    PROVE  IInv'
<1>1. CountersInv'
  BY DEF IInv, CountersInv, IsSplit
<1>2. AssemblyInv'
  BY DEF IInv, AssemblyInv, AssemblyOf, IsSplit
<1>3. OrderInv'
  BY DEF IInv, OrderInv, Consistent, SentBody
<1> QED BY <1>1, <1>2, <1>3 DEF IInv

LEMMA NextIInv ==
    ASSUME NoWrap, IInv, [Next]_vars
    PROVE  IInv'
<1>1. TypeOK /\ CountersInv /\ FramesInv /\ AssemblyInv /\ OrderInv
  BY DEF IInv
<1>2. TypeOK'
  BY <1>1, TypeNext
<1>3. ASSUME SendSome PROVE IInv'
  BY <1>2, <1>3, SendKept DEF SendSome
<1>4. ASSUME Ping \/ QueuePong PROVE IInv'
  BY <1>1, <1>2, <1>4, PingFrames, QuietKept DEF Ping, QueuePong, receiver
<1>5. ASSUME FlushPending PROVE IInv'
  BY <1>1, <1>2, <1>5, FlushPendingFrames, QuietKept DEF FlushPending, receiver
<1>6. ASSUME NEW d \in net, Take(d), UNCHANGED sender, net' \subseteq net
      PROVE  IInv'
  <2>1. AssemblyInv' /\ OrderInv'
    BY <1>1, <1>6, TakeKept DEF sender
  <2>2. CountersInv'
    BY <1>1, <1>6 DEF sender, CountersInv, IsSplit
  <2>3. FramesInv'
    BY <1>1, <1>6 DEF sender, FramesInv
  <2> QED BY <1>2, <2>1, <2>2, <2>3 DEF IInv
<1>7. ASSUME ReceiveSome PROVE IInv'
  BY <1>6, <1>7 DEF ReceiveSome, Receive
<1>8. ASSUME NEW d \in net, Duplicate(d) PROVE IInv'
  BY <1>6, <1>8 DEF Duplicate
<1>9. ASSUME UNCHANGED <<sender, pending, channels, delivered>>, net' \subseteq net
      PROVE  IInv'
  <2>1. FramesInv'
    BY <1>1, <1>9 DEF sender, FramesInv
  <2> QED BY <1>2, <1>9, <2>1, QuietKept DEF sender
<1>10. ASSUME \/ FlushAcks
              \/ \E d \in net : LoseDatagram(d)
              \/ \E a \in acks : LoseAck(a)
              \/ UNCHANGED vars
       PROVE  IInv'
  BY <1>9, <1>10 DEF FlushAcks, LoseDatagram, LoseAck, vars, receiver, network
<1>11. ASSUME ReceiveAckSome PROVE IInv'
  <2>1. PICK a \in acks : ReceiveAck(a)
    BY <1>11 DEF ReceiveAckSome
  <2>2. \A s \in DOMAIN sent_datagrams' :
          s \in DOMAIN sent_datagrams /\ sent_datagrams'[s] = sent_datagrams[s]
    BY <2>1 DEF ReceiveAck, ProcessAck, Remove, Restrict
  <2>3. FramesInv'
    BY <1>1, <2>1, <2>2 DEF ReceiveAck, FramesInv
  <2> QED BY <1>2, <2>1, <2>3, QuietKept DEF ReceiveAck, receiver
<1>12. ASSUME NakSome PROVE IInv'
  <2>1. PICK T \in SUBSET DOMAIN sent_datagrams : ReceiveNak(T)
    BY <1>12 DEF NakSome
  <2>2. FramesInv'
    BY <1>1, <2>1, NakFrames
  <2> QED BY <1>2, <2>1, <2>2, QuietKept DEF ReceiveNak, receiver
<1>13. ASSUME TimeoutSome PROVE IInv'
  <2>1. PICK k : Timeout(k)
    BY <1>13 DEF TimeoutSome
  <2>2. FramesInv'
    BY <1>1, <2>1, TimeoutFrames
  <2> QED BY <1>2, <2>1, <2>2, QuietKept DEF Timeout, receiver
<1> QED BY <1>3, <1>4, <1>5, <1>7, <1>8, <1>10, <1>11, <1>12, <1>13 DEF Next

LEMMA IInvImpliesInOrder == IInv => InOrderDelivery
<1> SUFFICES ASSUME IInv, NEW c \in Channel
             PROVE  /\ Len(delivered[c]) <= Len(sent[c])
                    /\ \A n \in 1 .. Len(delivered[c]) :
                          delivered[c][n] = Body(sent[c][n].message)
  BY DEF InOrderDelivery
<1>1. /\ delivered[c] = [n \in 1 .. channels[c].expected_index |->
                             Body(sent[c][n].message)]
      /\ channels[c].expected_index \in Nat
      /\ channels[c].expected_index <= Len(sent[c])
  BY DEF IInv, OrderInv, Consistent, ChannelState
<1>2. Len(delivered[c]) = channels[c].expected_index
  BY <1>1
<1> QED BY <1>1, <1>2

(***************************************************************************)
(* However the network loses, duplicates and reorders, and whatever a NAK  *)
(* asks for, each channel hands up exactly the first messages sent on it,  *)
(* in order, each whole.                                                   *)
(***************************************************************************)
THEOREM DeliversInOrder ==
    ASSUME NoWrap
    PROVE  Spec => []InOrderDelivery
<1>1. Init => IInv
  BY InitIInv
<1>2. IInv /\ [Next]_vars => IInv'
  BY NextIInv
<1>3. IInv => InOrderDelivery
  BY IInvImpliesInOrder
<1> QED BY <1>1, <1>2, <1>3, PTL DEF Spec


-----------------------------------------------------------------------------
(***************************************************************************)
(* Refinement: each step is a step of the abstract stream, or invisible.   *)
(***************************************************************************)
LEMMA ProcessOrderedAdvances ==
    ASSUME NEW state, ChannelState(state), NEW index \in Nat, NEW data
    PROVE  ProcessOrdered(state, index, data).state.expected_index
             >= state.expected_index
<1> DEFINE held == Put(state.buffered, index, data)
           next == FirstGap(DOMAIN held, index)
<1>1. DOMAIN held = DOMAIN state.buffered \union {index}
  BY DEF Put
<1>2. DOMAIN held \subseteq Nat /\ IsFiniteSet(DOMAIN held)
  BY <1>1, FS_AddElement DEF ChannelState
<1>3. next \in Nat /\ next >= index
  <2> HIDE DEF held
  <2> QED BY <1>2, FirstGapIsGap
<1> HIDE DEF held, next
<1>4. CASE index = state.expected_index
  BY <1>3, <1>4 DEF ProcessOrdered, held, next
<1>5. CASE index # state.expected_index
  BY <1>5 DEF ProcessOrdered, ChannelState
<1> QED BY <1>4, <1>5

(* One datagram hands something up on one channel at most. *)
LEMMA TakeOneChannel ==
    ASSUME TypeOK, NEW d \in net, Take(d)
    PROVE  \/ UNCHANGED delivered
           \/ \E c \in Channel :
                 /\ channels'[c].expected_index >= channels[c].expected_index
                 /\ \A k \in Channel \ {c} : delivered'[k] = delivered[k]
<1>1. CASE UNCHANGED delivered
  BY <1>1
<1>2. CASE d.frame.reliability = "ReliableOrdered"
           /\ ProcessOrderedFrame(d.frame) /\ ~ UNCHANGED delivered
  <2> DEFINE f == d.frame
             c == f.ordering_channel
  <2>1. c \in Channel /\ f.ordering_index \in Nat
    BY <1>2 DEF TypeOK, Frame, PingFrame
  <2>2. PICK body :
          LET o == ProcessOrdered(channels[c], f.ordering_index, body)
          IN  /\ channels' = [channels EXCEPT ![c] = o.state]
              /\ delivered' = [delivered EXCEPT ![c] = @ \o o.ready]
    BY <1>2 DEF ProcessOrderedFrame
  <2> HIDE DEF c, f
  <2>3. ChannelState(channels[c])
    BY <2>1 DEF TypeOK, ChannelState
  <2>4. channels'[c].expected_index >= channels[c].expected_index
    BY <2>1, <2>2, <2>3, ProcessOrderedAdvances DEF TypeOK
  <2>5. \A k \in Channel \ {c} : delivered'[k] = delivered[k]
    BY <2>1, <2>2 DEF TypeOK
  <2> QED BY <2>1, <2>4, <2>5
<1> QED BY <1>1, <1>2 DEF Take

(* The history seen as payloads. *)
Payloads(history) ==
    [c \in Channel |-> [n \in 1 .. Len(history[c]) |-> Body(history[c][n].message)]]

LEMMA SendRefines ==
    ASSUME TypeOK, NEW c \in Channel, NEW m \in Message, Send(c, m)
    PROVE  Payloads(sent') = [Payloads(sent) EXCEPT ![c] = Append(@, Body(m))]
<1> DEFINE entry == [message |-> m, split_id |-> send_split_id]
           L == Len(sent[c])
           P == Payloads(sent)
<1>1. /\ entry.message = m
      /\ Len(sent'[c]) = L + 1
      /\ sent'[c][L + 1] = entry
      /\ \A d \in Channel \ {c} : sent'[d] = sent[d]
      /\ \A n \in 1 .. L : sent'[c][n] = sent[c][n]
  BY SendExtends
<1>2. L \in Nat
  BY SentEntry
<1>3. P[c] \in Seq(Bodies) /\ Len(P[c]) = L
      /\ \A n \in 1 .. L : P[c][n] = Body(sent[c][n].message)
  <2>1. P[c] = [n \in 1 .. L |-> Body(sent[c][n].message)]
    BY DEF Payloads
  <2>2. \A n \in 1 .. L : Body(sent[c][n].message) \in Bodies
    BY SentEntry DEF Bodies, Entry
  <2> HIDE DEF P, L
  <2> QED BY <1>2, <2>1, <2>2
<1>4. Body(m) \in Bodies
  BY DEF Bodies
<1>5. Append(P[c], Body(m)) = Payloads(sent')[c]
  <2> DEFINE a == Append(P[c], Body(m))
             b == Payloads(sent')[c]
  <2>1. b = [n \in 1 .. (L + 1) |-> Body(sent'[c][n].message)]
    BY <1>1 DEF Payloads
  <2> HIDE DEF P, L, entry
  <2>2. /\ DOMAIN a = 1 .. (L + 1)
        /\ a[L + 1] = Body(m)
        /\ \A n \in 1 .. L : a[n] = P[c][n]
        /\ a = [n \in DOMAIN a |-> a[n]]
    BY <1>2, <1>3, <1>4
  <2>3. ASSUME NEW n \in 1 .. (L + 1) PROVE a[n] = Body(sent'[c][n].message)
    <3>1. CASE n = L + 1
      BY <1>1, <2>2, <3>1
    <3>2. CASE n # L + 1
      <4>1. n \in 1 .. L
        BY <1>2, <3>2
      <4> QED BY <1>1, <1>3, <2>2, <4>1
    <3> QED BY <3>1, <3>2
  <2> HIDE DEF a, b
  <2> QED BY <2>1, <2>2, <2>3 DEF a, b
<1>6. \A d \in Channel \ {c} : Payloads(sent')[d] = P[d]
  BY <1>1 DEF Payloads
<1> QED BY <1>5, <1>6 DEF Payloads

LEMMA StepRefines ==
    ASSUME IInv, IInv', [Next]_vars
    PROVE  [Stream!Next]_(Stream!vars)
<1> DEFINE S == Payloads(sent)
<1>1. TypeOK
  BY DEF IInv
<1>2. CASE SendSome
  <2>1. PICK c \in Channel, m \in Message : Send(c, m)
    BY <1>2 DEF SendSome
  <2>2. Payloads(sent') = [Payloads(sent) EXCEPT ![c] = Append(@, Body(m))]
    BY <1>1, <2>1, SendRefines
  <2>3. UNCHANGED delivered
    BY <2>1 DEF Send, receiver
  <2>4. Stream!Send(c, Body(m))
    BY <2>2, <2>3 DEF Stream!Send, Payloads
  <2>5. Body(m) \in {Body(x) : x \in Message}
    OBVIOUS
  <2> QED BY <2>4, <2>5 DEF Stream!Next
<1>3. CASE UNCHANGED <<sent, delivered>>
  BY <1>3 DEF Stream!vars
<1>4. ASSUME NEW d \in net, Take(d), UNCHANGED sent
      PROVE  [Stream!Next]_(Stream!vars)
  <2>1. SUFFICES ASSUME NEW c \in Channel,
                        channels'[c].expected_index >= channels[c].expected_index,
                        \A k \in Channel \ {c} : delivered'[k] = delivered[k]
                 PROVE  [Stream!Next]_(Stream!vars)
    BY <1>1, <1>3, <1>4, TakeOneChannel
  <2> DEFINE a == channels[c].expected_index
             b == channels'[c].expected_index
             L == Len(sent[c])
             T == S[c]
  <2>2. /\ a \in Nat /\ b \in Nat /\ a <= b /\ b <= L /\ L \in Nat
        /\ delivered[c] = [n \in 1 .. a |-> Body(sent[c][n].message)]
        /\ delivered'[c] = [n \in 1 .. b |-> Body(sent[c][n].message)]
    <3>1. a \in Nat /\ L \in Nat
      BY <1>1, SentEntry DEF TypeOK
    <3>2. delivered[c] = [n \in 1 .. a |-> Body(sent[c][n].message)]
      BY DEF IInv, OrderInv
    <3>3. b \in Nat /\ b <= L
      BY <1>4 DEF IInv, OrderInv, Consistent, ChannelState
    <3>4. delivered'[c] = [n \in 1 .. b |-> Body(sent'[c][n].message)]
      BY DEF IInv, OrderInv
    <3> QED BY <1>4, <2>1, <3>1, <3>2, <3>3, <3>4
  <2>3. DOMAIN delivered = Channel /\ DOMAIN delivered' = Channel
    BY DEF IInv, TypeOK
  <2>4. T = [n \in 1 .. L |-> Body(sent[c][n].message)]
    BY DEF Payloads
  <2> HIDE DEF T, a, b, L
  <2>5. Len(T) = L /\ \A n \in 1 .. L : T[n] = Body(sent[c][n].message)
    BY <2>2, <2>4
  <2>6. delivered'[c] = SubSeq(T, 1, b)
    <3>1. SubSeq(T, 1, b) = [n \in 1 .. b |-> T[n]]
      BY <2>2, <2>4, <2>5
    <3>2. \A n \in 1 .. b : T[n] = Body(sent[c][n].message)
      BY <2>2, <2>5
    <3> QED BY <2>2, <3>1, <3>2
  <2>7. CASE a = b
    <3>1. delivered'[c] = delivered[c]
      BY <2>2, <2>7
    <3>2. \A k \in Channel : delivered'[k] = delivered[k]
      BY <2>1, <3>1
    <3>3. delivered' = delivered
      <4>1. delivered = [k \in Channel |-> delivered[k]]
            /\ delivered' = [k \in Channel |-> delivered'[k]]
        BY DEF IInv, TypeOK
      <4> QED BY <3>2, <4>1
    <3> QED BY <1>3, <1>4, <3>3
  <2>8. CASE a < b
    <3>1. delivered' = [delivered EXCEPT ![c] = SubSeq(T, 1, b)]
      <4>1. delivered' = [k \in Channel |-> delivered'[k]]
        BY DEF IInv, TypeOK
      <4> QED BY <2>1, <2>3, <2>6, <4>1
    <3>2. Len(delivered[c]) = a
      BY <2>2
    <3>3. Stream!Deliver(c, b)
      BY <1>4, <2>2, <2>5, <2>8, <3>1, <3>2 DEF Stream!Deliver, T, Payloads
    <3>4. b \in 1 .. Len(S[c])
      BY <2>2, <2>5, <2>8 DEF T
    <3> QED BY <3>3, <3>4 DEF Stream!Next, Stream!DeliverSome, Payloads
  <2> QED BY <2>2, <2>7, <2>8
<1>5. CASE ReceiveSome
  BY <1>4, <1>5 DEF ReceiveSome, Receive, sender
<1>6. CASE \E d \in net : Duplicate(d)
  BY <1>4, <1>6 DEF Duplicate, sender
<1>7. CASE \/ Ping \/ QueuePong \/ FlushPending \/ FlushAcks \/ ReceiveAckSome
           \/ NakSome \/ TimeoutSome
           \/ \E d \in net : LoseDatagram(d)
           \/ \E a \in acks : LoseAck(a)
           \/ UNCHANGED vars
  <2>1. UNCHANGED <<sent, delivered>>
    BY <1>7 DEF Ping, QueuePong, FlushPending, FlushAcks, ReceiveAckSome,
                ReceiveAck, NakSome, ReceiveNak, TimeoutSome, Timeout,
                LoseDatagram, LoseAck, vars, sender, receiver
  <2> QED BY <1>3, <2>1
<1> QED BY <1>2, <1>5, <1>6, <1>7 DEF Next

(***************************************************************************)
(* The connection implements the safety part of the ordered stream: no     *)
(* step of it, the resends, duplicates, losses and NAKs included, does     *)
(* anything its users could not see an ordered stream do.                  *)
(***************************************************************************)
THEOREM RefinesOrderedStream ==
    ASSUME NoWrap
    PROVE  Spec => StreamSafety
<1>1. Init => IInv
  BY InitIInv
<1>2. IInv /\ [Next]_vars => IInv'
  BY NextIInv
<1>3. Init => Stream!Init
  BY DEF Init, Stream!Init
<1>4. IInv /\ IInv' /\ [Next]_vars => [Stream!Next]_(Stream!vars)
  BY StepRefines
<1> QED BY <1>1, <1>2, <1>3, <1>4, PTL DEF Spec, StreamSafety, Stream!Safety
-----------------------------------------------------------------------------
(***************************************************************************)
(* The acknowledgements: no fragment is forgotten by both ends, and what   *)
(* was not lost is acknowledged.                                           *)
(***************************************************************************)
(* Datagram numbers do not come round: a number names one datagram. *)
NoReuse == MaxDatagrams <= NumberMod

-----------------------------------------------------------------------------
(* The receiver has frame f: its message was handed up or waits for its    *)
(* turn, or the fragment waits for the others.                             *)
Received(f) ==
    \/ f = PingFrame
    \/ f.ordering_index < channels[f.ordering_channel].expected_index
    \/ f.ordering_index \in DOMAIN channels[f.ordering_channel].buffered
    \/ /\ f.is_split
       /\ f.split_id \in DOMAIN pending
       /\ f.split_index \in DOMAIN pending[f.split_id].fragments

(* The numbers an ACK names, or will when it is sent. *)
Noted == received_sequences \union UNION {SequenceNumbers(a) : a \in acks}

Below == 0 .. (send_sequence_number - 1)

(* A number in flight, or noted by the receiver, was handed out, and if it *)
(* is recorded at the sender then with the frame that travels, or with one *)
(* the receiver has.  A queued datagram is not recorded.                   *)
NumbersInv ==
    /\ \A d \in net :
          /\ d.sequence_number \in Below
          /\ d.sequence_number \in DOMAIN sent_datagrams
             => sent_datagrams[d.sequence_number] = d.frame
    /\ \A d \in Range(pending_send) :
          d.number \in Below /\ d.number \notin DOMAIN sent_datagrams
    /\ \A s \in Noted :
          /\ s \in Below
          /\ s \in DOMAIN sent_datagrams => Received(sent_datagrams[s])

(* What awaits an ACK is in flight or noted, if nothing was lost. *)
NothingLostInv ==
    losses = 0 =>
        \A s \in DOMAIN sent_datagrams :
            s \in Noted \/ \E d \in net : d.sequence_number = s

(* Each frame of each message sent is with the receiver or recorded. *)
SecureInv ==
    \A c \in Channel : \A n \in 1 .. Len(sent[c]) :
        \A i \in 0 .. (Fragments[sent[c][n].message] - 1) :
            \/ Received(FrameAt(c, n, i, sent))
            \/ FrameAt(c, n, i, sent) \in Range(sent_datagrams)

-----------------------------------------------------------------------------
(***************************************************************************)
(* Taking in a datagram: the receiver has its frame from then on, and      *)
(* keeps having every frame it had.                                        *)
(***************************************************************************)
(* The frames of a message that was sent, by their place in the history. *)
LEMMA FrameFields ==
    ASSUME TypeOK, NEW c \in Channel, NEW n \in 1 .. Len(sent[c]),
           NEW i \in 0 .. (Fragments[sent[c][n].message] - 1)
    PROVE  LET f == FrameAt(c, n, i, sent)
               entry == sent[c][n]
               F == Fragments[entry.message]
           IN  /\ F \in Nat \ {0}
               /\ n - 1 \in Nat
               /\ f # PingFrame
               /\ f.reliability = "ReliableOrdered"
               /\ f.ordering_channel = c
               /\ f.ordering_index = n - 1
               /\ \/ F = 1 /\ ~ f.is_split /\ f.body = Body(entry.message)
                  \/ /\ F > 1
                     /\ f.is_split
                     /\ f.split_count = F
                     /\ f.split_id = entry.split_id
                     /\ f.split_index = i
                     /\ f.body = Body(entry.message)[i]
<1> DEFINE entry == sent[c][n]
           f == FrameAt(c, n, i, sent)
<1>1. entry \in Entry /\ n - 1 \in Nat
  BY SentEntry
<1>2. f = SplitMessage(c, n - 1, entry)[i]
  BY DEF FrameAt
<1>3. i \in 0 .. (Fragments[entry.message] - 1)
  OBVIOUS
<1> HIDE DEF entry, f
<1>4. /\ Fragments[entry.message] \in Nat \ {0}
      /\ f # PingFrame
      /\ f.reliability = "ReliableOrdered"
      /\ f.ordering_channel = c
      /\ f.ordering_index = n - 1
      /\ \/ Fragments[entry.message] = 1 /\ ~ f.is_split
            /\ f.body = Body(entry.message)
         \/ /\ Fragments[entry.message] > 1
            /\ f.is_split
            /\ f.split_count = Fragments[entry.message]
            /\ f.split_id = entry.split_id
            /\ f.split_index = i
            /\ f.body = Body(entry.message)[i]
  <2>1. LET m == entry.message
            g == SplitMessage(c, n - 1, entry)[i]
        IN  /\ Fragments[m] \in Nat \ {0}
            /\ g # PingFrame
            /\ g.reliability = "ReliableOrdered"
            /\ g.ordering_channel = c
            /\ g.ordering_index = n - 1
            /\ \/ Fragments[m] = 1 /\ ~ g.is_split /\ g.body = Body(m)
               \/ /\ Fragments[m] > 1
                  /\ g.is_split
                  /\ g.split_count = Fragments[m]
                  /\ g.split_id = entry.split_id
                  /\ g.split_index = i
                  /\ g.body = Body(m)[i]
    BY ONLY <1>1, <1>3, SplitMessageFields, c \in Channel
  <2> QED BY ONLY <1>2, <2>1
<1> QED BY <1>1, <1>4 DEF f, entry

(* What waits under the id of a split message are fragments of it. *)
LEMMA PendingOfMessage ==
    ASSUME CountersInv, AssemblyInv,
           NEW c \in Channel, NEW n \in 1 .. Len(sent[c]), IsSplit(c, n)
    PROVE  FragmentsFrom(FragmentsOf(pending, sent[c][n].split_id),
                         Body(sent[c][n].message),
                         Fragments[sent[c][n].message])
<1> DEFINE id == sent[c][n].split_id
<1>1. CASE id \in DOMAIN pending
  <2>1. PICK c2 \in Channel : \E n2 \in 1 .. Len(sent[c2]) :
          /\ IsSplit(c2, n2)
          /\ sent[c2][n2].split_id = id
          /\ FragmentsFrom(pending[id].fragments, Body(sent[c2][n2].message),
                           Fragments[sent[c2][n2].message])
    BY <1>1 DEF AssemblyInv, AssemblyOf
  <2>2. PICK n2 \in 1 .. Len(sent[c2]) :
          /\ IsSplit(c2, n2)
          /\ sent[c2][n2].split_id = id
          /\ FragmentsFrom(pending[id].fragments, Body(sent[c2][n2].message),
                           Fragments[sent[c2][n2].message])
    BY <2>1
  <2>3. c2 = c /\ n2 = n
    BY <2>2 DEF CountersInv
  <2> QED BY <1>1, <2>2, <2>3 DEF FragmentsOf
<1>2. CASE id \notin DOMAIN pending
  BY <1>2 DEF FragmentsOf, FragmentsFrom, EmptyMap
<1> QED BY <1>1, <1>2

(* Of two frames of split messages with one id, both are of one message. *)
LEMMA SameMessage ==
    ASSUME TypeOK, CountersInv,
           NEW c \in Channel, NEW n \in 1 .. Len(sent[c]), IsSplit(c, n),
           NEW g, Genuine(g, sent), g # PingFrame, g.is_split,
           g.split_id = sent[c][n].split_id
    PROVE  g.ordering_channel = c /\ g.ordering_index = n - 1
<1>1. PICK c2 \in Channel : \E n2 \in 1 .. Len(sent[c2]) :
          \E i2 \in 0 .. (Fragments[sent[c2][n2].message] - 1) :
             g = FrameAt(c2, n2, i2, sent)
  BY DEF Genuine
<1>2. PICK n2 \in 1 .. Len(sent[c2]) :
          \E i2 \in 0 .. (Fragments[sent[c2][n2].message] - 1) :
             g = FrameAt(c2, n2, i2, sent)
  BY <1>1
<1>3. PICK i2 \in 0 .. (Fragments[sent[c2][n2].message] - 1) :
             g = FrameAt(c2, n2, i2, sent)
  BY <1>2
<1>4. /\ g.ordering_channel = c2 /\ g.ordering_index = n2 - 1
      /\ IsSplit(c2, n2) /\ g.split_id = sent[c2][n2].split_id
  BY <1>3, FrameFields DEF IsSplit
<1>5. c2 = c /\ n2 = n
  <2>1. IsSplit(c2, n2) /\ sent[c2][n2].split_id = sent[c][n].split_id
    BY <1>4
  <2> QED BY <2>1 DEF CountersInv
<1> QED BY <1>4, <1>5

(* A body that is complete goes to its channel, which forgets no index. *)
LEMMA OrderedReceives ==
    ASSUME TypeOK, OrderInv,
           NEW c \in Channel, NEW n \in 1 .. Len(sent[c]),
           channels' = [channels EXCEPT
              ![c] = ProcessOrdered(@, n - 1, Body(sent[c][n].message)).state]
    PROVE  \A k \in Channel : \A x \in Nat :
              \/ x < channels[k].expected_index
              \/ x \in DOMAIN channels[k].buffered
              \/ k = c /\ x = n - 1
              => \/ x < channels'[k].expected_index
                 \/ x \in DOMAIN channels'[k].buffered
<1> DEFINE L == Len(sent[c])
           B == SentBody(c)
           state == channels[c]
<1>1. /\ L \in Nat
      /\ Consistent(state, B, L)
      /\ n - 1 \in 0 .. (L - 1)
      /\ n - 1 + 1 = n
  <2>1. L \in Nat
    BY SentEntry
  <2>2. Consistent(state, B, L)
    BY DEF OrderInv
  <2> HIDE DEF state, B, L
  <2>3. n \in 1 .. L
    BY DEF L
  <2> QED BY <2>1, <2>2, <2>3
<1>2. Body(sent[c][n].message) = B[n - 1]
  BY <1>1 DEF SentBody
<1> DEFINE o == ProcessOrdered(state, n - 1, B[n - 1])
<1> HIDE DEF B, L
<1>3. channels'[c] = o.state /\ \A k \in Channel \ {c} : channels'[k] = channels[k]
  BY <1>2 DEF TypeOK
<1> HIDE DEF state
<1>4. \A x \in Nat :
        x < state.expected_index \/ x \in DOMAIN state.buffered \/ x = n - 1
        => x < o.state.expected_index \/ x \in DOMAIN o.state.buffered
  BY <1>1, ProcessOrderedDelivers
<1> HIDE DEF o
<1> QED BY <1>3, <1>4 DEF state

LEMMA TakeReceives ==
    ASSUME IInv, NEW d \in net, Take(d)
    PROVE  /\ Received(d.frame)'
           /\ \A g : Genuine(g, sent) /\ Received(g) => Received(g)'
<1>1. TypeOK /\ CountersInv /\ FramesInv /\ AssemblyInv /\ OrderInv
  BY DEF IInv
<1>2. CASE d.frame.reliability = "Unreliable" /\ UNCHANGED <<pending, channels>>
  <2>1. d.frame = PingFrame
    BY <1>1, <1>2 DEF TypeOK, Frame
  <2> QED BY <1>2, <2>1 DEF Received
<1>3. CASE d.frame # PingFrame /\ ProcessOrderedFrame(d.frame)
  <2>1. PICK c \in Channel : \E n \in 1 .. Len(sent[c]) :
          \E i \in 0 .. (Fragments[sent[c][n].message] - 1) :
             d.frame = FrameAt(c, n, i, sent)
    BY <1>1, <1>3 DEF FramesInv, Genuine
  <2>2. PICK n \in 1 .. Len(sent[c]) :
          \E i \in 0 .. (Fragments[sent[c][n].message] - 1) :
             d.frame = FrameAt(c, n, i, sent)
    BY <2>1
  <2>3. PICK i \in 0 .. (Fragments[sent[c][n].message] - 1) :
          d.frame = FrameAt(c, n, i, sent)
    BY <2>2
  <2> DEFINE f == d.frame
             added == AddFragment(pending, f)
             m == sent[c][n].message
             id == sent[c][n].split_id
             fragments == PendingSplit(pending, f).fragments
  <2>4. /\ Fragments[m] \in Nat \ {0}
        /\ n - 1 \in Nat
        /\ f.ordering_channel = c
        /\ f.ordering_index = n - 1
        /\ \/ Fragments[m] = 1 /\ ~ f.is_split
           \/ /\ Fragments[m] > 1
              /\ f.is_split
              /\ f.split_count = Fragments[m]
              /\ f.split_id = id
              /\ f.split_index = i
              /\ f.body = Body(m)[i]
    BY <1>1, <2>3, FrameFields
  (* Genuine frames have an index, and a channel that is in use. *)
  <2>5. ASSUME NEW g, Genuine(g, sent), g # PingFrame
        PROVE  g.ordering_channel \in Channel /\ g.ordering_index \in Nat
    BY <1>1, <2>5, FrameFields DEF Genuine
  <2>6. /\ pending' = added.pending
        /\ \/ added.assembled = {} /\ UNCHANGED channels
           \/ channels' = [channels EXCEPT
                 ![c] = ProcessOrdered(@, n - 1, Body(m)).state]
    <3>1. added.assembled \subseteq {Body(m)}
      BY <1>1, <2>3, AssembledIsBody
    <3> HIDE DEF added, f
    <3>2. ASSUME NEW body \in added.assembled,
                 LET o == ProcessOrdered(channels[c], n - 1, body)
                 IN  channels' = [channels EXCEPT ![c] = o.state]
          PROVE  channels' = [channels EXCEPT
                    ![c] = ProcessOrdered(@, n - 1, Body(m)).state]
      BY <3>1, <3>2
    <3> QED BY <1>3, <2>4, <3>2 DEF ProcessOrderedFrame, added, f
  (* Without a fragment more, all that changes is in the channel. *)
  <2>7. CASE Fragments[m] = 1
    <3>1. pending' = pending /\ added.assembled # {}
      BY <2>4, <2>6, <2>7 DEF AddFragment
    <3>2. channels' = [channels EXCEPT
                 ![c] = ProcessOrdered(@, n - 1, Body(m)).state]
      BY <2>6, <3>1
    <3>3. \A k \in Channel : \A x \in Nat :
              \/ x < channels[k].expected_index
              \/ x \in DOMAIN channels[k].buffered
              \/ k = c /\ x = n - 1
              => \/ x < channels'[k].expected_index
                 \/ x \in DOMAIN channels'[k].buffered
      BY <1>1, <3>2, OrderedReceives
    <3>4. Received(f)'
      BY <2>4, <3>3 DEF Received
    <3>5. ASSUME NEW g, Genuine(g, sent), Received(g) PROVE Received(g)'
      BY <2>5, <3>1, <3>3, <3>5 DEF Received
    <3> QED BY <3>4, <3>5
  <2>8. CASE Fragments[m] > 1
    <3>1. IsSplit(c, n)
      BY <2>8 DEF IsSplit
    <3>2. /\ f.split_index \in 0 .. (Fragments[m] - 1)
          /\ Fragments[m] \in Nat
          /\ f.is_split /\ f.split_count = Fragments[m]
          /\ f.split_id = id
          /\ f.body = Body(m)[f.split_index]
          /\ FragmentsFrom(FragmentsOf(pending, f.split_id), Body(m), Fragments[m])
      BY <1>1, <2>4, <2>8, <3>1, PendingOfMessage
    <3>3. /\ f.split_index \in DOMAIN fragments
          /\ DOMAIN FragmentsOf(pending, id) \subseteq DOMAIN fragments
          /\ \/ /\ added.pending = Remove(pending, {id})
                /\ added.assembled # {}
             \/ /\ added.pending = Put(pending, id, PendingSplit(pending, f))
                /\ added.assembled = {}
      <4> HIDE DEF f, m, id
      <4>1. Assembles(pending, f, Body(m), Fragments[m])
        BY ONLY <3>2, AddFragmentAssembles
      <4> QED BY <3>2, <4>1 DEF Assembles
    <3> HIDE DEF f, added, fragments, m, id
    (* The message is complete: it went to the channel. *)
    <3>4. CASE added.pending = Remove(pending, {id}) /\ added.assembled # {}
      <4>1. channels' = [channels EXCEPT
                 ![c] = ProcessOrdered(@, n - 1, Body(m)).state]
        BY <2>6, <3>4
      <4>2. \A k \in Channel : \A x \in Nat :
              \/ x < channels[k].expected_index
              \/ x \in DOMAIN channels[k].buffered
              \/ k = c /\ x = n - 1
              => \/ x < channels'[k].expected_index
                 \/ x \in DOMAIN channels'[k].buffered
        BY <1>1, <4>1, OrderedReceives DEF m
      <4>3. Received(f)'
        BY <2>4, <4>2 DEF Received
      <4>4. ASSUME NEW g, Genuine(g, sent), Received(g), g # PingFrame
            PROVE  Received(g)'
        <5>1. g.ordering_channel \in Channel /\ g.ordering_index \in Nat
          BY <2>5, <4>4
        <5>2. CASE g.is_split /\ g.split_id = id
          <6>1. g.ordering_channel = c /\ g.ordering_index = n - 1
            BY <1>1, <3>1, <4>4, <5>2, SameMessage DEF id
          <6> QED BY <4>2, <5>1, <6>1 DEF Received
        <5>3. CASE ~ (g.is_split /\ g.split_id = id)
          <6>1. \A k \in DOMAIN pending \ {id} :
                  k \in DOMAIN pending' /\ pending'[k] = pending[k]
            BY <2>6, <3>4 DEF Remove, Restrict
          <6> QED BY <4>2, <4>4, <5>1, <5>3, <6>1 DEF Received
        <5> QED BY <5>2, <5>3
      <4>5. Received(PingFrame)'
        BY DEF Received
      <4> QED BY <4>3, <4>4, <4>5 DEF f
    (* It is not: the fragment waits. *)
    <3>5. CASE /\ added.pending = Put(pending, id, PendingSplit(pending, f))
               /\ added.assembled = {}
      <4>1. UNCHANGED channels \/ channels' = [channels EXCEPT
                 ![c] = ProcessOrdered(@, n - 1, Body(m)).state]
        BY <2>6
      <4>2. \A k \in Channel : \A x \in Nat :
              \/ x < channels[k].expected_index
              \/ x \in DOMAIN channels[k].buffered
              => \/ x < channels'[k].expected_index
                 \/ x \in DOMAIN channels'[k].buffered
        <5>1. CASE UNCHANGED channels
          BY <5>1
        <5>2. CASE channels' = [channels EXCEPT
                 ![c] = ProcessOrdered(@, n - 1, Body(m)).state]
          BY <1>1, <5>2, OrderedReceives DEF m
        <5> QED BY <4>1, <5>1, <5>2
      <4>3. /\ DOMAIN pending' = DOMAIN pending \union {id}
            /\ pending'[id].fragments = fragments
            /\ \A k \in DOMAIN pending \ {id} : pending'[k] = pending[k]
        BY <2>6, <3>5 DEF Put, fragments
      <4>4. Received(f)'
        BY <3>2, <3>3, <4>3 DEF Received
      <4>5. ASSUME NEW g, Genuine(g, sent), Received(g), g # PingFrame
            PROVE  Received(g)'
        <5>1. g.ordering_channel \in Channel /\ g.ordering_index \in Nat
          BY <2>5, <4>5
        <5>2. \A k \in DOMAIN pending :
                 /\ k \in DOMAIN pending'
                 /\ DOMAIN pending[k].fragments \subseteq DOMAIN pending'[k].fragments
          BY <3>3, <4>3 DEF FragmentsOf
        <5> QED BY <4>2, <4>5, <5>1, <5>2 DEF Received
      <4>6. Received(PingFrame)'
        BY DEF Received
      <4> QED BY <4>4, <4>5, <4>6 DEF f
    <3> QED BY <3>3, <3>4, <3>5
  <2> QED BY <2>4, <2>7, <2>8
<1>4. d.frame.reliability = "ReliableOrdered" => d.frame # PingFrame
  BY DEF PingFrame
<1> QED BY <1>2, <1>3, <1>4 DEF Take

-----------------------------------------------------------------------------
(***************************************************************************)
(* Numbers.  A datagram number on the wire is the one handed out.          *)
(***************************************************************************)
LEMMA NumberOnWire ==
    ASSUME NoReuse, TypeOK, NEW n \in Nat, n < MaxDatagrams, NEW f
    PROVE  Encode(n, f).sequence_number = n
<1>1. n \in 0 .. (NumberMod - 1)
  BY ModuliAssumption, BoundsAssumption DEF NoReuse
<1>2. n % NumberMod = n
  BY <1>1, ModuliAssumption, SmallMod
<1> QED BY <1>2 DEF Encode

(* Numbers that were handed out are below the bound. *)
LEMMA BelowBound ==
    ASSUME TypeOK, NEW n \in Below
    PROVE  n \in Nat /\ n < MaxDatagrams
BY BoundsAssumption DEF TypeOK, Below

(* Sending datagrams under fresh numbers and recording them, next to some  *)
(* of those recorded before, is what Send and Timeout do.                  *)
Records(kept, added, count) ==
    /\ DOMAIN kept \subseteq DOMAIN sent_datagrams
    /\ \A s \in DOMAIN kept : kept[s] = sent_datagrams[s]
    /\ count \in Nat
    /\ DOMAIN added =
          send_sequence_number .. (send_sequence_number + count - 1)
    /\ \A n \in DOMAIN added : Encode(n, added[n]).frame = added[n]
    /\ send_sequence_number + count <= MaxDatagrams
    /\ send_sequence_number' = send_sequence_number + count
    /\ sent_datagrams' = Merge(kept, added)
    /\ net' = net \union OnTheWire(added)
    /\ UNCHANGED <<pending_send, receiver, acks, losses>>

LEMMA RecordsNumbers ==
    ASSUME NoReuse, TypeOK, NumbersInv,
           NEW kept, NEW added, NEW count, Records(kept, added, count)
    PROVE  /\ NumbersInv'
           /\ \A s \in DOMAIN kept :
                 s \in DOMAIN sent_datagrams' /\ sent_datagrams'[s] = kept[s]
           /\ \A n \in DOMAIN added :
                 n \in DOMAIN sent_datagrams' /\ sent_datagrams'[n] = added[n]
<1>1. /\ send_sequence_number \in Nat
      /\ count \in Nat
      /\ \A s \in Below : s \in Below' /\ s \notin DOMAIN added
      /\ \A n \in DOMAIN added : n \in Below' /\ n \in Nat /\ n < MaxDatagrams
  <2>1. send_sequence_number \in Nat /\ count \in Nat /\ MaxDatagrams \in Nat
    BY BoundsAssumption DEF TypeOK, Records
  <2>2. send_sequence_number' = send_sequence_number + count
        /\ send_sequence_number + count <= MaxDatagrams
        /\ DOMAIN added =
             send_sequence_number .. (send_sequence_number + count - 1)
    BY DEF Records
  <2> QED BY <2>1, <2>2 DEF Below
<1>2. DOMAIN sent_datagrams \subseteq Below
  BY DEF TypeOK, Below
<1>3. /\ DOMAIN sent_datagrams' = DOMAIN kept \union DOMAIN added
      /\ \A n \in DOMAIN added : sent_datagrams'[n] = added[n]
      /\ \A s \in DOMAIN kept : sent_datagrams'[s] = kept[s]
  BY <1>1, <1>2 DEF Records, Merge
<1>4. \A s \in Below :
        s \in DOMAIN sent_datagrams' =>
           s \in DOMAIN sent_datagrams /\ sent_datagrams'[s] = sent_datagrams[s]
  BY <1>1, <1>3 DEF Records
<1>5. ASSUME NEW d \in net'
      PROVE  /\ d.sequence_number \in Below'
             /\ d.sequence_number \in DOMAIN sent_datagrams'
                => sent_datagrams'[d.sequence_number] = d.frame
  <2>1. CASE d \in net
    BY <1>1, <1>4, <2>1 DEF NumbersInv
  <2>2. CASE d \in OnTheWire(added)
    <3>1. PICK n \in DOMAIN added : d = Encode(n, added[n])
      BY <2>2 DEF OnTheWire
    <3>2. d.sequence_number = n /\ d.frame = added[n]
      BY <1>1, <3>1, NumberOnWire DEF Records
    <3> QED BY <1>1, <1>3, <3>2
  <2> QED BY <2>1, <2>2 DEF Records
<1>6. ASSUME NEW d \in Range(pending_send')
      PROVE  d.number \in Below' /\ d.number \notin DOMAIN sent_datagrams'
  <2>1. d \in Range(pending_send)
    BY DEF Records
  <2> QED BY <1>1, <1>4, <2>1 DEF NumbersInv
<1>7. ASSUME NEW s \in Noted'
      PROVE  /\ s \in Below'
             /\ s \in DOMAIN sent_datagrams' => Received(sent_datagrams[s])'
  <2>1. s \in Noted
    BY DEF Noted, Records, receiver
  <2>2. s \in Below /\ (s \in DOMAIN sent_datagrams => Received(sent_datagrams[s]))
    BY <2>1 DEF NumbersInv
  <2>3. ASSUME s \in DOMAIN sent_datagrams'
        PROVE  Received(sent_datagrams[s])'
    <3>1. Received(sent_datagrams[s]) /\ sent_datagrams'[s] = sent_datagrams[s]
      BY <1>4, <2>2, <2>3
    <3> QED BY <3>1 DEF Received, Records, receiver
  <2> QED BY <1>1, <2>2, <2>3
<1>8. NumbersInv'
  BY <1>5, <1>6, <1>7 DEF NumbersInv
<1> QED BY <1>3, <1>8

LEMMA RecordsLost ==
    ASSUME NoReuse, TypeOK, NumbersInv, NothingLostInv,
           NEW kept, NEW added, NEW count, Records(kept, added, count)
    PROVE  NothingLostInv'
<1> SUFFICES ASSUME losses' = 0, NEW s \in DOMAIN sent_datagrams'
             PROVE  s \in Noted' \/ \E d \in net' : d.sequence_number = s
  BY DEF NothingLostInv
<1>1. losses = 0 /\ Noted' = Noted /\ net \subseteq net'
  BY DEF Records, Noted, receiver
<1>2. CASE s \in DOMAIN kept
  BY <1>1, <1>2 DEF NothingLostInv, Records
<1>3. CASE s \in DOMAIN added
  <2>1. s \in Nat /\ s < MaxDatagrams
    <3>1. send_sequence_number \in Nat /\ count \in Nat /\ MaxDatagrams \in Nat
      BY BoundsAssumption DEF TypeOK, Records
    <3>2. /\ send_sequence_number + count <= MaxDatagrams
          /\ DOMAIN added =
               send_sequence_number .. (send_sequence_number + count - 1)
      BY DEF Records
    <3> QED BY <1>3, <3>1, <3>2
  <2>2. Encode(s, added[s]) \in net'
    BY <1>3 DEF Records, OnTheWire
  <2>3. Encode(s, added[s]).sequence_number = s
    BY <2>1, NumberOnWire
  <2> QED BY <2>2, <2>3
<1> QED BY <1>2, <1>3 DEF Records, Merge

LEMMA SendRecords ==
    ASSUME NoWrap, TypeOK, CountersInv,
           NEW c \in Channel, NEW m \in Message, Send(c, m)
    PROVE  LET entry == [message |-> m, split_id |-> send_split_id]
               frames == SplitMessage(c, send_ordering_index[c], entry)
               datagrams == BuildDatagrams(frames, send_sequence_number)
           IN  /\ Records(sent_datagrams, datagrams, Fragments[m])
               /\ Fragments[m] \in Nat \ {0}
               /\ \A i \in 0 .. (Fragments[m] - 1) :
                     /\ send_sequence_number + i \in DOMAIN datagrams
                     /\ datagrams[send_sequence_number + i] = frames[i]
<1> DEFINE entry == [message |-> m, split_id |-> send_split_id]
           F == Fragments[m]
           L == send_ordering_index[c]
           frames == SplitMessage(c, L, entry)
           datagrams == BuildDatagrams(frames, send_sequence_number)
<1>1. /\ entry \in Entry
      /\ L \in Nat
      /\ send_sequence_number \in Nat
      /\ F \in Nat \ {0}
  BY FragmentsAssumption DEF TypeOK, Entry
<1>2. DOMAIN frames = 0 .. (F - 1)
  BY <1>1, SplitMessageType
<1>3. L < IndexMod
  <2>1. L <= send_reliable_index /\ send_reliable_index < MaxMessages
        /\ send_reliable_index \in Nat
    BY DEF CountersInv, TypeOK, Send
  <2> HIDE DEF L
  <2> QED BY <1>1, <2>1, BoundsAssumption, ModuliAssumption DEF NoWrap
<1>4. \A i \in 0 .. (F - 1) : frames[i] \in Frame /\ frames[i].ordering_index = L
  <2>1. entry.message = m
    OBVIOUS
  <2> HIDE DEF entry, L
  <2> QED BY <1>1, <2>1, SplitMessageFields
<1>5. /\ DOMAIN datagrams =
            send_sequence_number .. (send_sequence_number + F - 1)
      /\ \A n \in DOMAIN datagrams : datagrams[n] = frames[n - send_sequence_number]
      /\ \A i \in 0 .. (F - 1) : datagrams[send_sequence_number + i] = frames[i]
  <2> HIDE DEF frames, F
  <2>1. /\ DOMAIN datagrams =
              send_sequence_number .. (send_sequence_number + F - 1)
        /\ \A n \in send_sequence_number .. (send_sequence_number + F - 1) :
              datagrams[n] = frames[n - send_sequence_number]
        /\ \A i \in 0 .. (F - 1) : datagrams[send_sequence_number + i] = frames[i]
    BY <1>1, <1>2, BuildDatagramsType
  <2> HIDE DEF datagrams
  <2> QED BY <2>1
<1>6. \A n \in DOMAIN datagrams : Encode(n, datagrams[n]).frame = datagrams[n]
  <2> HIDE DEF frames, F, L, datagrams
  <2>1. \A n \in DOMAIN datagrams : n - send_sequence_number \in 0 .. (F - 1)
    BY <1>1, <1>5
  <2> QED BY <1>3, <1>4, <1>5, <2>1, EncodeFrame
<1>7. /\ send_sequence_number + F <= MaxDatagrams
      /\ send_sequence_number' = send_sequence_number + F
      /\ sent_datagrams' = Merge(sent_datagrams, datagrams)
      /\ net' = net \union OnTheWire(datagrams)
      /\ UNCHANGED <<pending_send, receiver, acks, losses>>
  BY DEF Send
<1>8. \A i \in 0 .. (F - 1) : send_sequence_number + i \in DOMAIN datagrams
  <2> HIDE DEF F, datagrams
  <2> QED BY <1>1, <1>5
<1> HIDE DEF frames, datagrams, F
<1>9. Records(sent_datagrams, datagrams, F)
  BY <1>1, <1>5, <1>6, <1>7 DEF Records
<1> QED BY <1>1, <1>5, <1>8, <1>9 DEF frames, datagrams, F

LEMMA TimeoutRecords ==
    ASSUME NoWrap, IInv, NEW k, Timeout(k)
    PROVE  LET T == TimedOut(k)
               again == Renumbered(sent_datagrams, T, send_sequence_number)
           IN  /\ Records(Remove(sent_datagrams, T), again, Cardinality(T))
               /\ \A s \in T : \E n \in DOMAIN again : again[n] = sent_datagrams[s]
<1> DEFINE T == TimedOut(k)
           again == Renumbered(sent_datagrams, T, send_sequence_number)
           C == Cardinality(T)
<1>1. TypeOK /\ CountersInv /\ FramesInv
  BY DEF IInv
<1>2. T \subseteq DOMAIN sent_datagrams
  BY DEF TimedOut
<1>3. /\ send_sequence_number + C <= MaxDatagrams
      /\ send_sequence_number' = send_sequence_number + C
      /\ sent_datagrams' = Merge(Remove(sent_datagrams, T), again)
      /\ net' = net \union OnTheWire(again)
      /\ UNCHANGED <<pending_send, receiver, acks, losses>>
  BY DEF Timeout
<1> HIDE DEF T
<1>4. /\ C \in Nat
      /\ DOMAIN again = send_sequence_number .. (send_sequence_number + C - 1)
  BY <1>1, <1>2, TypeRenumbered
<1>5. \A n \in DOMAIN again : Encode(n, again[n]).frame = again[n]
  <2>1. \A n \in DOMAIN again : Genuine(again[n], sent)
    BY <1>1, <1>2, RenumberedFrames
  <2> HIDE DEF again
  <2> QED BY <1>1, <2>1, EncodeGenuine
<1>6. \A s \in T : \E n \in DOMAIN again : again[n] = sent_datagrams[s]
  <2>1. send_sequence_number \in Nat
    BY <1>1 DEF TypeOK
  <2>2. T \subseteq 0 .. (send_sequence_number - 1)
    BY <1>1, <1>2 DEF TypeOK
  <2>3. IsFiniteSet(0 .. (send_sequence_number - 1))
    BY <2>1, FS_Interval
  <2>4. IsFiniteSet(T)
    BY <2>2, <2>3, FS_Subset
  <2>5. T \subseteq Nat
    BY <2>1, <2>2
  <2>6. \A s \in T :
          /\ send_sequence_number + Rank(s, T) \in DOMAIN again
          /\ again[send_sequence_number + Rank(s, T)] = sent_datagrams[s]
    BY <2>1, <2>4, <2>5, RenumberedKeepsAll
  <2> HIDE DEF again
  <2> QED BY <2>6
<1>7. /\ DOMAIN Remove(sent_datagrams, T) \subseteq DOMAIN sent_datagrams
      /\ \A s \in DOMAIN Remove(sent_datagrams, T) :
            Remove(sent_datagrams, T)[s] = sent_datagrams[s]
  BY DEF Remove, Restrict
<1> HIDE DEF again, C
<1>8. Records(Remove(sent_datagrams, T), again, C)
  BY <1>3, <1>4, <1>5, <1>7 DEF Records
<1> QED BY <1>6, <1>8 DEF again, C, T

-----------------------------------------------------------------------------
(***************************************************************************)
(* Every step keeps NumbersInv and NothingLostInv.                         *)
(***************************************************************************)
(* A step that numbers nothing: what travels, is queued, recorded or noted *)
(* was so before.                                                          *)
LEMMA NumbersFewer ==
    ASSUME NumbersInv,
           UNCHANGED <<send_sequence_number, pending, channels>>,
           \A s \in DOMAIN sent_datagrams' :
              s \in DOMAIN sent_datagrams /\ sent_datagrams'[s] = sent_datagrams[s],
           net' \subseteq net,
           Range(pending_send') \subseteq Range(pending_send),
           Noted' \subseteq Noted
    PROVE  NumbersInv'
<1>1. Below' = Below
  BY DEF Below
<1>2. ASSUME NEW s \in Noted', s \in DOMAIN sent_datagrams'
      PROVE  Received(sent_datagrams[s])'
  <2>1. Received(sent_datagrams[s]) /\ sent_datagrams'[s] = sent_datagrams[s]
    BY <1>2 DEF NumbersInv
  <2> QED BY <2>1 DEF Received
<1> QED BY <1>1, <1>2 DEF NumbersInv

LEMMA AckOfSet ==
    ASSUME TypeOK
    PROVE  SequenceNumbers(BuildAck(received_sequences)) = received_sequences
<1>1. received_sequences \subseteq 0 .. (NumberMod - 1)
  BY DEF TypeOK
<1>2. NumberMod - 1 \in Int
  BY ModuliAssumption
<1>3. IsFiniteSet(0 .. (NumberMod - 1))
  BY <1>2, FS_Interval
<1>4. IsFiniteSet(received_sequences)
  BY <1>1, <1>3, FS_Subset
<1>5. received_sequences \subseteq Nat
  BY <1>1, <1>2
<1> QED BY <1>4, <1>5, AckNamesWhatWasReceived

LEMMA FlushAcksNotes ==
    ASSUME TypeOK, FlushAcks
    PROVE  Noted' = Noted
<1> DEFINE a == BuildAck(received_sequences)
<1>1. acks' = acks \union {a} /\ received_sequences' = {}
  BY DEF FlushAcks
<1>2. SequenceNumbers(a) = received_sequences
  BY AckOfSet
<1> HIDE DEF a
<1> QED BY <1>1, <1>2 DEF Noted

(* What an ACK takes off the table is what it names. *)
LEMMA AckRemoves ==
    ASSUME NEW a \in acks, ReceiveAck(a)
    PROVE  /\ DOMAIN sent_datagrams' = DOMAIN sent_datagrams \ SequenceNumbers(a)
           /\ \A s \in DOMAIN sent_datagrams' : sent_datagrams'[s] = sent_datagrams[s]
           /\ Noted' \subseteq Noted
           /\ Noted \subseteq Noted' \union SequenceNumbers(a)
<1>1. sent_datagrams' = Remove(sent_datagrams, SequenceNumbers(a))
      /\ acks' = acks \ {a} /\ received_sequences' = received_sequences
  BY DEF ReceiveAck, ProcessAck, receiver
<1>2. /\ DOMAIN sent_datagrams' = DOMAIN sent_datagrams \ SequenceNumbers(a)
      /\ \A s \in DOMAIN sent_datagrams' : sent_datagrams'[s] = sent_datagrams[s]
  BY <1>1 DEF Remove, Restrict
<1>3. Noted' \subseteq Noted /\ Noted \subseteq Noted' \union SequenceNumbers(a)
  BY <1>1 DEF Noted
<1> QED BY <1>2, <1>3

LEMMA NumbersAck ==
    ASSUME NumbersInv, NothingLostInv, NEW a \in acks, ReceiveAck(a)
    PROVE  NumbersInv' /\ NothingLostInv'
<1>1. UNCHANGED <<send_sequence_number, pending, channels, net, pending_send, losses>>
  BY DEF ReceiveAck, receiver
<1>2. NumbersInv'
  BY <1>1, AckRemoves, NumbersFewer
<1>3. NothingLostInv'
  BY <1>1, AckRemoves DEF NothingLostInv
<1> QED BY <1>2, <1>3

LEMMA NumbersPing ==
    ASSUME NoReuse, TypeOK, NumbersInv, NothingLostInv, Ping
    PROVE  NumbersInv' /\ NothingLostInv'
<1> DEFINE e == Encode(send_sequence_number, PingFrame)
<1>1. /\ send_sequence_number' = send_sequence_number + 1
      /\ net' = net \union {e}
      /\ UNCHANGED <<received_sequences, pending, channels, sent_datagrams,
                     pending_send, acks, losses>>
  BY DEF Ping, receiver
<1>2. send_sequence_number \in Nat /\ send_sequence_number < MaxDatagrams
  BY DEF Ping, TypeOK
<1>3. e.sequence_number = send_sequence_number
  BY <1>2, NumberOnWire
<1>4. send_sequence_number \notin DOMAIN sent_datagrams
  BY <1>2 DEF TypeOK
<1> HIDE DEF e
<1>5. Below \subseteq Below' /\ send_sequence_number \in Below'
  BY <1>1, <1>2 DEF Below
<1>6. Noted' = Noted
  BY <1>1 DEF Noted
<1>7. NumbersInv'
  BY <1>1, <1>3, <1>4, <1>5, <1>6 DEF NumbersInv, Received
<1>8. NothingLostInv'
  BY <1>1, <1>6 DEF NothingLostInv
<1> QED BY <1>7, <1>8

LEMMA RangeOfAppend ==
    ASSUME NEW R, NEW s \in Seq(R), NEW e \in R
    PROVE  Range(Append(s, e)) \subseteq Range(s) \union {e}
BY DEF Range

LEMMA NumbersPong ==
    ASSUME TypeOK, NumbersInv, NothingLostInv, QueuePong
    PROVE  NumbersInv' /\ NothingLostInv'
<1> DEFINE e == [number |-> send_sequence_number, frame |-> PingFrame]
           R == [number : 0 .. MaxDatagrams, frame : Frame]
<1>1. /\ send_sequence_number' = send_sequence_number + 1
      /\ pending_send' = Append(pending_send, e)
      /\ e.number = send_sequence_number
      /\ UNCHANGED <<received_sequences, pending, channels, sent_datagrams,
                     net, acks, losses>>
  BY DEF QueuePong, receiver, network
<1>2. send_sequence_number \in Nat /\ pending_send \in Seq(R) /\ e \in R
  BY DEF TypeOK, Frame
<1>3. send_sequence_number \notin DOMAIN sent_datagrams
  BY <1>2 DEF TypeOK
<1> HIDE DEF e, R
<1>4. Range(pending_send') \subseteq Range(pending_send) \union {e}
  BY <1>1, <1>2, RangeOfAppend
<1>5. Below \subseteq Below' /\ send_sequence_number \in Below'
  BY <1>1, <1>2 DEF Below
<1>6. Noted' = Noted
  BY <1>1 DEF Noted
<1>7. NumbersInv'
  BY <1>1, <1>3, <1>4, <1>5, <1>6 DEF NumbersInv, Received
<1>8. NothingLostInv'
  BY <1>1, <1>6 DEF NothingLostInv
<1> QED BY <1>7, <1>8

LEMMA NumbersFlush ==
    ASSUME NoReuse, TypeOK, NumbersInv, NothingLostInv, FlushPending
    PROVE  NumbersInv' /\ NothingLostInv'
<1>1. /\ net' = net \union {Encode(d.number, d.frame) : d \in Range(pending_send)}
      /\ pending_send' = <<>>
      /\ UNCHANGED <<received_sequences, pending, channels, sent_datagrams,
                     send_sequence_number, acks, losses>>
  BY DEF FlushPending, receiver
<1>2. Range(pending_send') = {}
  BY <1>1 DEF Range
<1>3. Noted' = Noted /\ Below' = Below
  BY <1>1 DEF Noted, Below
<1>4. ASSUME NEW d \in Range(pending_send)
      PROVE  /\ Encode(d.number, d.frame).sequence_number \in Below
             /\ Encode(d.number, d.frame).sequence_number \notin DOMAIN sent_datagrams
  <2>1. d.number \in Below /\ d.number \notin DOMAIN sent_datagrams
    BY DEF NumbersInv
  <2>2. Encode(d.number, d.frame).sequence_number = d.number
    BY <2>1, BelowBound, NumberOnWire
  <2> QED BY <2>1, <2>2
<1>5. NumbersInv'
  BY <1>1, <1>2, <1>3, <1>4 DEF NumbersInv, Received
<1>6. NothingLostInv'
  BY <1>1, <1>3 DEF NothingLostInv
<1> QED BY <1>5, <1>6

(* Receive takes d off the network, Duplicate does not. *)
LEMMA NumbersTake ==
    ASSUME IInv, NumbersInv, NothingLostInv, NEW d \in net, Take(d),
           net' \subseteq net, net \subseteq net' \union {d},
           UNCHANGED <<sender, acks, losses>>
    PROVE  NumbersInv' /\ NothingLostInv'
<1>1. received_sequences' = received_sequences \union {d.sequence_number}
      /\ UNCHANGED <<send_sequence_number, sent_datagrams, pending_send, acks, losses>>
  BY DEF Take, sender
<1>2. Noted' = Noted \union {d.sequence_number} /\ Below' = Below
  BY <1>1 DEF Noted, Below
<1>3. ASSUME NEW s \in Noted'
      PROVE  /\ s \in Below
             /\ s \in DOMAIN sent_datagrams => Received(sent_datagrams[s])'
  <2>1. CASE s = d.sequence_number
    <3>1. s \in Below
          /\ (s \in DOMAIN sent_datagrams => sent_datagrams[s] = d.frame)
      BY <2>1 DEF NumbersInv
    <3>2. Received(d.frame)'
      BY TakeReceives
    <3> QED BY <1>1, <3>1, <3>2 DEF Received
  <2>2. CASE s \in Noted
    <3>1. s \in Below
          /\ (s \in DOMAIN sent_datagrams => Received(sent_datagrams[s]))
      BY <2>2 DEF NumbersInv
    <3>2. s \in DOMAIN sent_datagrams => Genuine(sent_datagrams[s], sent)
      BY DEF IInv, FramesInv
    <3>3. \A g : Genuine(g, sent) /\ Received(g) => Received(g)'
      BY TakeReceives
    <3> QED BY <1>1, <3>1, <3>2, <3>3 DEF Received
  <2> QED BY <1>2, <2>1, <2>2
<1>4. NumbersInv'
  BY <1>1, <1>2, <1>3 DEF NumbersInv
<1>5. NothingLostInv'
  BY <1>1, <1>2 DEF NothingLostInv
<1> QED BY <1>4, <1>5

LEMMA RangeOfConcat ==
    ASSUME NEW R, NEW s \in Seq(R), NEW count \in Nat,
           NEW q \in [1 .. count -> R]
    PROVE  Range(s \o q) \subseteq Range(s) \union {q[i] : i \in 1 .. count}
<1>1. q \in Seq(R) /\ Len(q) = count
  OBVIOUS
<1>2. /\ DOMAIN s = 1 .. Len(s) /\ Len(s) \in Nat
      /\ DOMAIN (s \o q) = 1 .. (Len(s) + count)
      /\ \A n \in 1 .. (Len(s) + count) :
            (s \o q)[n] = IF n <= Len(s) THEN s[n] ELSE q[n - Len(s)]
  BY <1>1
<1>3. \A n \in 1 .. (Len(s) + count) : n \in 1 .. Len(s) \/ n - Len(s) \in 1 .. count
  BY <1>2
<1>4. ASSUME NEW n \in DOMAIN (s \o q)
      PROVE  (s \o q)[n] \in Range(s) \union {q[i] : i \in 1 .. count}
  BY <1>2, <1>3 DEF Range
<1> QED BY <1>4 DEF Range

LEMMA NumbersNak ==
    ASSUME TypeOK, NumbersInv, NothingLostInv, NEW T, ReceiveNak(T)
    PROVE  NumbersInv' /\ NothingLostInv'
<1> DEFINE again == Renumbered(sent_datagrams, T, send_sequence_number)
           C == Cardinality(T)
           R == [number : 0 .. MaxDatagrams, frame : Frame]
           queued == [i \in 1 .. C |->
                        [number |-> send_sequence_number + i - 1,
                         frame |-> again[send_sequence_number + i - 1]]]
<1>1. /\ T \subseteq DOMAIN sent_datagrams
      /\ send_sequence_number + C <= MaxDatagrams
      /\ send_sequence_number' = send_sequence_number + C
      /\ sent_datagrams' = Remove(sent_datagrams, T)
      /\ pending_send' = pending_send \o queued
      /\ UNCHANGED <<received_sequences, pending, channels, net, acks, losses>>
  BY DEF ReceiveNak, receiver, network
<1>2. send_sequence_number \in Nat /\ MaxDatagrams \in Nat /\ pending_send \in Seq(R)
  BY BoundsAssumption DEF TypeOK
<1>3. /\ C \in Nat
      /\ DOMAIN again = send_sequence_number .. (send_sequence_number + C - 1)
      /\ \A n \in DOMAIN again : again[n] \in Frame
  BY <1>1, TypeRenumbered
<1> HIDE DEF again, C
<1>4. ASSUME NEW i \in 1 .. C
      PROVE  /\ queued[i] \in R
             /\ queued[i].number \notin Below
             /\ queued[i].number \in Below'
  <2>1. /\ send_sequence_number + i - 1 \in 0 .. MaxDatagrams
        /\ send_sequence_number + i - 1 \in DOMAIN again
        /\ send_sequence_number + i - 1 \notin Below
        /\ send_sequence_number + i - 1 \in Below'
    BY <1>1, <1>2, <1>3 DEF Below
  <2>2. again[send_sequence_number + i - 1] \in Frame
    BY <1>3, <2>1
  <2> QED BY <2>1, <2>2
<1>5. queued \in [1 .. C -> R]
  BY <1>4
<1> HIDE DEF queued, R
<1>6. Range(pending_send') \subseteq Range(pending_send) \union {queued[i] : i \in 1 .. C}
  BY <1>1, <1>2, <1>3, <1>5, RangeOfConcat
<1>7. \A s \in DOMAIN sent_datagrams' :
         s \in DOMAIN sent_datagrams /\ sent_datagrams'[s] = sent_datagrams[s]
  BY <1>1 DEF Remove, Restrict
<1>8. /\ Below \subseteq Below'
      /\ DOMAIN sent_datagrams \subseteq Below
      /\ Noted' = Noted
  BY <1>1, <1>2, <1>3 DEF Below, Noted, TypeOK
<1>9. \A d \in Range(pending_send') :
         d.number \in Below' /\ d.number \notin DOMAIN sent_datagrams'
  BY <1>4, <1>6, <1>7, <1>8 DEF NumbersInv
<1>10. ASSUME NEW s \in Noted', s \in DOMAIN sent_datagrams'
       PROVE  Received(sent_datagrams[s])'
  <2>1. Received(sent_datagrams[s]) /\ sent_datagrams'[s] = sent_datagrams[s]
    BY <1>7, <1>8, <1>10 DEF NumbersInv
  <2> QED BY <1>1, <2>1 DEF Received
<1>11. NumbersInv'
  BY <1>1, <1>7, <1>8, <1>9, <1>10 DEF NumbersInv
<1>12. NothingLostInv'
  BY <1>1, <1>7, <1>8 DEF NothingLostInv
<1> QED BY <1>11, <1>12

AckInv == NumbersInv /\ NothingLostInv

LEMMA InitAckInv == Init => AckInv
<1> SUFFICES ASSUME Init PROVE AckInv
  OBVIOUS
<1>1. net = {} /\ Range(pending_send) = {} /\ DOMAIN sent_datagrams = {}
  BY DEF Init, Range, EmptyMap
<1>2. Noted = {}
  BY DEF Init, Noted
<1> QED BY <1>1, <1>2 DEF AckInv, NumbersInv, NothingLostInv

LEMMA NextAckInv ==
    ASSUME NoWrap, NoReuse, IInv, AckInv, [Next]_vars
    PROVE  AckInv'
<1>1. TypeOK /\ CountersInv /\ NumbersInv /\ NothingLostInv
  BY DEF IInv, AckInv
<1>2. ASSUME SendSome PROVE AckInv'
  <2>1. PICK c \in Channel, m \in Message : Send(c, m)
    BY <1>2 DEF SendSome
  <2>2. \E added : Records(sent_datagrams, added, Fragments[m])
    BY <1>1, <2>1, SendRecords
  <2> QED BY <1>1, <2>2, RecordsNumbers, RecordsLost DEF AckInv
<1>3. ASSUME TimeoutSome PROVE AckInv'
  <2>1. PICK k : Timeout(k)
    BY <1>3 DEF TimeoutSome
  <2>2. \E kept, added, count : Records(kept, added, count)
    BY <2>1, TimeoutRecords
  <2> QED BY <1>1, <2>2, RecordsNumbers, RecordsLost DEF AckInv
<1>4. ASSUME Ping \/ QueuePong \/ FlushPending PROVE AckInv'
  BY <1>1, <1>4, NumbersPing, NumbersPong, NumbersFlush DEF AckInv
<1>5. ASSUME NEW d \in net, Receive(d) PROVE AckInv'
  BY <1>1, <1>5, NumbersTake DEF AckInv, Receive
<1>6. ASSUME NEW d \in net, Duplicate(d) PROVE AckInv'
  BY <1>1, <1>6, NumbersTake DEF AckInv, Duplicate
<1>7. ASSUME FlushAcks PROVE AckInv'
  <2>1. Noted' = Noted
        /\ UNCHANGED <<send_sequence_number, pending, channels, sent_datagrams,
                       net, pending_send, losses>>
    BY <1>1, <1>7, FlushAcksNotes DEF FlushAcks, sender
  <2> QED BY <1>1, <2>1, NumbersFewer DEF AckInv, NothingLostInv
<1>8. ASSUME ReceiveAckSome PROVE AckInv'
  BY <1>1, <1>8, NumbersAck DEF ReceiveAckSome, AckInv
<1>9. ASSUME NakSome PROVE AckInv'
  BY <1>1, <1>9, NumbersNak DEF NakSome, AckInv
<1>10. ASSUME \/ \E d \in net : LoseDatagram(d)
              \/ \E a \in acks : LoseAck(a)
       PROVE  AckInv'
  <2>1. /\ net' \subseteq net
        /\ Noted' \subseteq Noted
        /\ losses' = losses + 1
        /\ UNCHANGED <<send_sequence_number, pending, channels, sent_datagrams,
                       pending_send>>
    BY <1>10 DEF LoseDatagram, LoseAck, sender, receiver, Noted
  <2>2. losses' # 0
    BY <1>1, <2>1 DEF TypeOK
  <2> QED BY <1>1, <2>1, <2>2, NumbersFewer DEF AckInv, NothingLostInv
<1>11. ASSUME UNCHANGED vars PROVE AckInv'
  <2>1. Noted' = Noted
        /\ UNCHANGED <<send_sequence_number, pending, channels, sent_datagrams,
                       net, pending_send, losses>>
    BY <1>11 DEF vars, sender, receiver, network, Noted
  <2> QED BY <1>1, <2>1, NumbersFewer DEF AckInv, NothingLostInv
<1> QED BY <1>2, <1>3, <1>4, <1>5, <1>6, <1>7, <1>8, <1>9, <1>10, <1>11
        DEF Next, ReceiveSome

(***************************************************************************)
(* Once everything that travelled has arrived and been acknowledged, and   *)
(* nothing was lost, the sender's table is empty, whatever was renumbered, *)
(* duplicated or asked for by a NAK on the way.                            *)
(***************************************************************************)
THEOREM AcknowledgedWhenQuiet ==
    ASSUME NoWrap, NoReuse
    PROVE  Spec => []QuietMeansAcknowledged
<1>1. Init => IInv /\ AckInv
  BY InitIInv, InitAckInv
<1>2. IInv /\ AckInv /\ [Next]_vars => IInv' /\ AckInv'
  BY NextIInv, NextAckInv
<1>3. AckInv => QuietMeansAcknowledged
  BY DEF AckInv, NothingLostInv, QuietMeansAcknowledged, Noted
<1> QED BY <1>1, <1>2, <1>3, PTL DEF Spec

-----------------------------------------------------------------------------
(***************************************************************************)
(* Nothing is forgotten, as long as the remote sends no NAKs.              *)
(***************************************************************************)
(* A step that sends no message: the receiver keeps what it has, and what  *)
(* leaves the table is with the receiver or recorded again.                *)
LEMMA SecureKept ==
    ASSUME SecureInv, UNCHANGED sent,
           \A f : Genuine(f, sent) /\ Received(f) => Received(f)',
           \A s \in DOMAIN sent_datagrams :
              \/ Received(sent_datagrams[s])
              \/ sent_datagrams[s] \in Range(sent_datagrams')
    PROVE  SecureInv'
<1> SUFFICES ASSUME NEW c \in Channel, NEW n \in 1 .. Len(sent[c]),
                    NEW i \in 0 .. (Fragments[sent[c][n].message] - 1)
             PROVE  \/ Received(FrameAt(c, n, i, sent))'
                    \/ FrameAt(c, n, i, sent) \in Range(sent_datagrams')
  BY DEF SecureInv, FrameAt, Received
<1> DEFINE f == FrameAt(c, n, i, sent)
<1>1. Genuine(f, sent)
  BY DEF Genuine
<1>2. Received(f) \/ f \in Range(sent_datagrams')
  BY DEF SecureInv, Range
<1>3. f' = f
  BY DEF FrameAt
<1> HIDE DEF f
<1>4. Received(f) => Received(f)'
  <2>1. PICK g : g = f
    OBVIOUS
  <2>2. Genuine(g, sent) /\ Received(g) => Received(g)'
    OBVIOUS
  <2> QED BY <1>1, <1>3, <2>1, <2>2 DEF Received
<1> QED BY <1>2, <1>4 DEF f

(* What is numbered and recorded anew leaves the rest of the table alone. *)
LEMMA RecordsKeeps ==
    ASSUME NoReuse, TypeOK, NumbersInv,
           NEW kept, NEW added, NEW count, Records(kept, added, count)
    PROVE  /\ \A s \in DOMAIN kept : sent_datagrams[s] \in Range(sent_datagrams')
           /\ \A n \in DOMAIN added : added[n] \in Range(sent_datagrams')
<1>1. \A s \in DOMAIN kept : kept[s] = sent_datagrams[s]
  BY DEF Records
<1>2. /\ \A s \in DOMAIN kept :
            s \in DOMAIN sent_datagrams' /\ sent_datagrams'[s] = kept[s]
      /\ \A n \in DOMAIN added :
            n \in DOMAIN sent_datagrams' /\ sent_datagrams'[n] = added[n]
  BY RecordsNumbers
<1> QED BY <1>1, <1>2 DEF Range

LEMMA SecureSend ==
    ASSUME NoWrap, NoReuse, TypeOK, CountersInv, NumbersInv, SecureInv,
           NEW c \in Channel, NEW m \in Message, Send(c, m)
    PROVE  SecureInv'
<1> DEFINE entry == [message |-> m, split_id |-> send_split_id]
           L == send_ordering_index[c]
           frames == SplitMessage(c, L, entry)
           datagrams == BuildDatagrams(frames, send_sequence_number)
<1>1. /\ Records(sent_datagrams, datagrams, Fragments[m])
      /\ \A i \in 0 .. (Fragments[m] - 1) :
            /\ send_sequence_number + i \in DOMAIN datagrams
            /\ datagrams[send_sequence_number + i] = frames[i]
  BY SendRecords
<1> HIDE DEF datagrams
<1>2. \A i \in 0 .. (Fragments[m] - 1) : frames[i] \in Range(sent_datagrams')
  <2>1. \A n \in DOMAIN datagrams : datagrams[n] \in Range(sent_datagrams')
    BY <1>1, RecordsKeeps
  <2> QED BY <1>1, <2>1
<1>3. \A s \in DOMAIN sent_datagrams : sent_datagrams[s] \in Range(sent_datagrams')
  BY <1>1, RecordsKeeps
<1>4. UNCHANGED <<pending, channels>>
  BY DEF Send, receiver
<1>5. /\ Len(sent[c]) = L /\ L \in Nat
      /\ Len(sent'[c]) = L + 1
      /\ sent'[c][L + 1] = entry
      /\ \A d \in Channel \ {c} : sent'[d] = sent[d]
      /\ \A n \in 1 .. L : sent'[c][n] = sent[c][n]
  BY SendExtends, SentEntry DEF CountersInv
<1>6. ASSUME NEW d \in Channel, NEW n \in 1 .. Len(sent[d]),
             sent'[d][n] = sent[d][n],
             NEW i \in 0 .. (Fragments[sent[d][n].message] - 1)
      PROVE  \/ Received(FrameAt(d, n, i, sent))'
             \/ FrameAt(d, n, i, sent') \in Range(sent_datagrams')
  <2>1. FrameAt(d, n, i, sent') = FrameAt(d, n, i, sent)
    BY <1>6 DEF FrameAt
  <2>2. \/ Received(FrameAt(d, n, i, sent))
        \/ FrameAt(d, n, i, sent) \in Range(sent_datagrams')
    BY <1>3 DEF SecureInv, Range
  <2> QED BY <1>4, <2>1, <2>2 DEF Received
<1>7. ASSUME NEW i \in 0 .. (Fragments[m] - 1)
      PROVE  FrameAt(c, L + 1, i, sent') \in Range(sent_datagrams')
  <2>1. FrameAt(c, L + 1, i, sent') = frames[i]
    BY <1>5 DEF FrameAt
  <2> QED BY <1>2, <2>1
<1> HIDE DEF frames, L
<1>8. ASSUME NEW d \in Channel, NEW n \in 1 .. Len(sent'[d]),
             NEW i \in 0 .. (Fragments[sent'[d][n].message] - 1)
      PROVE  \/ Received(FrameAt(d, n, i, sent))'
             \/ FrameAt(d, n, i, sent') \in Range(sent_datagrams')
  <2>1. CASE d = c /\ n = L + 1
    <3>1. sent'[d][n].message = m
      BY <1>5, <2>1
    <3> QED BY <1>7, <2>1, <3>1
  <2>2. CASE ~ (d = c /\ n = L + 1)
    <3>1. n \in 1 .. Len(sent[d]) /\ sent'[d][n] = sent[d][n]
      BY <1>5, <2>2
    <3> QED BY <1>6, <3>1
  <2> QED BY <2>1, <2>2
<1> QED BY <1>8 DEF SecureInv

LEMMA NextSecureInv ==
    ASSUME NoWrap, NoReuse, ~ PeerNaks, IInv, AckInv, SecureInv, [Next]_vars
    PROVE  SecureInv'
<1>1. TypeOK /\ CountersInv /\ NumbersInv
  BY DEF IInv, AckInv
<1>2. CASE SendSome
  BY <1>1, <1>2, SecureSend DEF SendSome
(* The steps that leave receiver and table alone. *)
<1>3. ASSUME UNCHANGED <<sent, sent_datagrams, pending, channels>>
      PROVE  SecureInv'
  <2>1. \A f : Genuine(f, sent) /\ Received(f) => Received(f)'
    BY <1>3 DEF Received
  <2>2. \A s \in DOMAIN sent_datagrams : sent_datagrams[s] \in Range(sent_datagrams')
    BY <1>3 DEF Range
  <2> QED BY <1>3, <2>1, <2>2, SecureKept
<1>4. CASE \/ Ping \/ QueuePong \/ FlushPending \/ FlushAcks
           \/ \E d \in net : LoseDatagram(d)
           \/ \E a \in acks : LoseAck(a)
           \/ UNCHANGED vars
  BY <1>3, <1>4 DEF Ping, QueuePong, FlushPending, FlushAcks, LoseDatagram,
                    LoseAck, vars, sender, receiver
<1>5. ASSUME NEW d \in net, Take(d), UNCHANGED sender
      PROVE  SecureInv'
  <2>1. \A f : Genuine(f, sent) /\ Received(f) => Received(f)'
    BY <1>5, TakeReceives
  <2>2. UNCHANGED <<sent, sent_datagrams>>
    BY <1>5 DEF sender
  <2>3. \A s \in DOMAIN sent_datagrams : sent_datagrams[s] \in Range(sent_datagrams')
    BY <2>2 DEF Range
  <2> QED BY <2>1, <2>2, <2>3, SecureKept
<1>6. CASE ReceiveSome
  BY <1>5, <1>6 DEF ReceiveSome, Receive
<1>7. CASE \E d \in net : Duplicate(d)
  BY <1>5, <1>7 DEF Duplicate
(* An ACK takes off the table only what the receiver has. *)
<1>8. CASE ReceiveAckSome
  <2>1. PICK a \in acks : ReceiveAck(a)
    BY <1>8 DEF ReceiveAckSome
  <2>2. UNCHANGED <<sent, pending, channels>>
    BY <2>1 DEF ReceiveAck, receiver
  <2>3. ASSUME NEW s \in DOMAIN sent_datagrams
        PROVE  \/ Received(sent_datagrams[s])
               \/ sent_datagrams[s] \in Range(sent_datagrams')
    <3>1. CASE s \in SequenceNumbers(a)
      BY <1>1, <3>1 DEF NumbersInv, Noted
    <3>2. CASE s \notin SequenceNumbers(a)
      <4>1. s \in DOMAIN sent_datagrams' /\ sent_datagrams'[s] = sent_datagrams[s]
        BY <2>1, <3>2, AckRemoves
      <4> QED BY <4>1 DEF Range
    <3> QED BY <3>1, <3>2
  <2>4. \A f : Genuine(f, sent) /\ Received(f) => Received(f)'
    BY <2>2 DEF Received
  <2> QED BY <2>2, <2>3, <2>4, SecureKept
(* What timed out is recorded again under its new number. *)
<1>9. CASE TimeoutSome
  <2>1. PICK k : Timeout(k)
    BY <1>9 DEF TimeoutSome
  <2> DEFINE T == TimedOut(k)
             again == Renumbered(sent_datagrams, T, send_sequence_number)
             kept == Remove(sent_datagrams, T)
  <2>2. /\ Records(kept, again, Cardinality(T))
        /\ \A s \in T : \E n \in DOMAIN again : again[n] = sent_datagrams[s]
    BY <2>1, TimeoutRecords
  <2>3. UNCHANGED <<sent, pending, channels>>
    BY <2>1 DEF Timeout, receiver
  <2>4. \A s \in DOMAIN sent_datagrams : s \in DOMAIN kept \/ s \in T
    BY DEF Remove, Restrict
  <2> HIDE DEF again, kept, T
  <2>5. \A s \in DOMAIN sent_datagrams : sent_datagrams[s] \in Range(sent_datagrams')
    <3>1. \A s \in DOMAIN kept : sent_datagrams[s] \in Range(sent_datagrams')
      BY <1>1, <2>2, RecordsKeeps
    <3>2. \A n \in DOMAIN again : again[n] \in Range(sent_datagrams')
      BY <1>1, <2>2, RecordsKeeps
    <3> QED BY <2>2, <2>4, <3>1, <3>2
  <2>6. \A f : Genuine(f, sent) /\ Received(f) => Received(f)'
    BY <2>3 DEF Received
  <2> QED BY <2>3, <2>5, <2>6, SecureKept
<1>10. CASE NakSome
  BY <1>10 DEF NakSome, ReceiveNak
<1> QED BY <1>2, <1>4, <1>6, <1>7, <1>8, <1>9, <1>10 DEF Next

LEMMA SecureMeansNotForgotten == IInv /\ SecureInv => NothingForgotten
<1> SUFFICES ASSUME IInv, SecureInv, NEW c \in Channel,
                    NEW n \in 0 .. (Len(sent[c]) - 1),
                    NEW i \in 0 .. (Fragments[sent[c][n + 1].message] - 1)
             PROVE  \/ Processed(c, n, i)
                    \/ Held(SplitMessage(c, n, sent[c][n + 1])[i])
  BY DEF NothingForgotten
<1>1. TypeOK
  BY DEF IInv
<1> DEFINE f == FrameAt(c, n + 1, i, sent)
<1>2. n + 1 \in 1 .. Len(sent[c]) /\ (n + 1) - 1 = n
  BY <1>1, SentEntry
<1>3. f = SplitMessage(c, n, sent[c][n + 1])[i]
  BY <1>2 DEF FrameAt
<1>4. Received(f) \/ f \in Range(sent_datagrams)
  BY <1>2 DEF SecureInv
<1>5. /\ f # PingFrame
      /\ f.ordering_channel = c
      /\ f.ordering_index = n
      /\ \/ ~ f.is_split
         \/ /\ Fragments[sent[c][n + 1].message] > 1
            /\ f.split_id = sent[c][n + 1].split_id
            /\ f.split_index = i
  BY <1>1, <1>2, FrameFields
<1> HIDE DEF f
<1>6. CASE Received(f)
  BY <1>5, <1>6 DEF Received, Processed
<1>7. CASE f \in Range(sent_datagrams)
  BY <1>3, <1>7 DEF Held
<1> QED BY <1>4, <1>6, <1>7

(***************************************************************************)
(* However the network loses, duplicates and reorders datagrams and ACKs,  *)
(* each fragment of each message sent is with the receiver or still with   *)
(* the sender, awaiting an ACK: no ACK runs ahead of what was processed,   *)
(* and no resend drops what it renumbers.                                  *)
(***************************************************************************)
THEOREM ForgetsNothing ==
    ASSUME NoWrap, NoReuse, ~ PeerNaks
    PROVE  Spec => []NothingForgotten
<1>1. Init => IInv /\ AckInv /\ SecureInv
  <2>1. Init => SecureInv
    BY DEF Init, SecureInv
  <2> QED BY <2>1, InitIInv, InitAckInv
<1>2. IInv /\ AckInv /\ SecureInv /\ [Next]_vars => IInv' /\ AckInv' /\ SecureInv'
  BY NextIInv, NextAckInv, NextSecureInv
<1>3. IInv /\ SecureInv => NothingForgotten
  BY SecureMeansNotForgotten
<1> QED BY <1>1, <1>2, <1>3, PTL DEF Spec
=============================================================================
