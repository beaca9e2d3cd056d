------------------------ MODULE MixedChannel_proof -------------------------
(***************************************************************************)
(* Proofs about MixedChannel, for all constants and whatever reliabilities *)
(* are mixed: no body is put together from fragments of two messages, what *)
(* is sequenced never comes after something newer, what is reliable comes  *)
(* in the end, and what is ordered comes in order until a sequenced        *)
(* message takes an index.  At the end, what Framing computes: that the    *)
(* fragments tile their message and fit the datagrams they are cut for.    *)
(***************************************************************************)
EXTENDS MixedChannel, ReliabilityLayer_proof

(* The ids of split messages do not come round. *)
NoIdAgain == MaxMessages < SplitMod

-----------------------------------------------------------------------------
Message == [reliability : Kind, channel : Channel, fragments : 1 .. MaxFragments]

(* The split messages, and the split_id each one got: how many of them     *)
(* went before.                                                            *)
SplitOnes == {n \in DOMAIN messages : messages[n].fragments > 1}

SplitIdOf(n) == Rank(n, SplitOnes)

(* The indices a message got on its channel: how many went before that     *)
(* took one.                                                               *)
Indexed(c) ==
    {n \in DOMAIN messages :
        messages[n].channel = c /\ IsOrdered(messages[n].reliability)}

OrderingRank(n) == Rank(n, Indexed(messages[n].channel))

SequencingRank(n) == Rank(n, Sequenced(messages[n].channel))

(* f is a frame of the nth message. *)
FrameOfMessage(f, n) ==
    /\ f.reliability = messages[n].reliability
    /\ f.ordering_channel = messages[n].channel
    /\ f.ordering_index \in Nat
    /\ IsOrdered(messages[n].reliability) => f.ordering_index = OrderingRank(n)
    /\ IsSequenced(messages[n].reliability) => f.sequencing_index = SequencingRank(n)
    /\ f.split_index \in 0 .. (messages[n].fragments - 1)
    /\ \/ ~ f.is_split /\ n \notin SplitOnes /\ f.body = Body(n, messages[n].fragments)
       \/ /\ n \in SplitOnes
          /\ f.is_split
          /\ f.split_id = SplitIdOf(n)
          /\ f.split_count = messages[n].fragments
          /\ f.body = Body(n, messages[n].fragments)[f.split_index]

Genuine(f) == \E n \in DOMAIN messages : FrameOfMessage(f, n)

(* The bodies of the messages. *)
Bodies == {Body(n, messages[n].fragments) : n \in DOMAIN messages}

SenderInv ==
    /\ messages \in Seq(Message)
    /\ send_sequence_number \in Nat
    /\ send_ordering_index = [c \in Channel |-> Cardinality(Indexed(c))]
    /\ send_sequencing_index = [c \in Channel |-> Cardinality(Sequenced(c))]
    /\ send_split_id = Cardinality(SplitOnes)
    /\ DOMAIN sent_datagrams \subseteq 0 .. (send_sequence_number - 1)

FramesInv ==
    /\ \A s \in DOMAIN sent_datagrams : Genuine(sent_datagrams[s])
    /\ \A d \in net : Genuine(d.frame)

(* Under an id wait fragments of the message with that id, not all of it. *)
AssemblyOf(p) ==
    \A id \in DOMAIN p : \E n \in SplitOnes :
        /\ SplitIdOf(n) = id
        /\ FragmentsFrom(p[id].fragments, Body(n, messages[n].fragments),
                         messages[n].fragments)
        /\ DOMAIN p[id].fragments # 0 .. (messages[n].fragments - 1)

AssemblyInv == AssemblyOf(pending)

(* What a channel holds back are bodies of messages, and what was handed   *)
(* over too.                                                               *)
BodiesInv ==
    /\ DOMAIN channels = Channel
    /\ \A c \in Channel :
          /\ ChannelState(channels[c])
          /\ \A k \in DOMAIN channels[c].buffered : channels[c].buffered[k] \in Bodies
    /\ delivered \in Seq(Bodies)

IInv == SenderInv /\ FramesInv /\ AssemblyInv /\ BodiesInv

-----------------------------------------------------------------------------
(***************************************************************************)
(* Sending: the history grows by one message, whose frames are genuine.    *)
(***************************************************************************)
LEMMA MessagesFinite ==
    ASSUME SenderInv
    PROVE  /\ Len(messages) \in Nat
           /\ DOMAIN messages = 1 .. Len(messages)
           /\ \A n \in DOMAIN messages :
                 /\ n \in Nat
                 /\ messages[n] \in Message
                 /\ messages[n].fragments \in Nat \ {0}
           /\ SplitOnes \subseteq Nat
           /\ IsFiniteSet(SplitOnes)
           /\ Cardinality(SplitOnes) \in 0 .. Len(messages)
           /\ \A c : Indexed(c) \subseteq Nat /\ IsFiniteSet(Indexed(c))
           /\ \A c : Sequenced(c) \subseteq Nat /\ IsFiniteSet(Sequenced(c))
<1>1. Len(messages) \in Nat /\ DOMAIN messages = 1 .. Len(messages)
  BY DEF SenderInv
<1>2. \A n \in DOMAIN messages :
         n \in Nat /\ messages[n] \in Message /\ messages[n].fragments \in Nat \ {0}
  <2> SUFFICES ASSUME NEW n \in DOMAIN messages
               PROVE  n \in Nat /\ messages[n] \in Message
                      /\ messages[n].fragments \in Nat \ {0}
    OBVIOUS
  <2>1. n \in Nat /\ messages[n] \in Message
    BY <1>1 DEF SenderInv
  <2>2. messages[n].fragments \in 1 .. MaxFragments
    BY <2>1 DEF Message
  <2> QED BY <2>1, <2>2, BoundsAssumption
<1>3. SplitOnes \subseteq 1 .. Len(messages)
  BY <1>1 DEF SplitOnes
<1>4. /\ IsFiniteSet(1 .. Len(messages))
      /\ Cardinality(1 .. Len(messages)) = Len(messages)
  <2> DEFINE L == Len(messages)
  <2>1. 1 \in Int /\ L \in Int
    BY <1>1
  <2>2. L = IF 1 > L THEN 0 ELSE L - 1 + 1
    BY <1>1
  <2> HIDE DEF L
  <2>3. /\ IsFiniteSet(1 .. L)
        /\ Cardinality(1 .. L) = IF 1 > L THEN 0 ELSE L - 1 + 1
    BY <2>1, FS_Interval
  <2> QED BY <2>2, <2>3 DEF L
<1>5. /\ IsFiniteSet(SplitOnes)
      /\ Cardinality(SplitOnes) <= Len(messages)
  BY <1>3, <1>4, FS_Subset
<1>6. Cardinality(SplitOnes) \in Nat
  BY <1>5, FS_CardinalityType
<1>7. ASSUME NEW T, T \subseteq 1 .. Len(messages)
      PROVE  T \subseteq Nat /\ IsFiniteSet(T)
  <2>1. T \subseteq Nat
    <3>1. \A n \in 1 .. Len(messages) : n \in Nat
      BY <1>1
    <3> QED BY <1>7, <3>1
  <2>2. IsFiniteSet(T)
    BY <1>4, <1>7, FS_Subset
  <2> QED BY <2>1, <2>2
<1>8. \A c : Indexed(c) \subseteq 1 .. Len(messages) /\ Sequenced(c) \subseteq 1 .. Len(messages)
  BY <1>1 DEF Indexed, Sequenced
<1>9. \A c : Indexed(c) \subseteq Nat /\ IsFiniteSet(Indexed(c))
  BY <1>7, <1>8
<1>10. \A c : Sequenced(c) \subseteq Nat /\ IsFiniteSet(Sequenced(c))
  BY <1>7, <1>8
<1> QED BY <1>1, <1>2, <1>3, <1>5, <1>6, <1>9, <1>10

(* The next number joins a set of message numbers or not; the ranks of     *)
(* those before it stay.                                                   *)
LEMMA RankGrows ==
    ASSUME NEW L \in Nat, NEW T, T \subseteq 1 .. L,
           NEW U, U = T \/ U = T \union {L + 1}
    PROVE  /\ L + 1 \notin T
           /\ \A n \in 1 .. L : Rank(n, U) = Rank(n, T)
           /\ Rank(L + 1, U) = Cardinality(T)
           /\ Cardinality(U) = IF L + 1 \in U THEN Cardinality(T) + 1 ELSE Cardinality(T)
<1>1. L + 1 \notin T
  BY L + 1 \notin 1 .. L
<1>2. IsFiniteSet(T)
  BY FS_Interval, FS_Subset, 1 \in Int, L \in Int
<1>3. Cardinality(U) = IF L + 1 \in U THEN Cardinality(T) + 1 ELSE Cardinality(T)
  BY <1>1, <1>2, FS_AddElement
<1>4. ASSUME NEW n \in 1 .. L PROVE Rank(n, U) = Rank(n, T)
  <2>1. ~ (L + 1 < n)
    OBVIOUS
  <2>2. {t \in U : t < n} = {t \in T : t < n}
    BY <2>1
  <2> QED BY <2>2 DEF Rank
<1>5. Rank(L + 1, U) = Cardinality(T)
  <2>1. \A t \in T : t < L + 1
    OBVIOUS
  <2>2. ~ (L + 1 < L + 1)
    OBVIOUS
  <2>3. {t \in U : t < L + 1} = T
    BY <2>1, <2>2
  <2> QED BY <2>3 DEF Rank
<1> QED BY <1>1, <1>3, <1>4, <1>5

LEMMA SendGrows ==
    ASSUME SenderInv, NEW m \in Message, Send(m), NEW L, L = Len(messages)
    PROVE  /\ \A n \in DOMAIN messages :
                 /\ n \in DOMAIN messages'
                 /\ messages'[n] = messages[n]
                 /\ (n \in SplitOnes)' <=> n \in SplitOnes
                 /\ SplitIdOf(n)' = SplitIdOf(n)
                 /\ OrderingRank(n)' = OrderingRank(n)
                 /\ SequencingRank(n)' = SequencingRank(n)
           /\ DOMAIN messages' = DOMAIN messages \union {L + 1}
           /\ L + 1 \notin DOMAIN messages
           /\ messages'[L + 1] = m
           /\ SplitIdOf(L + 1)' = send_split_id
           /\ OrderingRank(L + 1)' = send_ordering_index[m.channel]
           /\ SequencingRank(L + 1)' = send_sequencing_index[m.channel]
           /\ L + 1 \in SplitOnes' <=> m.fragments > 1
           /\ Cardinality(SplitOnes)' =
                 IF m.fragments > 1 THEN send_split_id + 1 ELSE send_split_id
           /\ \A c \in Channel : Cardinality(Indexed(c))' =
                 IF c = m.channel /\ IsOrdered(m.reliability)
                   THEN send_ordering_index[c] + 1 ELSE send_ordering_index[c]
           /\ \A c \in Channel : Cardinality(Sequenced(c))' =
                 IF c = m.channel /\ IsSequenced(m.reliability)
                   THEN send_sequencing_index[c] + 1 ELSE send_sequencing_index[c]
<1>1. /\ messages' = Append(messages, m) /\ messages \in Seq(Message)
      /\ send_split_id = Cardinality(SplitOnes)
      /\ \A c \in Channel : /\ send_ordering_index[c] = Cardinality(Indexed(c))
                           /\ send_sequencing_index[c] = Cardinality(Sequenced(c))
      /\ m.channel \in Channel
  BY DEF Send, SenderInv, Message
<1>2. L \in Nat /\ DOMAIN messages = 1 .. L
  BY MessagesFinite
<1>3. /\ DOMAIN messages' = 1 .. (L + 1)
      /\ \A n \in 1 .. L : messages'[n] = messages[n]
      /\ messages'[L + 1] = m
  BY <1>1, <1>2
<1>4. /\ \A n \in 1 .. (L + 1) : n \in 1 .. L \/ n = L + 1
      /\ L + 1 \in 1 .. (L + 1) /\ 1 .. L \subseteq 1 .. (L + 1)
      /\ L + 1 \notin 1 .. L
  BY <1>2
<1>5. /\ SplitOnes \subseteq 1 .. L
      /\ SplitOnes' = IF m.fragments > 1 THEN SplitOnes \union {L + 1} ELSE SplitOnes
  BY <1>2, <1>3, <1>4 DEF SplitOnes
<1>6. ASSUME NEW c
      PROVE  /\ Indexed(c) \subseteq 1 .. L
             /\ Indexed(c)' = IF c = m.channel /\ IsOrdered(m.reliability)
                                THEN Indexed(c) \union {L + 1} ELSE Indexed(c)
  BY <1>2, <1>3, <1>4 DEF Indexed
<1>7. ASSUME NEW c
      PROVE  /\ Sequenced(c) \subseteq 1 .. L
             /\ Sequenced(c)' = IF c = m.channel /\ IsSequenced(m.reliability)
                                  THEN Sequenced(c) \union {L + 1} ELSE Sequenced(c)
  BY <1>2, <1>3, <1>4 DEF Sequenced
<1>8. /\ \A n \in 1 .. L : Rank(n, SplitOnes') = Rank(n, SplitOnes)
      /\ Rank(L + 1, SplitOnes') = send_split_id
      /\ L + 1 \in SplitOnes' <=> m.fragments > 1
      /\ Cardinality(SplitOnes)' =
            IF m.fragments > 1 THEN send_split_id + 1 ELSE send_split_id
  <2>1. PICK T : T = SplitOnes
    OBVIOUS
  <2>2. PICK U : U = SplitOnes'
    OBVIOUS
  <2>3. /\ T \subseteq 1 .. L /\ L + 1 \notin T
        /\ U = IF m.fragments > 1 THEN T \union {L + 1} ELSE T
    BY <1>4, <1>5, <2>1, <2>2
  <2>4. /\ \A n \in 1 .. L : Rank(n, U) = Rank(n, T)
        /\ Rank(L + 1, U) = Cardinality(T)
        /\ Cardinality(U) = IF L + 1 \in U THEN Cardinality(T) + 1 ELSE Cardinality(T)
    <3>1. T \subseteq 1 .. L /\ (U = T \/ U = T \union {L + 1})
      BY <2>3
    <3> QED BY ONLY <1>2, <3>1, RankGrows
  <2>5. L + 1 \in U <=> m.fragments > 1
    BY <2>3
  <2> QED BY <1>1, <2>1, <2>2, <2>4, <2>5
<1>9. ASSUME NEW c \in Channel
      PROVE  /\ \A n \in 1 .. L : Rank(n, Indexed(c)') = Rank(n, Indexed(c))
             /\ Rank(L + 1, Indexed(c)') = send_ordering_index[c]
             /\ Cardinality(Indexed(c))' =
                   IF c = m.channel /\ IsOrdered(m.reliability)
                     THEN send_ordering_index[c] + 1 ELSE send_ordering_index[c]
  <2>1. PICK T : T = Indexed(c)
    OBVIOUS
  <2>2. PICK U : U = Indexed(c)'
    OBVIOUS
  <2>3. /\ T \subseteq 1 .. L /\ L + 1 \notin T
        /\ U = IF c = m.channel /\ IsOrdered(m.reliability) THEN T \union {L + 1} ELSE T
    BY <1>4, <1>6, <2>1, <2>2
  <2>4. /\ \A n \in 1 .. L : Rank(n, U) = Rank(n, T)
        /\ Rank(L + 1, U) = Cardinality(T)
        /\ Cardinality(U) = IF L + 1 \in U THEN Cardinality(T) + 1 ELSE Cardinality(T)
    <3>1. T \subseteq 1 .. L /\ (U = T \/ U = T \union {L + 1})
      BY <2>3
    <3> QED BY ONLY <1>2, <3>1, RankGrows
  <2>5. L + 1 \in U <=> c = m.channel /\ IsOrdered(m.reliability)
    BY <2>3
  <2>6. send_ordering_index[c] = Cardinality(T)
    BY <1>1, <2>1
  <2> QED BY <2>1, <2>2, <2>4, <2>5, <2>6
<1>10. ASSUME NEW c \in Channel
       PROVE  /\ \A n \in 1 .. L : Rank(n, Sequenced(c)') = Rank(n, Sequenced(c))
              /\ Rank(L + 1, Sequenced(c)') = send_sequencing_index[c]
              /\ Cardinality(Sequenced(c))' =
                    IF c = m.channel /\ IsSequenced(m.reliability)
                      THEN send_sequencing_index[c] + 1 ELSE send_sequencing_index[c]
  <2>1. PICK T : T = Sequenced(c)
    OBVIOUS
  <2>2. PICK U : U = Sequenced(c)'
    OBVIOUS
  <2>3. /\ T \subseteq 1 .. L /\ L + 1 \notin T
        /\ U = IF c = m.channel /\ IsSequenced(m.reliability) THEN T \union {L + 1} ELSE T
    BY <1>4, <1>7, <2>1, <2>2
  <2>4. /\ \A n \in 1 .. L : Rank(n, U) = Rank(n, T)
        /\ Rank(L + 1, U) = Cardinality(T)
        /\ Cardinality(U) = IF L + 1 \in U THEN Cardinality(T) + 1 ELSE Cardinality(T)
    <3>1. T \subseteq 1 .. L /\ (U = T \/ U = T \union {L + 1})
      BY <2>3
    <3> QED BY ONLY <1>2, <3>1, RankGrows
  <2>5. L + 1 \in U <=> c = m.channel /\ IsSequenced(m.reliability)
    BY <2>3
  <2>6. send_sequencing_index[c] = Cardinality(T)
    BY <1>1, <2>1
  <2> QED BY <2>1, <2>2, <2>4, <2>5, <2>6
<1>11. ASSUME NEW n \in 1 .. L
       PROVE  /\ SplitIdOf(n)' = SplitIdOf(n)
              /\ OrderingRank(n)' = OrderingRank(n)
              /\ SequencingRank(n)' = SequencingRank(n)
              /\ (n \in SplitOnes)' <=> n \in SplitOnes
  <2>1. messages[n].channel \in Channel /\ messages'[n] = messages[n]
    <3>1. messages[n] \in Message
      BY <1>2, MessagesFinite
    <3> QED BY <1>3, <3>1 DEF Message
  <2>2. PICK c \in Channel : c = messages[n].channel
    BY <2>1
  <2>3. /\ OrderingRank(n) = Rank(n, Indexed(c))
        /\ OrderingRank(n)' = Rank(n, Indexed(c)')
        /\ SequencingRank(n) = Rank(n, Sequenced(c))
        /\ SequencingRank(n)' = Rank(n, Sequenced(c)')
        /\ SplitIdOf(n)' = Rank(n, SplitOnes')
    BY <2>1, <2>2 DEF OrderingRank, SequencingRank, SplitIdOf
  <2>4. (n \in SplitOnes)' <=> n \in SplitOnes
    BY <1>4, <1>5
  <2> QED BY <1>8, <1>9, <1>10, <2>3, <2>4 DEF SplitIdOf
<1>12. /\ SplitIdOf(L + 1)' = Rank(L + 1, SplitOnes')
       /\ OrderingRank(L + 1)' = Rank(L + 1, Indexed(m.channel)')
       /\ SequencingRank(L + 1)' = Rank(L + 1, Sequenced(m.channel)')
  BY <1>3 DEF OrderingRank, SequencingRank, SplitIdOf
<1>13. DOMAIN messages' = DOMAIN messages \union {L + 1} /\ L + 1 \notin DOMAIN messages
  BY <1>2, <1>3, <1>4
<1>14. /\ OrderingRank(L + 1)' = send_ordering_index[m.channel]
       /\ SequencingRank(L + 1)' = send_sequencing_index[m.channel]
       /\ SplitIdOf(L + 1)' = send_split_id
  BY <1>1, <1>8, <1>9, <1>10, <1>12
<1>15. \A n \in DOMAIN messages : n \in DOMAIN messages' /\ messages'[n] = messages[n]
  BY <1>2, <1>3, <1>4
<1> QED BY <1>2, <1>3, <1>8, <1>9, <1>10, <1>11, <1>13, <1>14, <1>15

LEMMA SendFrames ==
    ASSUME SenderInv, NEW m \in Message, Send(m),
           NEW L, L = Len(messages), NEW frames, frames = Frames(m, L + 1)
    PROVE  /\ DOMAIN frames =
                 send_sequence_number .. (send_sequence_number + m.fragments - 1)
           /\ \A i \in 0 .. (m.fragments - 1) :
                 /\ send_sequence_number + i \in DOMAIN frames
                 /\ frames[send_sequence_number + i].split_index = i
           /\ \A k \in DOMAIN frames : FrameOfMessage(frames[k], L + 1)'
<1> DEFINE F == m.fragments
           n0 == send_sequence_number
<1>1. /\ n0 \in Nat /\ F \in Nat \ {0} /\ m.channel \in Channel
      /\ send_ordering_index[m.channel] \in Nat
  <2>1. F \in 1 .. MaxFragments /\ m.channel \in Channel
    BY DEF Message
  <2>2. PICK T : T = Indexed(m.channel)
    OBVIOUS
  <2>3. IsFiniteSet(T)
    BY <2>2, MessagesFinite
  <2>4. Cardinality(T) \in Nat
    BY <2>3, FS_CardinalityType
  <2>5. send_ordering_index[m.channel] = Cardinality(T)
    BY <2>1, <2>2 DEF SenderInv
  <2> QED BY <2>1, <2>4, <2>5, BoundsAssumption DEF SenderInv
<1>2. /\ messages'[L + 1] = m
      /\ SplitIdOf(L + 1)' = send_split_id
      /\ OrderingRank(L + 1)' = send_ordering_index[m.channel]
      /\ SequencingRank(L + 1)' = send_sequencing_index[m.channel]
      /\ L + 1 \in SplitOnes' <=> F > 1
  BY SendGrows
<1>3. /\ DOMAIN frames = n0 .. (n0 + F - 1)
       /\ \A k \in DOMAIN frames :
             /\ k - n0 \in 0 .. (F - 1)
             /\ frames[k] = FrameOf(m, L + 1, k - n0)
  BY <1>1 DEF Frames
<1>4. ASSUME NEW i \in 0 .. (F - 1), NEW g, g = FrameOf(m, L + 1, i)
       PROVE  FrameOfMessage(g, L + 1)' /\ g.split_index = i
  <2> DEFINE f == FrameOf(m, L + 1, i)
  <2>1. /\ f.ordering_channel = m.channel
        /\ f.ordering_index = OrderingIndex(m)
        /\ f.is_split = (F > 1)
        /\ f.split_count = F
        /\ f.split_id = send_split_id
        /\ f.split_index = i
        /\ f.body = IF F > 1 THEN <<L + 1, i>> ELSE Body(L + 1, 1)
    BY DEF FrameOf, SplitId
  <2>2. f.reliability = m.reliability /\ f.sequencing_index = SequencingIndex(m)
    BY DEF FrameOf
  <2>3. /\ OrderingIndex(m) \in Nat
        /\ IsOrdered(m.reliability) => OrderingIndex(m) = OrderingRank(L + 1)'
        /\ IsSequenced(m.reliability) => SequencingIndex(m) = SequencingRank(L + 1)'
    BY <1>1, <1>2 DEF OrderingIndex, SequencingIndex
  <2>4. Body(L + 1, F)[i] = <<L + 1, i>>
    BY DEF Body
  <2>5. F > 1 \/ F = 1
    BY <1>1
  <2>6. g = f
    BY <1>4
  <2> HIDE DEF f
  <2> QED BY <1>1, <1>2, <2>1, <2>3, <2>4, <2>5, <2>6, <2>2 DEF FrameOfMessage
<1>5. ASSUME NEW k \in DOMAIN frames
       PROVE  FrameOfMessage(frames[k], L + 1)' /\ frames[k].split_index = k - n0
  BY <1>3, <1>4
<1>6. \A i \in 0 .. (F - 1) :
          n0 + i \in DOMAIN frames /\ frames[n0 + i].split_index = i
  <2> SUFFICES ASSUME NEW i \in 0 .. (F - 1)
               PROVE  n0 + i \in DOMAIN frames /\ frames[n0 + i].split_index = i
    OBVIOUS
  <2>1. n0 + i \in n0 .. (n0 + F - 1) /\ (n0 + i) - n0 = i
    BY <1>1
  <2> QED BY <1>3, <1>5, <2>1
<1> QED BY <1>3, <1>5, <1>6

LEMMA SendKept ==
    ASSUME NoIdAgain, IInv, NEW m \in Message, Send(m)
    PROVE  IInv'
<1> DEFINE F == m.fragments
           n0 == send_sequence_number
<1>1. SenderInv /\ FramesInv /\ AssemblyInv /\ BodiesInv
  BY DEF IInv
<1>2. PICK L, frames : L = Len(messages) /\ frames = Frames(m, L + 1)
  OBVIOUS
<1>3. /\ L < MaxMessages
      /\ messages' = Append(messages, m)
      /\ send_sequence_number' = n0 + F
      /\ send_ordering_index' = IF IsOrdered(m.reliability)
              THEN [send_ordering_index EXCEPT ![m.channel] = @ + 1]
              ELSE send_ordering_index
      /\ send_sequencing_index' = IF IsSequenced(m.reliability)
              THEN [send_sequencing_index EXCEPT ![m.channel] = @ + 1]
              ELSE send_sequencing_index
      /\ send_split_id' = IF F > 1 THEN (send_split_id + 1) % SplitMod
                          ELSE send_split_id
      /\ sent_datagrams' \in {sent_datagrams, Merge(sent_datagrams, frames)}
      /\ net' = net \union OnTheWire(frames)
      /\ UNCHANGED <<pending, channels, delivered>>
  BY <1>2 DEF Send, receiver
<1>4. /\ L \in Nat
      /\ DOMAIN messages = 1 .. L
      /\ n0 \in Nat
      /\ F \in 1 .. MaxFragments /\ F \in Nat \ {0}
      /\ m.channel \in Channel
      /\ send_split_id \in 0 .. L
      /\ send_split_id = Cardinality(SplitOnes)
      /\ send_ordering_index = [c \in Channel |-> Cardinality(Indexed(c))]
      /\ send_sequencing_index = [c \in Channel |-> Cardinality(Sequenced(c))]
      /\ \A c \in Channel : send_ordering_index[c] \in Nat
      /\ DOMAIN sent_datagrams \subseteq 0 .. (n0 - 1)
  <2>1. \A c \in Channel : Cardinality(Indexed(c)) \in Nat
    BY <1>1, MessagesFinite, FS_CardinalityType
  <2> QED BY <1>1, <1>2, <2>1, MessagesFinite, BoundsAssumption DEF SenderInv, Message
<1>5. /\ \A n \in DOMAIN messages :
            /\ n \in DOMAIN messages'
            /\ messages'[n] = messages[n]
            /\ (n \in SplitOnes)' <=> n \in SplitOnes
            /\ SplitIdOf(n)' = SplitIdOf(n)
            /\ OrderingRank(n)' = OrderingRank(n)
            /\ SequencingRank(n)' = SequencingRank(n)
      /\ DOMAIN messages' = DOMAIN messages \union {L + 1}
      /\ messages'[L + 1] = m
      /\ SplitIdOf(L + 1)' = send_split_id
      /\ OrderingRank(L + 1)' = send_ordering_index[m.channel]
      /\ SequencingRank(L + 1)' = send_sequencing_index[m.channel]
      /\ L + 1 \in SplitOnes' <=> F > 1
      /\ Cardinality(SplitOnes)' = IF F > 1 THEN send_split_id + 1 ELSE send_split_id
      /\ \A c \in Channel : Cardinality(Indexed(c))' =
            IF c = m.channel /\ IsOrdered(m.reliability)
              THEN send_ordering_index[c] + 1 ELSE send_ordering_index[c]
      /\ \A c \in Channel : Cardinality(Sequenced(c))' =
            IF c = m.channel /\ IsSequenced(m.reliability)
              THEN send_sequencing_index[c] + 1 ELSE send_sequencing_index[c]
  BY <1>1, <1>2, SendGrows
(* What there was stays what it was. *)
<1>6. \A f : Genuine(f) => Genuine(f)'
  <2> SUFFICES ASSUME NEW f, NEW n \in DOMAIN messages, FrameOfMessage(f, n)
               PROVE  FrameOfMessage(f, n)' /\ n \in DOMAIN messages'
    BY DEF Genuine
  <2> QED BY <1>5 DEF FrameOfMessage
<1>7. Bodies \subseteq Bodies'
  BY <1>5 DEF Bodies
<1>8. AssemblyInv'
  <2>1. \A n \in SplitOnes : n \in DOMAIN messages
    BY DEF SplitOnes
  <2>2. pending' = pending
    BY <1>3
  <2>3. ASSUME NEW id \in DOMAIN pending
        PROVE  \E n \in SplitOnes' :
                  /\ SplitIdOf(n)' = id
                  /\ FragmentsFrom(pending[id].fragments, Body(n, messages'[n].fragments),
                                   messages'[n].fragments)
                  /\ DOMAIN pending[id].fragments # 0 .. (messages'[n].fragments - 1)
    <3>1. PICK n \in SplitOnes :
             /\ SplitIdOf(n) = id
             /\ FragmentsFrom(pending[id].fragments, Body(n, messages[n].fragments),
                              messages[n].fragments)
             /\ DOMAIN pending[id].fragments # 0 .. (messages[n].fragments - 1)
      BY <1>1 DEF AssemblyInv, AssemblyOf
    <3> QED BY <1>5, <2>1, <3>1
  <2> QED BY <2>2, <2>3 DEF AssemblyInv, AssemblyOf
<1>9. BodiesInv'
  <2>1. delivered \in Seq(Bodies')
    BY <1>1, <1>7 DEF BodiesInv
  <2> QED BY <1>1, <1>3, <1>7, <2>1 DEF BodiesInv
(* The frames of the new message. *)
<1>10. \A k \in DOMAIN frames : FrameOfMessage(frames[k], L + 1)'
  BY <1>1, <1>2, SendFrames
<1>11. ASSUME NEW k \in DOMAIN frames, NEW g, g = frames[k]
       PROVE  Genuine(g)'
  <2>1. FrameOfMessage(g, L + 1)'
    BY <1>10, <1>11
  <2> QED BY <1>5, <2>1 DEF Genuine
<1>12. FramesInv'
  <2>1. ASSUME NEW s \in DOMAIN sent_datagrams' PROVE Genuine(sent_datagrams[s])'
    <3>1. PICK g : g = sent_datagrams'[s]
      OBVIOUS
    <3>2. \/ s \in DOMAIN sent_datagrams /\ g = sent_datagrams[s]
          \/ s \in DOMAIN frames /\ g = frames[s]
      BY <1>3, <3>1 DEF Merge
    <3>3. Genuine(g)'
      <4>1. CASE s \in DOMAIN sent_datagrams /\ g = sent_datagrams[s]
        <5>1. Genuine(g)
          BY <1>1, <4>1 DEF FramesInv, Genuine
        <5> QED BY <1>6, <5>1
      <4>2. CASE s \in DOMAIN frames /\ g = frames[s]
        BY <1>11, <4>2
      <4> QED BY <3>2, <4>1, <4>2
    <3> QED BY <3>1, <3>3 DEF Genuine, FrameOfMessage
  <2>2. ASSUME NEW d \in net' PROVE Genuine(d.frame)'
    <3>1. CASE d \in net
      BY <1>1, <1>6, <3>1 DEF FramesInv
    <3>2. CASE d \in OnTheWire(frames)
      <4>1. \E k \in DOMAIN frames : d.frame = frames[k]
        BY <3>2 DEF OnTheWire
      <4> QED BY <1>11, <4>1
    <3> QED BY <1>3, <3>1, <3>2
  <2> QED BY <2>1, <2>2 DEF FramesInv
<1>13. SenderInv'
  <2>1. messages' \in Seq(Message)
    BY <1>1, <1>3 DEF SenderInv
  <2>2. send_sequence_number' \in Nat
    BY <1>3, <1>4
  <2>3. /\ send_ordering_index' = [c \in Channel |-> Cardinality(Indexed(c))']
        /\ send_sequencing_index' = [c \in Channel |-> Cardinality(Sequenced(c))']
    <3>1. ASSUME NEW h, NEW C, h = [c \in Channel |-> Cardinality(Indexed(c))'],
                 C = Channel, NEW g, g = send_ordering_index
          PROVE  send_ordering_index' = h
      <4>1. /\ g = [c \in C |-> g[c]]
            /\ \A c \in C : h[c] = IF c = m.channel /\ IsOrdered(m.reliability)
                                     THEN g[c] + 1 ELSE g[c]
            /\ h = [c \in C |-> h[c]]
        BY <1>4, <1>5, <3>1
      <4>2. send_ordering_index' = IF IsOrdered(m.reliability)
                                     THEN [g EXCEPT ![m.channel] = @ + 1] ELSE g
        BY <1>3, <3>1
      <4> QED BY <4>1, <4>2
    <3>2. ASSUME NEW h, NEW C, h = [c \in Channel |-> Cardinality(Sequenced(c))'],
                 C = Channel, NEW g, g = send_sequencing_index
          PROVE  send_sequencing_index' = h
      <4>1. /\ g = [c \in C |-> g[c]]
            /\ \A c \in C : h[c] = IF c = m.channel /\ IsSequenced(m.reliability)
                                     THEN g[c] + 1 ELSE g[c]
            /\ h = [c \in C |-> h[c]]
        BY <1>4, <1>5, <3>2
      <4>2. send_sequencing_index' = IF IsSequenced(m.reliability)
                                       THEN [g EXCEPT ![m.channel] = @ + 1] ELSE g
        BY <1>3, <3>2
      <4> QED BY <4>1, <4>2
    <3> QED BY <3>1, <3>2
  <2>4. send_split_id' = Cardinality(SplitOnes)'
    <3>1. F > 1 => (send_split_id + 1) % SplitMod = send_split_id + 1
      <4>1. send_split_id + 1 \in 0 .. (SplitMod - 1)
        BY <1>3, <1>4, BoundsAssumption, ModuliAssumption DEF NoIdAgain
      <4> QED BY <4>1, ModuliAssumption
    <3> QED BY <1>3, <1>5, <3>1
  <2>5. DOMAIN sent_datagrams' \subseteq 0 .. (send_sequence_number' - 1)
    <3>1. DOMAIN sent_datagrams' \subseteq DOMAIN sent_datagrams \union DOMAIN frames
      BY <1>3 DEF Merge
    <3>2. DOMAIN frames = n0 .. (n0 + F - 1)
      BY <1>1, <1>2, SendFrames
    <3>3. ASSUME NEW s \in DOMAIN sent_datagrams \union DOMAIN frames
          PROVE  s \in 0 .. (n0 + F - 1)
      BY <1>4, <3>2, <3>3
    <3>4. send_sequence_number' = n0 + F
      BY <1>3
    <3>5. PICK next : next = send_sequence_number' /\ next = n0 + F
      BY <3>4
    <3>6. 0 .. (send_sequence_number' - 1) = 0 .. (next - 1)
      BY <3>5
    <3>7. next - 1 = n0 + F - 1
      BY <1>4, <3>5
    <3> QED BY <3>1, <3>3, <3>6, <3>7
  <2> QED BY <2>1, <2>2, <2>3, <2>4, <2>5 DEF SenderInv
<1> QED BY <1>8, <1>9, <1>12, <1>13 DEF IInv

-----------------------------------------------------------------------------
(***************************************************************************)
(* Receiving: what is assembled is the body of a message, and ordering     *)
(* passes bodies on as they are.                                           *)
(***************************************************************************)
LEMMA RankInjective ==
    ASSUME NEW T, T \subseteq Nat, IsFiniteSet(T), NEW s \in T, NEW t \in T,
           Rank(s, T) = Rank(t, T)
    PROVE  s = t
<1>1. s \in Nat /\ t \in Nat
  OBVIOUS
<1>2. Rank(s, T) \in Nat
  <2>1. Rank(s, T) \in 0 .. (Cardinality(T) - 1) /\ Cardinality(T) \in Nat
    BY RankBelow, FS_CardinalityType
  <2> QED BY <2>1
<1>3. ~ (Rank(s, T) < Rank(t, T)) /\ ~ (Rank(t, T) < Rank(s, T))
  BY <1>2
<1>4. ~ (s < t) /\ ~ (t < s)
  BY <1>3, RankIncreases
<1> QED BY <1>1, <1>4

LEMMA SplitIdsDiffer ==
    ASSUME SenderInv, NEW n \in SplitOnes, NEW k \in SplitOnes,
           SplitIdOf(n) = SplitIdOf(k)
    PROVE  n = k
<1>1. SplitOnes \subseteq Nat /\ IsFiniteSet(SplitOnes)
  BY MessagesFinite
<1>2. Rank(n, SplitOnes) = Rank(k, SplitOnes)
  BY DEF SplitIdOf
<1> QED BY <1>1, <1>2, RankInjective

LEMMA AssembledIsBody ==
    ASSUME SenderInv, AssemblyInv, NEW f, NEW n \in DOMAIN messages,
           FrameOfMessage(f, n)
    PROVE  LET added == AddFragment(pending, f)
           IN  /\ AssemblyOf(added.pending)
               /\ \/ /\ added.assembled = {Body(n, messages[n].fragments)}
                     /\ \/ n \notin SplitOnes /\ added.pending = pending
                        \/ n \in SplitOnes /\ added.pending = Remove(pending, {SplitIdOf(n)})
                  \/ /\ added.assembled = {}
                     /\ n \in SplitOnes
                     /\ \E e :
                           /\ added.pending = Put(pending, SplitIdOf(n), e)
                           /\ f.split_index \in DOMAIN e.fragments
                           /\ DOMAIN FragmentsOf(pending, SplitIdOf(n)) \subseteq DOMAIN e.fragments
<1> DEFINE added == AddFragment(pending, f)
           F == messages[n].fragments
           B == Body(n, F)
           id == SplitIdOf(n)
<1>1. F \in Nat \ {0}
  BY MessagesFinite
<1>2. CASE ~ f.is_split
  <2>1. added.assembled = {f.body} /\ added.pending = pending
    BY <1>2 DEF AddFragment
  <2>2. f.body = B /\ n \notin SplitOnes
    BY <1>2 DEF FrameOfMessage
  <2> QED BY <1>1, <2>1, <2>2 DEF AssemblyInv
<1>3. CASE f.is_split
  <2> DEFINE e == PendingSplit(pending, f)
  <2>1. /\ n \in SplitOnes
        /\ f.split_id = id /\ f.split_count = F
        /\ f.split_index \in 0 .. (F - 1)
        /\ f.body = B[f.split_index]
    BY <1>3 DEF FrameOfMessage
  <2>2. FragmentsFrom(FragmentsOf(pending, id), B, F)
    <3>1. CASE id \in DOMAIN pending
      <4>1. PICK k \in SplitOnes :
              /\ SplitIdOf(k) = id
              /\ FragmentsFrom(pending[id].fragments,
                               Body(k, messages[k].fragments),
                               messages[k].fragments)
        BY <3>1 DEF AssemblyInv, AssemblyOf
      <4>2. k = n
        BY <2>1, <4>1, SplitIdsDiffer
      <4> QED BY <3>1, <4>1, <4>2 DEF FragmentsOf
    <3>2. CASE id \notin DOMAIN pending
      BY <3>2 DEF FragmentsOf, FragmentsFrom, EmptyMap
    <3> QED BY <3>1, <3>2
  <2>3. B = [j \in 0 .. (F - 1) |-> B[j]]
    BY DEF Body
  <2> HIDE DEF B, F, id
  <2>4. /\ FragmentsFrom(e.fragments, B, F)
        /\ f.split_index \in DOMAIN e.fragments
        /\ DOMAIN FragmentsOf(pending, id) \subseteq DOMAIN e.fragments
        /\ \/ /\ added.pending = Remove(pending, {id})
              /\ added.assembled = {B}
           \/ /\ added.pending = Put(pending, id, e)
              /\ added.assembled = {}
    <3>1. F \in Nat /\ FragmentsFrom(FragmentsOf(pending, f.split_id), B, F)
      BY <1>1, <2>1, <2>2
    <3>2. Assembles(pending, f, B, F)
      BY ONLY <1>3, <2>1, <3>1, AddFragmentAssembles
    <3> QED BY <2>1, <2>3, <3>2 DEF Assembles
  <2>5. added.assembled = {} => DOMAIN e.fragments # 0 .. (F - 1)
    <3>1. e.total_count = F
      BY <2>1 DEF PendingSplit
    <3>2. added.assembled = {} => ~ IsComplete(e)
      BY <1>3 DEF AddFragment
    <3>3. Cardinality(0 .. (F - 1)) = F
      <4>1. F - 1 \in Int /\ 0 \in Int /\ ~ (0 > F - 1) /\ (F - 1) - 0 + 1 = F
        BY <1>1 DEF F
      <4> QED BY <4>1, FS_Interval
    <3> HIDE DEF e, added
    <3> QED BY <3>1, <3>2, <3>3 DEF IsComplete
  <2> HIDE DEF added, e
  <2>6. ASSUME added.pending = Remove(pending, {id})
        PROVE  AssemblyOf(added.pending)
    BY <2>6 DEF Remove, Restrict, AssemblyInv, AssemblyOf
  <2>7. ASSUME added.pending = Put(pending, id, e), added.assembled = {}
        PROVE  AssemblyOf(added.pending)
    <3>1. /\ DOMAIN added.pending = DOMAIN pending \union {id}
          /\ added.pending[id] = e
          /\ \A k \in DOMAIN pending \ {id} : added.pending[k] = pending[k]
      BY <2>7 DEF Put
    <3>2. /\ FragmentsFrom(added.pending[id].fragments,
                           Body(n, messages[n].fragments), messages[n].fragments)
          /\ DOMAIN added.pending[id].fragments # 0 .. (messages[n].fragments - 1)
      BY <2>4, <2>5, <2>7, <3>1 DEF B, F
    <3>3. SplitIdOf(n) = id
      BY DEF id
    <3> QED BY <2>1, <3>1, <3>2, <3>3 DEF AssemblyInv, AssemblyOf
  <2>8. \/ added.pending = Remove(pending, {id}) /\ added.assembled = {B}
        \/ added.pending = Put(pending, id, e) /\ added.assembled = {}
    BY <2>4
  <2>9. CASE added.pending = Remove(pending, {id}) /\ added.assembled = {B}
    BY <2>1, <2>6, <2>9 DEF added, B, F, id
  <2>10. CASE added.pending = Put(pending, id, e) /\ added.assembled = {}
    <3>1. AssemblyOf(added.pending)
      BY <2>7, <2>10
    <3>2. \E x : /\ added.pending = Put(pending, id, x)
                 /\ f.split_index \in DOMAIN x.fragments
                 /\ DOMAIN FragmentsOf(pending, id) \subseteq DOMAIN x.fragments
      BY <2>4, <2>10
    <3> QED BY <2>1, <2>10, <3>1, <3>2 DEF added, id
  <2> QED BY <2>8, <2>9, <2>10
<1> QED BY <1>2, <1>3

(* processOrdered holds back and hands up what it was given. *)
LEMMA ProcessOrderedCarries ==
    ASSUME NEW S, NEW state, ChannelState(state),
           \A k \in DOMAIN state.buffered : state.buffered[k] \in S,
           NEW index \in Nat, NEW data \in S
    PROVE  LET o == ProcessOrdered(state, index, data)
           IN  /\ \A k \in DOMAIN o.state.buffered : o.state.buffered[k] \in S
               /\ o.ready \in Seq(S)
<1> DEFINE held == Put(state.buffered, index, data)
           next == FirstGap(DOMAIN held, index)
           o == ProcessOrdered(state, index, data)
<1>1. DOMAIN held = DOMAIN state.buffered \union {index}
  BY DEF Put
<1>2. \A k \in DOMAIN held : held[k] \in S
  BY DEF Put
<1>3. DOMAIN held \subseteq Nat /\ IsFiniteSet(DOMAIN held)
  BY <1>1, FS_AddElement DEF ChannelState
<1> HIDE DEF held
<1>4. next \in Nat /\ next >= index /\ \A k \in index .. (next - 1) : k \in DOMAIN held
  BY <1>3, FirstGapIsGap
<1> HIDE DEF next
<1>5. CASE index = state.expected_index
  <2>1. /\ o.state.buffered = Remove(held, index .. (next - 1))
        /\ o.ready = [i \in 1 .. (next - index) |-> held[index + i - 1]]
    BY <1>5 DEF ProcessOrdered, held, next
  <2> HIDE DEF o
  <2>2. \A k \in DOMAIN o.state.buffered : o.state.buffered[k] \in S
    BY <1>2, <2>1 DEF Remove, Restrict
  <2>3. ASSUME NEW i \in 1 .. (next - index) PROVE held[index + i - 1] \in S
    <3>1. index + i - 1 \in index .. (next - 1)
      BY <1>4
    <3> QED BY <1>2, <1>4, <3>1
  <2>4. next - index \in Nat
    BY <1>4
  <2>5. o.ready \in [1 .. (next - index) -> S]
    BY <2>1, <2>3
  <2> QED BY <2>2, <2>4, <2>5 DEF o
<1>6. CASE index > state.expected_index
  <2>1. o.state.buffered = held /\ o.ready = <<>>
    BY <1>6 DEF ProcessOrdered, held, ChannelState
  <2> QED BY <1>2, <2>1
<1>7. CASE ~ (index = state.expected_index) /\ ~ (index > state.expected_index)
  BY <1>7 DEF ProcessOrdered
<1> QED BY <1>5, <1>6, <1>7

(* All that is said of the messages stays said while none is sent. *)
LEMMA MessagesStay ==
    ASSUME UNCHANGED messages
    PROVE  /\ \A c : Indexed(c)' = Indexed(c) /\ Sequenced(c)' = Sequenced(c)
           /\ \A c : Ordered(c)' = Ordered(c)
           /\ SplitOnes' = SplitOnes
           /\ Bodies' = Bodies
           /\ \A n : SplitIdOf(n)' = SplitIdOf(n)
           /\ \A n : OrderingRank(n)' = OrderingRank(n)
           /\ \A n : SequencingRank(n)' = SequencingRank(n)
           /\ \A f, n : FrameOfMessage(f, n)' <=> FrameOfMessage(f, n)
<1>1. \A c : Indexed(c)' = Indexed(c) /\ Sequenced(c)' = Sequenced(c)
  BY DEF Indexed, Sequenced
<1>2. \A c : Ordered(c)' = Ordered(c)
  BY DEF Ordered
<1>3. SplitOnes' = SplitOnes /\ Bodies' = Bodies
  BY DEF SplitOnes, Bodies
<1>4. \A n : SplitIdOf(n)' = SplitIdOf(n)
  BY <1>3 DEF SplitIdOf
<1>5. \A n : OrderingRank(n)' = OrderingRank(n)
  BY <1>1 DEF OrderingRank
<1>6. \A n : SequencingRank(n)' = SequencingRank(n)
  BY <1>1 DEF SequencingRank
<1>7. \A f, n : FrameOfMessage(f, n)' <=> FrameOfMessage(f, n)
  BY <1>3, <1>4, <1>5, <1>6 DEF FrameOfMessage
<1> QED BY <1>1, <1>2, <1>3, <1>4, <1>5, <1>6, <1>7

LEMMA SenderStays ==
    ASSUME SenderInv,
           UNCHANGED <<messages, send_ordering_index, send_sequencing_index, send_split_id>>,
           send_sequence_number' \in Nat,
           DOMAIN sent_datagrams' \subseteq 0 .. (send_sequence_number' - 1)
    PROVE  SenderInv'
<1>1. \A c : Indexed(c)' = Indexed(c) /\ Sequenced(c)' = Sequenced(c)
  BY MessagesStay
<1>2. SplitOnes' = SplitOnes
  BY MessagesStay
<1>3. send_ordering_index' = [c \in Channel |-> Cardinality(Indexed(c)')]
  BY <1>1 DEF SenderInv
<1>4. send_sequencing_index' = [c \in Channel |-> Cardinality(Sequenced(c)')]
  BY <1>1 DEF SenderInv
<1>5. messages' \in Seq(Message) /\ send_split_id' = Cardinality(SplitOnes')
  BY <1>2 DEF SenderInv
<1> QED BY <1>3, <1>4, <1>5 DEF SenderInv

LEMMA ReceiverStays ==
    ASSUME AssemblyInv, BodiesInv,
           UNCHANGED <<messages, pending, channels, delivered>>
    PROVE  AssemblyInv' /\ BodiesInv'
<1>1. SplitOnes' = SplitOnes /\ Bodies' = Bodies /\ \A k : SplitIdOf(k)' = SplitIdOf(k)
  BY MessagesStay
<1>2. AssemblyInv'
  BY <1>1 DEF AssemblyInv, AssemblyOf
<1>3. BodiesInv'
  BY <1>1 DEF BodiesInv
<1> QED BY <1>2, <1>3

LEMMA TakeKept ==
    ASSUME IInv, NEW d \in net, Take(d), UNCHANGED messages
    PROVE  AssemblyInv' /\ BodiesInv'
<1> DEFINE f == d.frame
           added == AddFragment(pending, f)
           c == f.ordering_channel
<1>1. SenderInv /\ FramesInv /\ AssemblyInv /\ BodiesInv
  BY DEF IInv
<1>2. PICK n \in DOMAIN messages : FrameOfMessage(f, n)
  BY <1>1 DEF FramesInv, Genuine
<1>5. pending' = added.pending /\ ProcessReceivedFrame(f)
  BY DEF Take, ProcessReceivedFrame
<1> HIDE DEF f
<1>3. added.assembled \subseteq Bodies /\ AssemblyOf(added.pending)
  <2>1. Body(n, messages[n].fragments) \in Bodies
    BY DEF Bodies
  <2>2. /\ AssemblyOf(added.pending)
        /\ \/ added.assembled = {Body(n, messages[n].fragments)}
           \/ added.assembled = {}
    BY <1>1, <1>2, AssembledIsBody
  <2> HIDE DEF added
  <2> QED BY <2>1, <2>2
<1>4. c \in Channel /\ f.ordering_index \in Nat
  <2>1. messages[n] \in Message
    BY <1>1, MessagesFinite
  <2>2. messages[n].channel \in Channel
    BY <2>1 DEF Message
  <2> QED BY <1>2, <2>2 DEF FrameOfMessage
<1>6. AssemblyInv'
  <2> HIDE DEF added
  <2>1. SplitOnes' = SplitOnes /\ \A k : SplitIdOf(k)' = SplitIdOf(k)
    BY MessagesStay
  <2> QED BY <1>3, <1>5, <2>1 DEF AssemblyInv, AssemblyOf
<1>7. Bodies' = Bodies
  BY DEF Bodies
<1>8. \/ UNCHANGED <<channels, delivered>>
      \/ \E body \in Bodies :
           \/ UNCHANGED channels /\ delivered' = Append(delivered, body)
           \/ LET o == ProcessOrdered(channels[c], f.ordering_index, body)
              IN  /\ channels' = [channels EXCEPT ![c] = o.state]
                  /\ delivered' = delivered \o o.ready
  BY <1>3, <1>5 DEF ProcessReceivedFrame, ProcessSequenced, ProcessOrderedBody,
                    DeliverNow
<1> HIDE DEF c, added
<1>9. BodiesInv'
  <2>1. CASE UNCHANGED <<channels, delivered>>
    BY <1>1, <1>7, <2>1 DEF BodiesInv
  <2>2. ASSUME NEW body \in Bodies, UNCHANGED channels,
               delivered' = Append(delivered, body)
        PROVE  BodiesInv'
    <3>1. delivered' \in Seq(Bodies)
      BY <1>1, <2>2 DEF BodiesInv
    <3> QED BY <1>1, <1>7, <2>2, <3>1 DEF BodiesInv
  <2>3. ASSUME NEW body \in Bodies,
               LET o == ProcessOrdered(channels[c], f.ordering_index, body)
               IN  /\ channels' = [channels EXCEPT ![c] = o.state]
                   /\ delivered' = delivered \o o.ready
        PROVE  BodiesInv'
    <3> DEFINE o == ProcessOrdered(channels[c], f.ordering_index, body)
    <3>1. /\ ChannelState(channels[c])
          /\ \A k \in DOMAIN channels[c].buffered : channels[c].buffered[k] \in Bodies
          /\ DOMAIN channels = Channel
      BY <1>1, <1>4 DEF BodiesInv
    <3>2. ChannelState(o.state)
      BY <1>4, <3>1, ProcessOrderedType
    <3>3. /\ \A k \in DOMAIN o.state.buffered : o.state.buffered[k] \in Bodies
          /\ o.ready \in Seq(Bodies)
      <4> DEFINE S == Bodies
      <4>1. body \in S /\ \A k \in DOMAIN channels[c].buffered :
                             channels[c].buffered[k] \in S
        BY <3>1
      <4> HIDE DEF S
      <4>2. /\ \A k \in DOMAIN o.state.buffered : o.state.buffered[k] \in S
            /\ o.ready \in Seq(S)
        BY <1>4, <3>1, <4>1, ProcessOrderedCarries
      <4> QED BY <4>2 DEF S
    <3> HIDE DEF o
    <3>4. delivered' \in Seq(Bodies)
      BY <1>1, <2>3, <3>3 DEF BodiesInv, o
    <3>5. /\ DOMAIN channels' = Channel
          /\ channels'[c] = o.state
          /\ \A k \in Channel \ {c} : channels'[k] = channels[k]
      BY <1>4, <2>3, <3>1 DEF o
    <3>6. \A k \in Channel :
             /\ ChannelState(channels'[k])
             /\ \A x \in DOMAIN channels'[k].buffered : channels'[k].buffered[x] \in Bodies
      BY <1>1, <3>2, <3>3, <3>5 DEF BodiesInv
    <3> QED BY <1>7, <3>4, <3>5, <3>6 DEF BodiesInv
  <2> QED BY <1>8, <2>1, <2>2, <2>3
<1> QED BY <1>6, <1>9

-----------------------------------------------------------------------------
(***************************************************************************)
(* Every step keeps the invariant.                                         *)
(***************************************************************************)
(* What is genuine stays so as long as no message is sent. *)
LEMMA FramesKept ==
    ASSUME IInv, UNCHANGED messages,
           \A s \in DOMAIN sent_datagrams' : \E t \in DOMAIN sent_datagrams :
              sent_datagrams'[s] = sent_datagrams[t],
           \A d \in net' :
              \/ d \in net
              \/ \E t \in DOMAIN sent_datagrams : d.frame = sent_datagrams[t]
    PROVE  FramesInv'
<1>1. \A f : Genuine(f) => Genuine(f)'
  <2>1. \A f, n : FrameOfMessage(f, n)' <=> FrameOfMessage(f, n)
    BY MessagesStay
  <2> QED BY <2>1 DEF Genuine
<1>2. /\ \A t \in DOMAIN sent_datagrams : Genuine(sent_datagrams[t])
      /\ \A d \in net : Genuine(d.frame)
  BY DEF IInv, FramesInv
<1>3. ASSUME NEW s \in DOMAIN sent_datagrams' PROVE Genuine(sent_datagrams[s])'
  <2>1. PICK g : g = sent_datagrams'[s]
    OBVIOUS
  <2>2. Genuine(g)
    BY <1>2, <2>1
  <2>3. Genuine(g)'
    BY <1>1, <2>2
  <2> QED BY <2>1, <2>3 DEF Genuine, FrameOfMessage
<1>4. ASSUME NEW d \in net' PROVE Genuine(d.frame)'
  <2>1. Genuine(d.frame)
    BY <1>2
  <2> QED BY <1>1, <2>1
<1> QED BY <1>3, <1>4 DEF FramesInv

LEMMA TimeoutKept ==
    ASSUME IInv, NEW k, Timeout(k)
    PROVE  IInv'
<1> DEFINE old == {s \in DOMAIN sent_datagrams : s < k}
           n0 == send_sequence_number
           again == Renumbered(sent_datagrams, old, n0)
           C == Cardinality(old)
<1>1. /\ n0 \in Nat
      /\ DOMAIN sent_datagrams \subseteq 0 .. (n0 - 1)
  BY DEF IInv, SenderInv
<1>2. old \subseteq 0 .. (n0 - 1)
  BY <1>1
<1>3. old \subseteq Nat /\ IsFiniteSet(old)
  <2>1. IsFiniteSet(0 .. (n0 - 1))
    BY <1>1, FS_Interval
  <2>2. old \subseteq Nat
    BY <1>1, <1>2
  <2> HIDE DEF old
  <2> QED BY <1>2, <2>1, <2>2, FS_Subset
<1>4. /\ send_sequence_number' = n0 + C
      /\ sent_datagrams' = Merge(Remove(sent_datagrams, old), again)
      /\ net' = net \union OnTheWire(again)
      /\ UNCHANGED <<messages, send_ordering_index, send_sequencing_index,
                     send_split_id, pending, channels, delivered>>
  BY DEF Timeout, receiver
<1>5. old \subseteq DOMAIN sent_datagrams
  OBVIOUS
<1> HIDE DEF old
<1>6. /\ C \in Nat
      /\ DOMAIN again = n0 .. (n0 + C - 1)
  BY <1>1, <1>3, RenumberedDomain
<1>7. \A n \in DOMAIN again : \E t \in DOMAIN sent_datagrams :
         again[n] = sent_datagrams[t]
  <2>1. \A n \in DOMAIN again : \E s \in old : again[n] = sent_datagrams[s]
    BY <1>1, <1>3, RenumberedAddsNone
  <2> HIDE DEF again
  <2> QED BY <1>5, <2>1
<1> HIDE DEF again, C
<1>8. \A s \in DOMAIN sent_datagrams' : \E t \in DOMAIN sent_datagrams :
         sent_datagrams'[s] = sent_datagrams[t]
  BY <1>4, <1>7 DEF Merge, Remove, Restrict
<1>9. \A d \in net' :
         \/ d \in net
         \/ \E t \in DOMAIN sent_datagrams : d.frame = sent_datagrams[t]
  BY <1>4, <1>7 DEF OnTheWire
<1>10. FramesInv'
  BY <1>4, <1>8, <1>9, FramesKept
<1>11. SenderInv'
  <2>1. DOMAIN sent_datagrams' \subseteq DOMAIN sent_datagrams \union DOMAIN again
    BY <1>4 DEF Merge, Remove, Restrict
  <2>2. \A s \in DOMAIN sent_datagrams \union DOMAIN again : s \in 0 .. (n0 + C - 1)
    BY <1>1, <1>6
  <2>3. send_sequence_number' \in Nat /\ send_sequence_number' - 1 = n0 + C - 1
    BY <1>1, <1>4, <1>6
  <2>4. DOMAIN sent_datagrams' \subseteq 0 .. (send_sequence_number' - 1)
    BY <2>1, <2>2, <2>3
  <2> QED BY <1>4, <2>3, <2>4, SenderStays DEF IInv
<1>12. AssemblyInv' /\ BodiesInv'
  BY <1>4, ReceiverStays DEF IInv
<1> QED BY <1>10, <1>11, <1>12 DEF IInv

LEMMA NextIInv ==
    ASSUME NoIdAgain, IInv, [Next]_vars
    PROVE  IInv'
<1>1. ASSUME SendSome PROVE IInv'
  BY <1>1, SendKept DEF SendSome, Message
<1>2. ASSUME \E s \in DOMAIN sent_datagrams : Timeout(s + 1) PROVE IInv'
  BY <1>2, TimeoutKept
<1>3. ASSUME NEW d \in net, Take(d), UNCHANGED sender, net' \subseteq net
      PROVE  IInv'
  <2>1. AssemblyInv' /\ BodiesInv'
    BY <1>3, TakeKept DEF sender
  <2>2. SenderInv'
    <3>1. SenderInv
      BY DEF IInv
    <3>2. /\ send_sequence_number' \in Nat
          /\ DOMAIN sent_datagrams' \subseteq 0 .. (send_sequence_number' - 1)
      BY <1>3, <3>1 DEF sender, SenderInv
    <3> QED BY <1>3, <3>1, <3>2, SenderStays DEF sender
  <2>3. FramesInv'
    BY <1>3, FramesKept DEF sender
  <2> QED BY <2>1, <2>2, <2>3 DEF IInv
<1>4. ASSUME NEW d \in net, Receive(d) \/ Duplicate(d) PROVE IInv'
  BY <1>3, <1>4 DEF Receive, Duplicate
(* What else there is, takes off the network or the table. *)
<1>5. ASSUME UNCHANGED <<messages, send_sequence_number, send_ordering_index,
                         send_sequencing_index, send_split_id, pending, channels, delivered>>,
             net' \subseteq net,
             DOMAIN sent_datagrams' \subseteq DOMAIN sent_datagrams,
             \A s \in DOMAIN sent_datagrams' : sent_datagrams'[s] = sent_datagrams[s]
      PROVE  IInv'
  <2>1. FramesInv'
    BY <1>5, FramesKept
  <2>2. SenderInv'
    <3>1. SenderInv
      BY DEF IInv
    <3>2. /\ send_sequence_number' \in Nat
          /\ DOMAIN sent_datagrams' \subseteq 0 .. (send_sequence_number' - 1)
      BY <1>5, <3>1 DEF SenderInv
    <3> QED BY <1>5, <3>1, <3>2, SenderStays
  <2>3. AssemblyInv' /\ BodiesInv'
    BY <1>5, ReceiverStays DEF IInv
  <2> QED BY <2>1, <2>2, <2>3 DEF IInv
<1>6. ASSUME (\E d \in net : Lose(d)) \/ UNCHANGED vars PROVE IInv'
  BY <1>5, <1>6 DEF Lose, vars, sender, receiver
<1>7. ASSUME Acknowledge PROVE IInv'
  <2>1. /\ UNCHANGED <<messages, send_sequence_number, send_ordering_index,
                       send_sequencing_index, send_split_id, pending, channels, delivered, net>>
        /\ \/ sent_datagrams' = ProcessAck(sent_datagrams, BuildAck(received_sequences))
           \/ UNCHANGED sent_datagrams
    BY <1>7 DEF Acknowledge
  <2>2. /\ DOMAIN sent_datagrams' \subseteq DOMAIN sent_datagrams
        /\ \A s \in DOMAIN sent_datagrams' : sent_datagrams'[s] = sent_datagrams[s]
    BY <2>1 DEF ProcessAck, Remove, Restrict
  <2> QED BY <1>5, <2>1, <2>2
<1> QED BY <1>1, <1>2, <1>4, <1>6, <1>7 DEF Next

LEMMA InitIInv == Init => IInv
<1> SUFFICES ASSUME Init PROVE IInv
  OBVIOUS
<1>1. SplitOnes = {} /\ DOMAIN sent_datagrams = {}
  BY DEF Init, SplitOnes, EmptyMap
<1>2. /\ Cardinality(SplitOnes) = 0
      /\ \A c : Cardinality(Indexed(c)) = 0 /\ Cardinality(Sequenced(c)) = 0
  <2>1. \A c : Indexed(c) = {} /\ Sequenced(c) = {}
    BY DEF Init, Indexed, Sequenced
  <2> QED BY <1>1, <2>1, FS_EmptySet
<1>3. SenderInv
  <2>1. /\ send_ordering_index = [c \in Channel |-> Cardinality(Indexed(c))]
        /\ send_sequencing_index = [c \in Channel |-> Cardinality(Sequenced(c))]
    BY <1>2 DEF Init
  <2> QED BY <1>1, <1>2, <2>1 DEF Init, SenderInv
<1>4. FramesInv /\ AssemblyInv
  BY <1>1 DEF Init, FramesInv, AssemblyInv, AssemblyOf, EmptyMap
<1>5. BodiesInv
  BY FS_EmptySet DEF Init, BodiesInv, ChannelState, EmptyMap
<1> QED BY <1>3, <1>4, <1>5 DEF IInv

(***************************************************************************)
(* Whatever reliabilities are mixed on the channels, and whatever is lost, *)
(* duplicated or resent: every body handed over is the whole body of one   *)
(* message that was sent, as long as no split_id is given out twice.       *)
(***************************************************************************)
THEOREM NeverMixesFragments ==
    ASSUME NoIdAgain
    PROVE  Spec => []BodiesIntact
<1>1. Init => IInv
  BY InitIInv
<1>2. IInv /\ [Next]_vars => IInv'
  BY NextIInv
<1>3. IInv => BodiesIntact
  <2> SUFFICES ASSUME IInv, NEW i \in DOMAIN delivered
               PROVE  \E n \in DOMAIN messages :
                         delivered[i] = Body(n, messages[n].fragments)
    BY DEF BodiesIntact
  <2>1. delivered[i] \in Bodies
    BY DEF IInv, BodiesInv
  <2> QED BY <2>1 DEF Bodies
<1> QED BY <1>1, <1>2, <1>3, PTL DEF Spec
-----------------------------------------------------------------------------
(***************************************************************************)
(* What the receiver has made of the messages.                             *)
(***************************************************************************)
(* On a channel the highest index counts: what was handed over is below    *)
(* it, and the one just below it was.                                      *)
SequencedOn(c) ==
    /\ highest_sequenced[c] \in Nat
    /\ \A n \in Sequenced(c) :
          WasDelivered(n) => SequencingRank(n) < highest_sequenced[c]
    /\ highest_sequenced[c] # 0 => \E n \in Sequenced(c) :
          SequencingRank(n) = highest_sequenced[c] - 1 /\ WasDelivered(n)
    /\ InOrder(delivered, Sequenced(c))

SequencedInv ==
    /\ DOMAIN highest_sequenced = Channel
    /\ \A c \in Channel : SequencedOn(c)

(* The ordered messages of a channel under their indices. *)
Due(c) == {<<OrderingRank(n), Body(n, messages[n].fragments)>> : n \in Ordered(c)}

(* Up to the index expected everything was an ordered message and has been *)
(* handed over; what waits is ahead of it.                                 *)
OrderedOn(c) ==
    /\ \A k \in DOMAIN channels[c].buffered :
          k > channels[c].expected_index /\ <<k, channels[c].buffered[k]>> \in Due(c)
    /\ \A k \in 0 .. (channels[c].expected_index - 1) : \E n \in Ordered(c) :
          OrderingRank(n) = k /\ WasDelivered(n)
    /\ \A n \in Ordered(c) :
          WasDelivered(n) => OrderingRank(n) < channels[c].expected_index
    /\ InOrder(delivered, Ordered(c))

OrderedInv == \A c \in Channel : OrderedOn(c)

(* The nth message has been assembled: it was handed over, waits for its   *)
(* turn, or came after something newer.                                    *)
Got(n) ==
    \/ /\ n \in Sequenced(messages[n].channel)
       /\ SequencingRank(n) < highest_sequenced[messages[n].channel]
    \/ /\ n \in Ordered(messages[n].channel)
       /\ \/ OrderingRank(n) < channels[messages[n].channel].expected_index
          \/ OrderingRank(n) \in DOMAIN channels[messages[n].channel].buffered
    \/ ~ IsOrdered(messages[n].reliability) /\ WasDelivered(n)

(* Fragment i of it has arrived: the message is complete, or it waits for  *)
(* the others.                                                             *)
Through(n, i) ==
    \/ Got(n)
    \/ /\ n \in SplitOnes
       /\ SplitIdOf(n) \in DOMAIN pending
       /\ i \in DOMAIN pending[SplitIdOf(n)].fragments

ThroughAs(f) ==
    \E n \in DOMAIN messages : FrameOfMessage(f, n) /\ Through(n, f.split_index)

(* The number of a datagram names one frame: in flight, received, recorded.*)
NumbersInv ==
    /\ received_sequences \subseteq 0 .. (send_sequence_number - 1)
    /\ \A d \in net :
          /\ d.sequence_number \in 0 .. (send_sequence_number - 1)
          /\ d.sequence_number \in DOMAIN sent_datagrams
                => sent_datagrams[d.sequence_number] = d.frame
    /\ \A s \in received_sequences \intersect DOMAIN sent_datagrams :
          ThroughAs(sent_datagrams[s])

Recorded(n, i) ==
    \E s \in DOMAIN sent_datagrams :
        FrameOfMessage(sent_datagrams[s], n) /\ sent_datagrams[s].split_index = i

(* What was sent reliably has arrived, or will be sent again.              *)
RecordedInv ==
    \A n \in DOMAIN messages : IsReliable(messages[n].reliability) =>
        \A i \in 0 .. (messages[n].fragments - 1) : Through(n, i) \/ Recorded(n, i)

OInv == IInv /\ SequencedInv /\ OrderedInv
AInv == OInv /\ NumbersInv /\ RecordedInv

(* What the assembly of the nth message does: the three ways through       *)
(* processReceivedFrame.                                                   *)
SequencedStep(n) ==
    /\ n \in Sequenced(messages[n].channel)
    /\ UNCHANGED channels
    /\ \/ /\ SequencingRank(n) >= highest_sequenced[messages[n].channel]
          /\ highest_sequenced' =
                [highest_sequenced EXCEPT ![messages[n].channel] = SequencingRank(n) + 1]
          /\ delivered' = Append(delivered, Body(n, messages[n].fragments))
       \/ /\ SequencingRank(n) < highest_sequenced[messages[n].channel]
          /\ UNCHANGED <<highest_sequenced, delivered>>

OrderedStep(n) ==
    LET c == messages[n].channel
        o == ProcessOrdered(channels[c], OrderingRank(n), Body(n, messages[n].fragments))
    IN  /\ n \in Ordered(c)
        /\ channels' = [channels EXCEPT ![c] = o.state]
        /\ delivered' = delivered \o o.ready
        /\ UNCHANGED highest_sequenced

PlainStep(n) ==
    /\ ~ IsOrdered(messages[n].reliability)
    /\ delivered' = Append(delivered, Body(n, messages[n].fragments))
    /\ UNCHANGED <<channels, highest_sequenced>>

Handles(n) == SequencedStep(n) \/ OrderedStep(n) \/ PlainStep(n)

-----------------------------------------------------------------------------
(***************************************************************************)
(* Of the operators: what processOrdered does with the messages due on a   *)
(* channel, and what is in order in a sequence that grows.                 *)
(***************************************************************************)
FreesTheRun(state, index, data, Good) ==
    LET o == ProcessOrdered(state, index, data)
        e == state.expected_index
        x == o.state.expected_index
    IN  /\ x \in Nat /\ x >= e
        /\ \A k \in DOMAIN o.state.buffered :
              k > x /\ <<k, o.state.buffered[k]>> \in Good
        /\ o.ready = [i \in 1 .. (x - e) |-> o.ready[i]]
        /\ \A i \in 1 .. (x - e) : <<e + i - 1, o.ready[i]>> \in Good
        /\ \A k \in Nat :
              k < e \/ k \in DOMAIN state.buffered \/ k = index
              => k < x \/ k \in DOMAIN o.state.buffered

LEMMA ProcessOrderedRuns ==
    ASSUME NEW Good, NEW state, ChannelState(state),
           \A k \in DOMAIN state.buffered :
              k > state.expected_index /\ <<k, state.buffered[k]>> \in Good,
           NEW index \in Nat, NEW data, <<index, data>> \in Good
    PROVE  FreesTheRun(state, index, data, Good)
<1> DEFINE e == state.expected_index
           held == Put(state.buffered, index, data)
           next == FirstGap(DOMAIN held, index)
           o == ProcessOrdered(state, index, data)
<1>1. e \in Nat /\ DOMAIN state.buffered \subseteq Nat
  BY DEF ChannelState
<1>2. /\ DOMAIN held = DOMAIN state.buffered \union {index}
      /\ \A k \in DOMAIN held : k \in Nat /\ <<k, held[k]>> \in Good
      /\ \A k \in DOMAIN held : k > e \/ k = index
  BY <1>1 DEF Put
<1>3. IsFiniteSet(DOMAIN held)
  BY <1>2, FS_AddElement DEF ChannelState
<1>4. /\ next \in Nat /\ next >= index /\ next \notin DOMAIN held
      /\ \A k \in index .. (next - 1) : k \in DOMAIN held
  <2>1. DOMAIN held \subseteq Nat
    BY <1>2
  <2> HIDE DEF held
  <2> QED BY <1>3, <2>1, FirstGapIsGap
<1>5. CASE index = e
  <2> DEFINE rest == Remove(held, index .. (next - 1))
  <2>1. /\ o.state.expected_index = next
        /\ o.state.buffered = rest
        /\ o.ready = [i \in 1 .. (next - index) |-> held[index + i - 1]]
    BY <1>5 DEF ProcessOrdered
  <2> HIDE DEF held, next, o
  <2>2. /\ DOMAIN rest = DOMAIN held \ (index .. (next - 1))
        /\ \A k \in DOMAIN rest : rest[k] = held[k]
    BY DEF Remove, Restrict
  <2> HIDE DEF rest
  <2>3. ASSUME NEW k \in DOMAIN rest PROVE k > next /\ <<k, rest[k]>> \in Good
    <3>1. k \in Nat /\ k # next /\ ~ (k \in index .. (next - 1)) /\ k >= index
      BY <1>1, <1>2, <1>4, <1>5, <2>2
    <3> QED BY <1>2, <1>4, <2>2, <3>1
  <2>4. ASSUME NEW i \in 1 .. (next - index)
        PROVE  <<index + i - 1, held[index + i - 1]>> \in Good
    <3>1. index + i - 1 \in index .. (next - 1)
      BY <1>4
    <3> QED BY <1>2, <1>4, <3>1
  <2>5. ASSUME NEW k \in Nat, k < e \/ k \in DOMAIN state.buffered \/ k = index
        PROVE  k < next \/ k \in DOMAIN rest
    BY <1>1, <1>2, <1>4, <1>5, <2>2, <2>5
  <2>6. /\ o.ready = [i \in 1 .. (next - index) |-> o.ready[i]]
        /\ \A i \in 1 .. (next - index) : <<index + i - 1, o.ready[i]>> \in Good
    BY <2>1, <2>4
  <2> QED BY <1>4, <1>5, <2>1, <2>3, <2>5, <2>6 DEF o, FreesTheRun
<1>6. CASE index > e
  <2>1. /\ o.state = [state EXCEPT !.buffered = held]
        /\ o.ready = <<>>
    BY <1>1, <1>6 DEF ProcessOrdered
  <2>2. o.state.expected_index = e /\ o.state.buffered = held
    BY <2>1 DEF ChannelState
  <2>3. o.ready = [i \in 1 .. (e - e) |-> o.ready[i]] /\ 1 .. (e - e) = {}
    BY <1>1, <2>1
  <2> HIDE DEF held, o
  <2> QED BY <1>1, <1>2, <1>6, <2>2, <2>3 DEF o, FreesTheRun
<1>7. CASE index < e
  <2>1. o.state = state /\ o.ready = <<>>
    BY <1>1, <1>7 DEF ProcessOrdered
  <2>2. o.ready = [i \in 1 .. (e - e) |-> o.ready[i]] /\ 1 .. (e - e) = {}
    BY <1>1, <2>1
  <2> HIDE DEF o
  <2> QED BY <1>1, <1>7, <2>1, <2>2 DEF o, FreesTheRun
<1>8. index = e \/ index > e \/ index < e
  BY <1>1
<1> QED BY <1>5, <1>6, <1>7, <1>8

Tells(s, n) == \E i \in DOMAIN s : MessageOf(s[i]) = n

LEMMA TellsBoth ==
    ASSUME NEW V, NEW s \in Seq(V), NEW r \in Seq(V), NEW n
    PROVE  Tells(s \o r, n) <=> Tells(s, n) \/ Tells(r, n)
<1>1. /\ Len(s) \in Nat /\ Len(r) \in Nat
      /\ DOMAIN s = 1 .. Len(s) /\ DOMAIN r = 1 .. Len(r)
      /\ DOMAIN (s \o r) = 1 .. (Len(s) + Len(r))
  OBVIOUS
<1>2. ASSUME NEW i \in DOMAIN s PROVE i \in DOMAIN (s \o r) /\ (s \o r)[i] = s[i]
  BY <1>1
<1>3. ASSUME NEW i \in DOMAIN r
      PROVE  Len(s) + i \in DOMAIN (s \o r) /\ (s \o r)[Len(s) + i] = r[i]
  BY <1>1
<1>4. ASSUME NEW i \in DOMAIN (s \o r)
      PROVE  \/ i \in DOMAIN s
             \/ \E j \in DOMAIN r : i = Len(s) + j
  <2>1. i \in DOMAIN s \/ (i - Len(s) \in DOMAIN r /\ i = Len(s) + (i - Len(s)))
    BY <1>1
  <2> QED BY <2>1
<1> HIDE DEF MessageOf
<1>5. Tells(s, n) \/ Tells(r, n) => Tells(s \o r, n)
  BY <1>2, <1>3 DEF Tells
<1>6. Tells(s \o r, n) => Tells(s, n) \/ Tells(r, n)
  BY <1>2, <1>3, <1>4 DEF Tells
<1> QED BY <1>5, <1>6

LEMMA InOrderBoth ==
    ASSUME NEW V, NEW s \in Seq(V), NEW r \in Seq(V), NEW S,
           InOrder(s, S), InOrder(r, S),
           \A i \in DOMAIN s, j \in DOMAIN r :
              MessageOf(s[i]) \in S /\ MessageOf(r[j]) \in S
              => MessageOf(s[i]) < MessageOf(r[j])
    PROVE  InOrder(s \o r, S)
<1> DEFINE t == s \o r
<1>1. /\ Len(s) \in Nat /\ Len(r) \in Nat
      /\ DOMAIN s = 1 .. Len(s) /\ DOMAIN r = 1 .. Len(r)
      /\ DOMAIN t = 1 .. (Len(s) + Len(r))
  OBVIOUS
<1>2. ASSUME NEW i \in DOMAIN s PROVE t[i] = s[i]
  BY <1>1
<1>3. ASSUME NEW i \in DOMAIN t, i \notin DOMAIN s
      PROVE  i - Len(s) \in DOMAIN r /\ t[i] = r[i - Len(s)]
  BY <1>1, <1>3
<1> SUFFICES ASSUME NEW i \in DOMAIN t, NEW j \in DOMAIN t, i < j,
                    MessageOf(t[i]) \in S, MessageOf(t[j]) \in S
             PROVE  MessageOf(t[i]) < MessageOf(t[j])
  BY DEF InOrder
<1> HIDE DEF t
<1>4. CASE j \in DOMAIN s
  <2>1. i \in DOMAIN s
    BY <1>1, <1>4
  <2> QED BY <1>2, <1>4, <2>1 DEF InOrder
<1>5. CASE i \in DOMAIN s /\ j \notin DOMAIN s
  BY <1>2, <1>3, <1>5
<1>6. CASE i \notin DOMAIN s /\ j \notin DOMAIN s
  <2>1. i - Len(s) < j - Len(s)
    BY <1>1
  <2> QED BY <1>3, <1>6, <2>1 DEF InOrder
<1>7. j \in DOMAIN s \/ (i \in DOMAIN s /\ j \notin DOMAIN s)
      \/ (i \notin DOMAIN s /\ j \notin DOMAIN s)
  OBVIOUS
<1> QED BY <1>4, <1>5, <1>6, <1>7

(* One body more. *)
LEMMA OneMore ==
    ASSUME NEW V, NEW s \in Seq(V), NEW b \in V
    PROVE  /\ \A n : Tells(Append(s, b), n) <=> Tells(s, n) \/ MessageOf(b) = n
           /\ \A S : /\ InOrder(s, S)
                     /\ \A i \in DOMAIN s : MessageOf(s[i]) \in S /\ MessageOf(b) \in S
                                            => MessageOf(s[i]) < MessageOf(b)
                     => InOrder(Append(s, b), S)
<1>1. <<b>> \in Seq(V) /\ Append(s, b) = s \o <<b>>
      /\ DOMAIN <<b>> = {1} /\ <<b>>[1] = b
  OBVIOUS
<1>2. ASSUME NEW n PROVE Tells(Append(s, b), n) <=> Tells(s, n) \/ MessageOf(b) = n
  <2>1. Tells(<<b>>, n) <=> MessageOf(b) = n
    BY <1>1 DEF Tells
  <2>2. Tells(s \o <<b>>, n) <=> Tells(s, n) \/ Tells(<<b>>, n)
    BY <1>1, TellsBoth
  <2> QED BY <1>1, <2>1, <2>2
<1>3. ASSUME NEW S, InOrder(s, S),
             \A i \in DOMAIN s : MessageOf(s[i]) \in S /\ MessageOf(b) \in S
                                 => MessageOf(s[i]) < MessageOf(b)
      PROVE  InOrder(Append(s, b), S)
  <2> DEFINE r == <<b>>
  <2>1. r \in Seq(V) /\ DOMAIN r = {1} /\ r[1] = b
    BY <1>1
  <2> HIDE DEF r
  <2>2. InOrder(r, S)
    BY <2>1 DEF InOrder
  <2>3. \A i \in DOMAIN s, j \in DOMAIN r :
           MessageOf(s[i]) \in S /\ MessageOf(r[j]) \in S
           => MessageOf(s[i]) < MessageOf(r[j])
    BY <1>3, <2>1
  <2>4. InOrder(s \o r, S)
    BY <1>3, <2>1, <2>2, <2>3, InOrderBoth
  <2> QED BY <1>1, <2>4 DEF r
<1> QED BY <1>2, <1>3

-----------------------------------------------------------------------------
(***************************************************************************)
(* Of the messages: their ranks on a channel, and what their bodies tell.  *)
(***************************************************************************)
LEMMA MessageFacts ==
    ASSUME SenderInv, NEW n \in DOMAIN messages
    PROVE  /\ n \in Nat /\ messages[n].channel \in Channel
           /\ Body(n, messages[n].fragments) \in Bodies
           /\ MessageOf(Body(n, messages[n].fragments)) = n
           /\ OrderingRank(n) \in Nat /\ SequencingRank(n) \in Nat
           /\ n \in Sequenced(messages[n].channel) <=> IsSequenced(messages[n].reliability)
           /\ n \in Ordered(messages[n].channel) <=>
                 IsOrdered(messages[n].reliability) /\ ~ IsSequenced(messages[n].reliability)
           /\ IsSequenced(messages[n].reliability) => IsOrdered(messages[n].reliability)
<1>1. n \in Nat /\ messages[n] \in Message /\ messages[n].fragments \in Nat \ {0}
  BY MessagesFinite
<1>2. messages[n].channel \in Channel
  BY <1>1 DEF Message
<1>3. Body(n, messages[n].fragments)[0] = <<n, 0>>
  <2>1. 0 \in 0 .. (messages[n].fragments - 1)
    BY <1>1
  <2> QED BY <2>1 DEF Body
<1>4. MessageOf(Body(n, messages[n].fragments)) = n
  BY <1>3 DEF MessageOf
<1>5. ASSUME NEW T, T \subseteq Nat, IsFiniteSet(T) PROVE Rank(n, T) \in Nat
  <2>1. IsFiniteSet({t \in T : t < n})
    BY <1>5, FS_Subset
  <2> QED BY <2>1, FS_CardinalityType DEF Rank
<1>6. OrderingRank(n) \in Nat
  <2>1. PICK T : T = Indexed(messages[n].channel)
    OBVIOUS
  <2>2. T \subseteq Nat /\ IsFiniteSet(T)
    BY <2>1, MessagesFinite
  <2> QED BY <1>5, <2>1, <2>2 DEF OrderingRank
<1>7. SequencingRank(n) \in Nat
  <2>1. PICK T : T = Sequenced(messages[n].channel)
    OBVIOUS
  <2>2. T \subseteq Nat /\ IsFiniteSet(T)
    BY <2>1, MessagesFinite
  <2> QED BY <1>5, <2>1, <2>2 DEF SequencingRank
<1>8. n \in Sequenced(messages[n].channel) <=> IsSequenced(messages[n].reliability)
  BY DEF Sequenced
<1>9. n \in Ordered(messages[n].channel) <=>
         IsOrdered(messages[n].reliability) /\ ~ IsSequenced(messages[n].reliability)
  BY DEF Ordered
<1>10. Body(n, messages[n].fragments) \in Bodies
  BY DEF Bodies
<1> QED BY <1>1, <1>2, <1>4, <1>6, <1>7, <1>8, <1>9, <1>10 DEF IsOrdered

LEMMA BodiesTell ==
    ASSUME SenderInv
    PROVE  /\ \A b \in Bodies : MessageOf(b) \in DOMAIN messages
           /\ \A b \in Bodies : b = Body(MessageOf(b), messages[MessageOf(b)].fragments)
<1> SUFFICES ASSUME NEW n \in DOMAIN messages, NEW b, b = Body(n, messages[n].fragments)
             PROVE  MessageOf(b) = n
  BY DEF Bodies
<1> QED BY MessageFacts

(* Of one channel, the earlier message has the smaller rank.               *)
LEMMA SequencingRanks ==
    ASSUME SenderInv, NEW c \in Channel, NEW n \in Sequenced(c), NEW k \in Sequenced(c)
    PROVE  /\ n < k => SequencingRank(n) < SequencingRank(k)
           /\ SequencingRank(n) < SequencingRank(k) => n < k
           /\ SequencingRank(n) = SequencingRank(k) => n = k
<1>1. /\ n \in DOMAIN messages /\ k \in DOMAIN messages
      /\ messages[n].channel = c /\ messages[k].channel = c
  BY DEF Sequenced
<1>2. PICK T : T = Sequenced(c)
  OBVIOUS
<1>3. /\ n \in T /\ k \in T /\ T \subseteq Nat /\ IsFiniteSet(T)
      /\ SequencingRank(n) = Rank(n, T) /\ SequencingRank(k) = Rank(k, T)
  BY <1>1, <1>2, MessagesFinite DEF SequencingRank
<1>4. /\ n \in Nat /\ k \in Nat
      /\ SequencingRank(n) \in Nat /\ SequencingRank(k) \in Nat
  BY <1>1, MessageFacts
<1>5. n < k => Rank(n, T) < Rank(k, T)
  BY <1>3, RankIncreases
<1>6. k < n => Rank(k, T) < Rank(n, T)
  BY <1>3, RankIncreases
<1>7. n < k \/ n = k \/ k < n
  BY <1>4
<1> QED BY <1>3, <1>4, <1>5, <1>6, <1>7

LEMMA OrderingRanks ==
    ASSUME SenderInv, NEW c \in Channel, NEW n \in Indexed(c), NEW k \in Indexed(c)
    PROVE  /\ n < k => OrderingRank(n) < OrderingRank(k)
           /\ OrderingRank(n) < OrderingRank(k) => n < k
           /\ OrderingRank(n) = OrderingRank(k) => n = k
<1>1. /\ n \in DOMAIN messages /\ k \in DOMAIN messages
      /\ messages[n].channel = c /\ messages[k].channel = c
  BY DEF Indexed
<1>2. PICK T : T = Indexed(c)
  OBVIOUS
<1>3. /\ n \in T /\ k \in T /\ T \subseteq Nat /\ IsFiniteSet(T)
      /\ OrderingRank(n) = Rank(n, T) /\ OrderingRank(k) = Rank(k, T)
  BY <1>1, <1>2, MessagesFinite DEF OrderingRank
<1>4. /\ n \in Nat /\ k \in Nat
      /\ OrderingRank(n) \in Nat /\ OrderingRank(k) \in Nat
  BY <1>1, MessageFacts
<1>5. n < k => Rank(n, T) < Rank(k, T)
  BY <1>3, RankIncreases
<1>6. k < n => Rank(k, T) < Rank(n, T)
  BY <1>3, RankIncreases
<1>7. n < k \/ n = k \/ k < n
  BY <1>4
<1> QED BY <1>3, <1>4, <1>5, <1>6, <1>7

LEMMA KindsApart ==
    ASSUME NEW c
    PROVE  /\ Ordered(c) \subseteq Indexed(c)
           /\ Sequenced(c) \subseteq Indexed(c)
           /\ \A n \in Ordered(c) : n \notin Sequenced(c)
           /\ \A n \in Indexed(c) : n \in Ordered(c) \/ n \in Sequenced(c)
           /\ \A n \in Indexed(c) : n \in DOMAIN messages /\ messages[n].channel = c
BY DEF Indexed, Ordered, Sequenced, IsOrdered

-----------------------------------------------------------------------------
(***************************************************************************)
(* A datagram taken from the network either joins what waits for the rest  *)
(* of its message, or completes it.                                        *)
(***************************************************************************)
LEMMA TakeHandles ==
    ASSUME IInv, SequencedInv, NEW d \in net, Take(d),
           NEW n \in DOMAIN messages, FrameOfMessage(d.frame, n)
    PROVE  \/ /\ Handles(n)
              /\ \/ n \notin SplitOnes /\ pending' = pending
                 \/ n \in SplitOnes /\ pending' = Remove(pending, {SplitIdOf(n)})
           \/ /\ UNCHANGED <<channels, highest_sequenced, delivered>>
              /\ n \in SplitOnes
              /\ \E e :
                    /\ pending' = Put(pending, SplitIdOf(n), e)
                    /\ d.frame.split_index \in DOMAIN e.fragments
                    /\ DOMAIN FragmentsOf(pending, SplitIdOf(n)) \subseteq DOMAIN e.fragments
<1> DEFINE f == d.frame
           added == AddFragment(pending, f)
           B == Body(n, messages[n].fragments)
           c == messages[n].channel
<1>1. SenderInv /\ AssemblyInv
  BY DEF IInv
<1>2. pending' = added.pending /\ ProcessReceivedFrame(f)
  BY DEF Take, ProcessReceivedFrame
<1>3. FrameOfMessage(f, n)
  OBVIOUS
<1>4. /\ f.reliability = messages[n].reliability
      /\ f.ordering_channel = c
      /\ IsOrdered(messages[n].reliability) => f.ordering_index = OrderingRank(n)
      /\ IsSequenced(messages[n].reliability) => f.sequencing_index = SequencingRank(n)
  BY DEF FrameOfMessage
<1> HIDE DEF f
<1>5. \/ /\ added.assembled = {B}
         /\ \/ n \notin SplitOnes /\ added.pending = pending
            \/ n \in SplitOnes /\ added.pending = Remove(pending, {SplitIdOf(n)})
      \/ /\ added.assembled = {}
         /\ n \in SplitOnes
         /\ \E e :
               /\ added.pending = Put(pending, SplitIdOf(n), e)
               /\ f.split_index \in DOMAIN e.fragments
               /\ DOMAIN FragmentsOf(pending, SplitIdOf(n)) \subseteq DOMAIN e.fragments
  BY <1>1, <1>3, AssembledIsBody
<1>6. \/ /\ added.assembled = {}
         /\ UNCHANGED <<channels, highest_sequenced, delivered>>
      \/ \E body \in added.assembled :
            \/ IsSequenced(f.reliability) /\ ProcessSequenced(f, body)
            \/ /\ IsOrdered(f.reliability) /\ ~ IsSequenced(f.reliability)
               /\ ProcessOrderedBody(f, body)
            \/ ~ IsOrdered(f.reliability) /\ DeliverNow(body)
  BY <1>2 DEF ProcessReceivedFrame
<1> HIDE DEF added
<1>7. CASE added.assembled = {}
  <2>1. UNCHANGED <<channels, highest_sequenced, delivered>>
    BY <1>6, <1>7
  <2>2. {B} # {}
    OBVIOUS
  <2> HIDE DEF B
  <2> QED BY <1>2, <1>5, <1>7, <2>1, <2>2 DEF f
<1>8. CASE added.assembled = {B}
  <2>1. \/ IsSequenced(f.reliability) /\ ProcessSequenced(f, B)
        \/ /\ IsOrdered(f.reliability) /\ ~ IsSequenced(f.reliability)
           /\ ProcessOrderedBody(f, B)
        \/ ~ IsOrdered(f.reliability) /\ DeliverNow(B)
    <3> HIDE DEF B
    <3> QED BY <1>6, <1>8
  <2>2. /\ c \in Channel
        /\ n \in Sequenced(c) <=> IsSequenced(messages[n].reliability)
        /\ n \in Ordered(c) <=>
              IsOrdered(messages[n].reliability) /\ ~ IsSequenced(messages[n].reliability)
        /\ SequencingRank(n) \in Nat
        /\ IsSequenced(messages[n].reliability) => IsOrdered(messages[n].reliability)
    BY <1>1, MessageFacts
  <2>3. highest_sequenced[c] \in Nat
    BY <2>2 DEF SequencedInv, SequencedOn
  <2>4. CASE IsSequenced(f.reliability) /\ ProcessSequenced(f, B)
    <3>1. f.sequencing_index = SequencingRank(n) /\ n \in Sequenced(c)
      BY <1>4, <2>2, <2>4
    <3>2. IsNewer(SequencingRank(n), highest_sequenced[c]) <=>
             SequencingRank(n) >= highest_sequenced[c]
      BY <2>2, <2>3 DEF IsNewer
    <3>3. ~ (SequencingRank(n) >= highest_sequenced[c]) =>
             SequencingRank(n) < highest_sequenced[c]
      BY <2>2, <2>3
    <3>4. SequencedStep(n)
      BY <1>4, <2>4, <3>1, <3>2, <3>3 DEF ProcessSequenced, SequencedStep
    <3> QED BY <1>2, <1>5, <1>8, <3>4 DEF Handles
  <2>5. CASE /\ IsOrdered(f.reliability) /\ ~ IsSequenced(f.reliability)
             /\ ProcessOrderedBody(f, B)
    <3>1. f.ordering_index = OrderingRank(n) /\ n \in Ordered(c)
      BY <1>4, <2>2, <2>5
    <3>2. OrderedStep(n)
      BY <1>4, <2>5, <3>1 DEF ProcessOrderedBody, OrderedStep
    <3> QED BY <1>2, <1>5, <1>8, <3>2 DEF Handles
  <2>6. CASE ~ IsOrdered(f.reliability) /\ DeliverNow(B)
    <3>1. PlainStep(n)
      BY <1>4, <2>6 DEF DeliverNow, PlainStep
    <3> QED BY <1>2, <1>5, <1>8, <3>1 DEF Handles
  <2> QED BY <2>1, <2>4, <2>5, <2>6
<1> QED BY <1>5, <1>7, <1>8

-----------------------------------------------------------------------------
(***************************************************************************)
(* A message that is handled keeps the order of its channel, and touches   *)
(* no other.                                                               *)
(***************************************************************************)
(* Bodies of other messages than those of S. *)
LEMMA OthersJoin ==
    ASSUME NEW V, NEW s \in Seq(V), NEW r \in Seq(V), NEW S,
           \A i \in DOMAIN r : MessageOf(r[i]) \notin S
    PROVE  /\ \A n \in S : Tells(s \o r, n) <=> Tells(s, n)
           /\ InOrder(s, S) => InOrder(s \o r, S)
<1>1. \A n \in S : ~ Tells(r, n)
  BY DEF Tells
<1>2. InOrder(r, S)
  BY DEF InOrder
<1>3. \A n \in S : Tells(s \o r, n) <=> Tells(s, n)
  BY <1>1, TellsBoth
<1>4. InOrder(s, S) => InOrder(s \o r, S)
  BY <1>2, InOrderBoth
<1> QED BY <1>3, <1>4

LEMMA SequencedElsewhere ==
    ASSUME IInv, UNCHANGED messages, NEW c \in Channel, SequencedOn(c),
           highest_sequenced'[c] = highest_sequenced[c],
           NEW r \in Seq(Bodies), delivered' = delivered \o r,
           \A i \in DOMAIN r : MessageOf(r[i]) \notin Sequenced(c)
    PROVE  SequencedOn(c)'
<1>1. delivered \in Seq(Bodies)
  BY DEF IInv, BodiesInv
<1>2. /\ \A n \in Sequenced(c) : Tells(delivered', n) <=> Tells(delivered, n)
      /\ InOrder(delivered, Sequenced(c)) => InOrder(delivered', Sequenced(c))
  BY <1>1, OthersJoin
<1>3. \A n \in Sequenced(c) : WasDelivered(n)' <=> WasDelivered(n)
  BY <1>2 DEF WasDelivered, Tells
<1>4. Sequenced(c)' = Sequenced(c) /\ \A n : SequencingRank(n)' = SequencingRank(n)
  BY MessagesStay
<1> QED BY <1>2, <1>3, <1>4 DEF SequencedOn

LEMMA DueStays ==
    ASSUME UNCHANGED messages, NEW c
    PROVE  Due(c)' = Due(c)
BY MessagesStay DEF Due

LEMMA OrderedElsewhere ==
    ASSUME IInv, UNCHANGED messages, NEW c \in Channel, OrderedOn(c),
           channels'[c] = channels[c],
           NEW r \in Seq(Bodies), delivered' = delivered \o r,
           \A i \in DOMAIN r : MessageOf(r[i]) \notin Ordered(c)
    PROVE  OrderedOn(c)'
<1>1. delivered \in Seq(Bodies)
  BY DEF IInv, BodiesInv
<1>2. /\ \A n \in Ordered(c) : Tells(delivered', n) <=> Tells(delivered, n)
      /\ InOrder(delivered, Ordered(c)) => InOrder(delivered', Ordered(c))
  BY <1>1, OthersJoin
<1>3. \A n \in Ordered(c) : WasDelivered(n)' <=> WasDelivered(n)
  BY <1>2 DEF WasDelivered, Tells
<1>4. Ordered(c)' = Ordered(c) /\ \A n : OrderingRank(n)' = OrderingRank(n)
  BY MessagesStay
<1>5. Due(c)' = Due(c)
  BY DueStays
<1> QED BY <1>2, <1>3, <1>4, <1>5 DEF OrderedOn

(* What an ordered message sets free: the run of messages due on its       *)
(* channel.                                                                *)
OrderedRan(n, c, e, x) ==
    /\ c \in Channel /\ e \in Nat /\ x \in Nat /\ x >= e
    /\ \A k \in Channel \ {c} : channels'[k] = channels[k]
    /\ \A k \in DOMAIN channels'[c].buffered :
          k > x /\ <<k, channels'[c].buffered[k]>> \in Due(c)
    /\ \A k \in Nat :
          k < e \/ k \in DOMAIN channels[c].buffered \/ k = OrderingRank(n)
          => k < x \/ k \in DOMAIN channels'[c].buffered
    /\ \E r \in Seq(Bodies) :
          /\ delivered' = delivered \o r
          /\ DOMAIN r = 1 .. (x - e)
          /\ \A i \in 1 .. (x - e) :
                /\ MessageOf(r[i]) \in Ordered(c)
                /\ OrderingRank(MessageOf(r[i])) = e + i - 1

LEMMA OrderedRun ==
    ASSUME IInv, OrderedInv, NEW n \in DOMAIN messages, OrderedStep(n),
           NEW c, c = messages[n].channel,
           NEW e, e = channels[c].expected_index,
           NEW x, x = channels'[c].expected_index
    PROVE  OrderedRan(n, c, e, x)
<1> DEFINE B == Body(n, messages[n].fragments)
           o == ProcessOrdered(channels[c], OrderingRank(n), B)
<1>1. SenderInv /\ BodiesInv
  BY DEF IInv
<1>2. /\ n \in Ordered(c) /\ channels' = [channels EXCEPT ![c] = o.state]
      /\ delivered' = delivered \o o.ready
  BY DEF OrderedStep
<1>3. c \in Channel /\ OrderingRank(n) \in Nat
  BY <1>1, MessageFacts
<1>4. /\ DOMAIN channels = Channel /\ ChannelState(channels[c])
      /\ \A k \in DOMAIN channels[c].buffered :
            k > e /\ <<k, channels[c].buffered[k]>> \in Due(c)
  BY <1>1, <1>3 DEF BodiesInv, OrderedInv, OrderedOn
<1>5. e \in Nat
  BY <1>4 DEF ChannelState
<1>6. <<OrderingRank(n), B>> \in Due(c)
  BY <1>2 DEF Due
<1>7. /\ channels'[c] = o.state /\ x = o.state.expected_index
      /\ \A k \in Channel \ {c} : channels'[k] = channels[k]
  <2> HIDE DEF o
  <2> QED BY <1>2, <1>3, <1>4
<1>8. /\ x \in Nat /\ x >= e
      /\ \A k \in DOMAIN o.state.buffered :
            k > x /\ <<k, o.state.buffered[k]>> \in Due(c)
      /\ o.ready = [i \in 1 .. (x - e) |-> o.ready[i]]
      /\ \A i \in 1 .. (x - e) : <<e + i - 1, o.ready[i]>> \in Due(c)
      /\ \A k \in Nat :
            k < e \/ k \in DOMAIN channels[c].buffered \/ k = OrderingRank(n)
            => k < x \/ k \in DOMAIN o.state.buffered
  <2> DEFINE s == channels[c]
             i == OrderingRank(n)
             G == Due(c)
  <2>1. /\ ChannelState(s) /\ i \in Nat /\ <<i, B>> \in G
        /\ \A k \in DOMAIN s.buffered :
              k > s.expected_index /\ <<k, s.buffered[k]>> \in G
    BY <1>3, <1>4, <1>6
  <2> HIDE DEF s, i, G, B
  <2>2. FreesTheRun(s, i, B, G)
    BY <2>1, ProcessOrderedRuns
  <2> QED BY <1>7, <2>2, Zenon DEF s, i, G, FreesTheRun
<1> DEFINE r == o.ready
<1> HIDE DEF o
<1>9. ASSUME NEW k, NEW b, <<k, b>> \in Due(c)
      PROVE  /\ b \in Bodies /\ MessageOf(b) \in Ordered(c)
             /\ OrderingRank(MessageOf(b)) = k
  <2>1. PICK m \in Ordered(c) :
           k = OrderingRank(m) /\ b = Body(m, messages[m].fragments)
    BY <1>9 DEF Due
  <2>2. m \in DOMAIN messages
    BY DEF Ordered
  <2> QED BY <1>1, <2>1, <2>2, MessageFacts
<1>10. \A i \in 1 .. (x - e) :
          /\ r[i] \in Bodies
          /\ MessageOf(r[i]) \in Ordered(c)
          /\ OrderingRank(MessageOf(r[i])) = e + i - 1
  BY <1>8, <1>9
<1>11. r \in Seq(Bodies) /\ DOMAIN r = 1 .. (x - e)
  <2>1. PICK k \in Nat : k = x - e
    BY <1>5, <1>8
  <2>2. r \in [1 .. k -> Bodies]
    BY <1>8, <1>10, <2>1
  <2> HIDE DEF r
  <2>3. r \in Seq(Bodies) /\ DOMAIN r = 1 .. k
    BY <2>2
  <2> QED BY <2>1, <2>3
<1> QED BY <1>2, <1>3, <1>5, <1>7, <1>8, <1>10, <1>11 DEF OrderedRan

LEMMA OrderedHere ==
    ASSUME IInv, OrderedInv, UNCHANGED messages,
           NEW n \in DOMAIN messages, OrderedStep(n),
           NEW c, c = messages[n].channel
    PROVE  OrderedOn(c)'
<1> DEFINE e == channels[c].expected_index
           x == channels'[c].expected_index
<1>1. SenderInv /\ delivered \in Seq(Bodies)
  BY DEF IInv, BodiesInv
<1>2. /\ c \in Channel /\ e \in Nat /\ x \in Nat /\ x >= e
      /\ \A k \in DOMAIN channels'[c].buffered :
            k > x /\ <<k, channels'[c].buffered[k]>> \in Due(c)
      /\ \E r \in Seq(Bodies) :
            /\ delivered' = delivered \o r
            /\ DOMAIN r = 1 .. (x - e)
            /\ \A i \in 1 .. (x - e) :
                  /\ MessageOf(r[i]) \in Ordered(c)
                  /\ OrderingRank(MessageOf(r[i])) = e + i - 1
  <2>1. OrderedRan(n, c, e, x)
    BY OrderedRun
  <2> QED BY <2>1 DEF OrderedRan
<1>3. PICK r \in Seq(Bodies) :
         /\ delivered' = delivered \o r
         /\ DOMAIN r = 1 .. (x - e)
         /\ \A i \in 1 .. (x - e) :
               /\ MessageOf(r[i]) \in Ordered(c)
               /\ OrderingRank(MessageOf(r[i])) = e + i - 1
  BY <1>2
<1>4. /\ Ordered(c)' = Ordered(c) /\ Due(c)' = Due(c)
      /\ \A k : OrderingRank(k)' = OrderingRank(k)
  BY MessagesStay DEF Due
<1>5. OrderedOn(c)
  BY <1>2 DEF OrderedInv
<1>6. \A k : WasDelivered(k)' <=> WasDelivered(k) \/ Tells(r, k)
  <2>1. \A k : Tells(delivered \o r, k) <=> Tells(delivered, k) \/ Tells(r, k)
    BY <1>1, <1>3, TellsBoth
  <2> QED BY <1>3, <2>1 DEF WasDelivered, Tells
<1>7. ASSUME NEW k \in Ordered(c), NEW i \in Ordered(c)
      PROVE  OrderingRank(k) < OrderingRank(i) => k < i
  BY <1>1, <1>2, <1>7, KindsApart, OrderingRanks
<1> HIDE DEF e, x
<1>8. ASSUME NEW k \in 0 .. (x - 1)
      PROVE  \E i \in Ordered(c) : OrderingRank(i) = k /\ WasDelivered(i)'
  <2>1. CASE k < e
    <3>1. k \in 0 .. (e - 1)
      BY <1>2, <2>1
    <3>2. \E i \in Ordered(c) : OrderingRank(i) = k /\ WasDelivered(i)
      BY <1>5, <3>1 DEF OrderedOn, e
    <3> QED BY <1>6, <3>2
  <2>2. CASE k >= e
    <3>1. k - e + 1 \in 1 .. (x - e) /\ e + (k - e + 1) - 1 = k
      BY <1>2, <2>2
    <3>2. Tells(r, MessageOf(r[k - e + 1]))
      BY <1>3, <3>1 DEF Tells
    <3> QED BY <1>3, <1>6, <3>1, <3>2
  <2> QED BY <1>2, <2>1, <2>2
<1>9. ASSUME NEW k \in Ordered(c), WasDelivered(k)' PROVE OrderingRank(k) < x
  <2>1. k \in DOMAIN messages
    BY DEF Ordered
  <2>2. OrderingRank(k) \in Nat
    BY <1>1, <2>1, MessageFacts
  <2>3. CASE WasDelivered(k)
    <3>1. OrderingRank(k) < e
      BY <1>5, <2>3 DEF OrderedOn, e
    <3> QED BY <1>2, <2>2, <3>1
  <2>4. CASE Tells(r, k)
    <3>1. PICK i \in 1 .. (x - e) : MessageOf(r[i]) = k
      BY <1>3, <2>4 DEF Tells
    <3>2. OrderingRank(k) = e + i - 1
      BY <1>3, <3>1
    <3> QED BY <1>2, <3>1, <3>2
  <2> QED BY <1>6, <1>9, <2>3, <2>4
<1>10. InOrder(delivered', Ordered(c))
  <2>1. ASSUME NEW i \in 1 .. (x - e), NEW j \in 1 .. (x - e), i < j
        PROVE  MessageOf(r[i]) < MessageOf(r[j])
    <3>1. e + i - 1 < e + j - 1
      BY <1>2, <2>1
    <3> QED BY <1>3, <1>7, <3>1
  <2>2. InOrder(r, Ordered(c))
    BY <1>3, <2>1 DEF InOrder
  <2>3. ASSUME NEW i \in DOMAIN delivered, NEW j \in DOMAIN r,
               MessageOf(delivered[i]) \in Ordered(c)
        PROVE  MessageOf(delivered[i]) < MessageOf(r[j])
    <3>1. PICK k : k = MessageOf(delivered[i])
      OBVIOUS
    <3>2. k \in Ordered(c) /\ WasDelivered(k)
      BY <2>3, <3>1 DEF WasDelivered
    <3>3. OrderingRank(k) < e
      BY <1>5, <3>2 DEF OrderedOn, e
    <3>4. OrderingRank(k) \in Nat
      <4>1. k \in DOMAIN messages
        BY <3>2 DEF Ordered
      <4> QED BY <1>1, <4>1, MessageFacts
    <3>5. j \in 1 .. (x - e) /\ OrderingRank(MessageOf(r[j])) = e + j - 1
      BY <1>3
    <3>6. OrderingRank(k) < OrderingRank(MessageOf(r[j]))
      BY <1>2, <3>3, <3>4, <3>5
    <3> QED BY <1>3, <1>7, <3>1, <3>2, <3>5, <3>6
  <2>4. InOrder(delivered, Ordered(c))
    BY <1>5 DEF OrderedOn
  <2>5. \A i \in DOMAIN delivered, j \in DOMAIN r :
           MessageOf(delivered[i]) \in Ordered(c) /\ MessageOf(r[j]) \in Ordered(c)
           => MessageOf(delivered[i]) < MessageOf(r[j])
    BY <2>3
  <2>6. ASSUME NEW S, S = Ordered(c) PROVE InOrder(delivered \o r, S)
    BY <1>1, <2>2, <2>4, <2>5, <2>6, InOrderBoth
  <2> QED BY <1>3, <2>6
<1> QED BY <1>2, <1>4, <1>8, <1>9, <1>10 DEF OrderedOn, x

LEMMA SequencedHere ==
    ASSUME IInv, SequencedInv, UNCHANGED messages,
           NEW n \in DOMAIN messages, SequencedStep(n),
           NEW c, c = messages[n].channel
    PROVE  SequencedOn(c)'
<1> DEFINE B == Body(n, messages[n].fragments)
           q == SequencingRank(n)
<1>1. SenderInv /\ delivered \in Seq(Bodies)
  BY DEF IInv, BodiesInv
<1>2. /\ c \in Channel /\ n \in Sequenced(c) /\ B \in Bodies
      /\ MessageOf(B) = n /\ q \in Nat
  BY <1>1, MessageFacts DEF SequencedStep
<1>3. SequencedOn(c) /\ DOMAIN highest_sequenced = Channel
  BY <1>2 DEF SequencedInv
<1>4. Sequenced(c)' = Sequenced(c) /\ \A k : SequencingRank(k)' = SequencingRank(k)
  BY MessagesStay
<1> HIDE DEF B
<1>5. CASE UNCHANGED <<highest_sequenced, delivered>>
  BY <1>3, <1>4, <1>5 DEF SequencedOn, WasDelivered
<1>6. CASE /\ q >= highest_sequenced[c]
           /\ highest_sequenced' = [highest_sequenced EXCEPT ![c] = q + 1]
           /\ delivered' = Append(delivered, B)
  <2>1. highest_sequenced'[c] = q + 1
    BY <1>2, <1>3, <1>6
  <2>2. \A k : WasDelivered(k)' <=> WasDelivered(k) \/ k = n
    <3>1. \A k : Tells(Append(delivered, B), k) <=> Tells(delivered, k) \/ MessageOf(B) = k
      BY <1>1, <1>2, OneMore
    <3> QED BY <1>2, <1>6, <3>1 DEF WasDelivered, Tells
  <2>3. highest_sequenced[c] \in Nat
    BY <1>3 DEF SequencedOn
  <2>4. ASSUME NEW k \in Sequenced(c), WasDelivered(k)
        PROVE  SequencingRank(k) < q /\ SequencingRank(k) < q + 1 /\ k < n
    <3>1. SequencingRank(k) < highest_sequenced[c]
      BY <1>3, <2>4 DEF SequencedOn
    <3>2. SequencingRank(k) \in Nat
      <4>1. k \in DOMAIN messages
        BY DEF Sequenced
      <4> QED BY <1>1, <4>1, MessageFacts
    <3>3. SequencingRank(k) < q /\ SequencingRank(k) < q + 1
      BY <1>2, <1>6, <2>3, <3>1, <3>2
    <3>4. k < n
      BY <1>1, <1>2, <3>3, SequencingRanks
    <3> QED BY <3>3, <3>4
  <2>5. \A k \in Sequenced(c) : WasDelivered(k)' => SequencingRank(k) < q + 1
    BY <1>2, <2>2, <2>4
  <2>6. InOrder(delivered', Sequenced(c))
    <3>1. \A i \in DOMAIN delivered :
             MessageOf(delivered[i]) \in Sequenced(c) => MessageOf(delivered[i]) < n
      BY <2>4 DEF WasDelivered
    <3>2. InOrder(delivered, Sequenced(c))
      BY <1>3 DEF SequencedOn
    <3>3. ASSUME NEW S, S = Sequenced(c) PROVE InOrder(Append(delivered, B), S)
      BY <1>1, <1>2, <3>1, <3>2, <3>3, OneMore
    <3> QED BY <1>6, <3>3
  <2>7. q + 1 \in Nat /\ q + 1 - 1 = q /\ WasDelivered(n)'
    BY <1>2, <2>2
  <2> QED BY <1>2, <1>4, <2>1, <2>5, <2>6, <2>7 DEF SequencedOn
<1> QED BY <1>5, <1>6 DEF SequencedStep, B

LEMMA HandlesKeeps ==
    ASSUME IInv, SequencedInv, OrderedInv, UNCHANGED messages,
           NEW n \in DOMAIN messages, Handles(n)
    PROVE  SequencedInv' /\ OrderedInv'
<1> DEFINE B == Body(n, messages[n].fragments)
           c == messages[n].channel
<1>1. /\ c \in Channel /\ B \in Bodies /\ MessageOf(B) = n
      /\ \A k : n \in Sequenced(k) \/ n \in Ordered(k) => k = c
  BY MessageFacts DEF IInv, Sequenced, Ordered
<1>2. DOMAIN channels = Channel /\ DOMAIN highest_sequenced = Channel
  BY DEF IInv, BodiesInv, SequencedInv
<1>3. /\ \A k \in Channel : SequencedOn(k)
      /\ \A k \in Channel : OrderedOn(k)
  BY DEF SequencedInv, OrderedInv
<1>4. /\ <<>> \in Seq(Bodies) /\ delivered \o <<>> = delivered
      /\ <<B>> \in Seq(Bodies) /\ Append(delivered, B) = delivered \o <<B>>
      /\ DOMAIN <<>> = {} /\ DOMAIN <<B>> = {1} /\ <<B>>[1] = B
  <2>1. delivered \in Seq(Bodies)
    BY DEF IInv, BodiesInv
  <2> HIDE DEF B
  <2> QED BY <1>1, <2>1
<1> HIDE DEF B
<1>5. CASE SequencedStep(n)
  <2>1. /\ n \in Sequenced(c) /\ n \notin Ordered(c) /\ UNCHANGED channels
        /\ DOMAIN highest_sequenced' = Channel
        /\ \A k \in Channel \ {c} : highest_sequenced'[k] = highest_sequenced[k]
    BY <1>2, <1>5, KindsApart DEF SequencedStep
  <2>2. \E r \in {<<>>, <<B>>} : delivered' = delivered \o r
    BY <1>4, <1>5 DEF SequencedStep, B
  <2>3. PICK r \in Seq(Bodies) :
           /\ delivered' = delivered \o r
           /\ \A i \in DOMAIN r : MessageOf(r[i]) = n
    BY <1>1, <1>4, <2>2
  <2>4. \A k \in Channel \ {c} : SequencedOn(k)'
    BY <1>1, <1>3, <2>1, <2>3, SequencedElsewhere
  <2>5. \A k \in Channel : OrderedOn(k)'
    BY <1>1, <1>3, <2>1, <2>3, OrderedElsewhere
  <2>6. SequencedOn(c)'
    BY <1>5, SequencedHere
  <2> QED BY <2>1, <2>4, <2>5, <2>6 DEF SequencedInv, OrderedInv
<1>6. CASE OrderedStep(n)
  <2>1. UNCHANGED highest_sequenced
    BY <1>6 DEF OrderedStep
  <2>2. /\ \A k \in Channel \ {c} : channels'[k] = channels[k]
        /\ \E r \in Seq(Bodies) :
              /\ delivered' = delivered \o r
              /\ \A i \in DOMAIN r : MessageOf(r[i]) \in Ordered(c)
    <3>1. PICK e, x : e = channels[c].expected_index /\ x = channels'[c].expected_index
      OBVIOUS
    <3>2. /\ \A k \in Channel \ {c} : channels'[k] = channels[k]
          /\ \E r \in Seq(Bodies) :
                /\ delivered' = delivered \o r
                /\ DOMAIN r = 1 .. (x - e)
                /\ \A i \in 1 .. (x - e) :
                      /\ MessageOf(r[i]) \in Ordered(c)
                      /\ OrderingRank(MessageOf(r[i])) = e + i - 1
      <4>1. OrderedRan(n, c, e, x)
        BY <1>6, <3>1, OrderedRun
      <4> QED BY <4>1 DEF OrderedRan
    <3> QED BY <3>2
  <2>3. PICK r \in Seq(Bodies) :
           /\ delivered' = delivered \o r
           /\ \A i \in DOMAIN r : MessageOf(r[i]) \in Ordered(c)
    BY <2>2
  <2>4. \A k, m : m \in Ordered(c) => m \notin Sequenced(k) /\ (m \in Ordered(k) => k = c)
    BY DEF Sequenced, Ordered
  <2>5. \A k \in Channel : SequencedOn(k)'
    BY <1>3, <2>1, <2>3, <2>4, SequencedElsewhere
  <2>6. \A k \in Channel \ {c} : OrderedOn(k)'
    BY <1>3, <2>2, <2>3, <2>4, OrderedElsewhere
  <2>7. OrderedOn(c)'
    BY <1>6, OrderedHere
  <2> QED BY <1>2, <2>1, <2>5, <2>6, <2>7 DEF SequencedInv, OrderedInv
<1>7. CASE PlainStep(n)
  <2>1. UNCHANGED <<channels, highest_sequenced>> /\ delivered' = delivered \o <<B>>
    BY <1>4, <1>7 DEF PlainStep, B
  <2>2. \A k : n \notin Sequenced(k) /\ n \notin Ordered(k)
    BY <1>7 DEF PlainStep, Sequenced, Ordered, IsOrdered
  <2>3. PICK r \in Seq(Bodies) :
           /\ delivered' = delivered \o r
           /\ \A i \in DOMAIN r : MessageOf(r[i]) = n
    BY <1>1, <1>4, <2>1
  <2>4. \A k \in Channel : SequencedOn(k)'
    BY <1>3, <2>1, <2>2, <2>3, SequencedElsewhere
  <2>5. \A k \in Channel : OrderedOn(k)'
    BY <1>3, <2>1, <2>2, <2>3, OrderedElsewhere
  <2> QED BY <1>2, <2>1, <2>4, <2>5 DEF SequencedInv, OrderedInv
<1> QED BY <1>5, <1>6, <1>7 DEF Handles

-----------------------------------------------------------------------------
(***************************************************************************)
(* The order of the channels is kept by every step.                        *)
(***************************************************************************)
(* A new message is on its channel with the next index, not handed over.   *)
LEMMA SendJoins ==
    ASSUME IInv, NEW m \in Message, Send(m), NEW L, L = Len(messages)
    PROVE  /\ UNCHANGED <<delivered, channels, highest_sequenced, pending>>
           /\ \A n : WasDelivered(n)' <=> WasDelivered(n)
           /\ \A n : WasDelivered(n) => n \in DOMAIN messages
           /\ \A i \in DOMAIN delivered : MessageOf(delivered[i]) \in DOMAIN messages
           /\ \A c : \A n \in DOMAIN messages :
                 /\ (n \in Sequenced(c))' <=> n \in Sequenced(c)
                 /\ (n \in Ordered(c))' <=> n \in Ordered(c)
           /\ \A c : Sequenced(c) \subseteq DOMAIN messages
           /\ \A c : Ordered(c) \subseteq DOMAIN messages
           /\ \A c : Sequenced(c)' \subseteq Sequenced(c) \union {L + 1}
           /\ \A c : Ordered(c)' \subseteq Ordered(c) \union {L + 1}
           /\ L + 1 \notin DOMAIN messages
<1>1. SenderInv /\ delivered \in Seq(Bodies)
  BY DEF IInv, BodiesInv
<1>2. /\ \A n \in DOMAIN messages : n \in DOMAIN messages' /\ messages'[n] = messages[n]
      /\ DOMAIN messages' = DOMAIN messages \union {L + 1}
      /\ L + 1 \notin DOMAIN messages
  BY <1>1, SendGrows
<1>3. UNCHANGED <<delivered, channels, highest_sequenced, pending>>
  BY DEF Send, receiver
<1>4. \A n : WasDelivered(n)' <=> WasDelivered(n)
  BY <1>3 DEF WasDelivered
<1>5. \A i \in DOMAIN delivered : MessageOf(delivered[i]) \in DOMAIN messages
  BY <1>1, BodiesTell
<1>6. \A n : WasDelivered(n) => n \in DOMAIN messages
  BY <1>5 DEF WasDelivered
<1>7. \A c : \A n \in DOMAIN messages :
         /\ (n \in Sequenced(c))' <=> n \in Sequenced(c)
         /\ (n \in Ordered(c))' <=> n \in Ordered(c)
  BY <1>2 DEF Sequenced, Ordered
<1>8. /\ \A c : Sequenced(c) \subseteq DOMAIN messages
      /\ \A c : Ordered(c) \subseteq DOMAIN messages
      /\ \A c : Sequenced(c)' \subseteq Sequenced(c) \union {L + 1}
      /\ \A c : Ordered(c)' \subseteq Ordered(c) \union {L + 1}
  BY <1>2 DEF Sequenced, Ordered
<1> QED BY <1>2, <1>3, <1>4, <1>5, <1>6, <1>7, <1>8

LEMMA SendKeepsOrder ==
    ASSUME IInv, SequencedInv, OrderedInv, NEW m \in Message, Send(m)
    PROVE  SequencedInv' /\ OrderedInv'
<1>1. PICK L : L = Len(messages)
  OBVIOUS
<1>2. /\ UNCHANGED <<delivered, channels, highest_sequenced, pending>>
      /\ \A n : WasDelivered(n)' <=> WasDelivered(n)
      /\ \A n : WasDelivered(n) => n \in DOMAIN messages
      /\ \A i \in DOMAIN delivered : MessageOf(delivered[i]) \in DOMAIN messages
      /\ \A c : \A n \in DOMAIN messages :
            /\ (n \in Sequenced(c))' <=> n \in Sequenced(c)
            /\ (n \in Ordered(c))' <=> n \in Ordered(c)
      /\ \A c : Sequenced(c) \subseteq DOMAIN messages
      /\ \A c : Ordered(c) \subseteq DOMAIN messages
      /\ \A c : Sequenced(c)' \subseteq Sequenced(c) \union {L + 1}
      /\ \A c : Ordered(c)' \subseteq Ordered(c) \union {L + 1}
      /\ L + 1 \notin DOMAIN messages
  BY <1>1, SendJoins
<1>3. \A n \in DOMAIN messages :
         /\ messages'[n] = messages[n]
         /\ OrderingRank(n)' = OrderingRank(n)
         /\ SequencingRank(n)' = SequencingRank(n)
  BY <1>1, SendGrows DEF IInv
<1>4. ASSUME NEW c \in Channel PROVE SequencedOn(c)'
  <2>1. SequencedOn(c)
    BY DEF SequencedInv
  <2>2. \A n \in Sequenced(c)' :
           WasDelivered(n)' => SequencingRank(n)' < highest_sequenced'[c]
    BY <1>2, <1>3, <2>1 DEF SequencedOn
  <2>3. highest_sequenced'[c] # 0 => \E n \in Sequenced(c)' :
           SequencingRank(n)' = highest_sequenced'[c] - 1 /\ WasDelivered(n)'
    BY <1>2, <1>3, <2>1 DEF SequencedOn
  <2>4. InOrder(delivered', Sequenced(c)')
    BY <1>2, <2>1 DEF SequencedOn, InOrder
  <2> QED BY <1>2, <2>1, <2>2, <2>3, <2>4 DEF SequencedOn
<1>5. ASSUME NEW c \in Channel PROVE OrderedOn(c)'
  <2>1. OrderedOn(c)
    BY DEF OrderedInv
  <2>2. \A n \in Ordered(c)' :
           WasDelivered(n)' => OrderingRank(n)' < channels'[c].expected_index
    BY <1>2, <1>3, <2>1 DEF OrderedOn
  <2>3. \A k \in 0 .. (channels'[c].expected_index - 1) : \E n \in Ordered(c)' :
           OrderingRank(n)' = k /\ WasDelivered(n)'
    BY <1>2, <1>3, <2>1 DEF OrderedOn
  <2>4. InOrder(delivered', Ordered(c)')
    BY <1>2, <2>1 DEF OrderedOn, InOrder
  <2>5. Due(c) \subseteq Due(c)'
    BY <1>2, <1>3 DEF Due
  <2>6. \A k \in DOMAIN channels'[c].buffered :
           /\ k > channels'[c].expected_index
           /\ <<k, channels'[c].buffered[k]>> \in Due(c)'
    BY <1>2, <2>1, <2>5 DEF OrderedOn
  <2> QED BY <2>2, <2>3, <2>4, <2>6 DEF OrderedOn
<1> QED BY <1>2, <1>4, <1>5 DEF SequencedInv, OrderedInv

LEMMA OrderStays ==
    ASSUME SequencedInv, OrderedInv,
           UNCHANGED <<messages, channels, highest_sequenced, delivered>>
    PROVE  SequencedInv' /\ OrderedInv'
<1>1. /\ \A c : Sequenced(c)' = Sequenced(c) /\ Ordered(c)' = Ordered(c)
      /\ \A n : OrderingRank(n)' = OrderingRank(n)
      /\ \A n : SequencingRank(n)' = SequencingRank(n)
      /\ \A n : WasDelivered(n)' <=> WasDelivered(n)
  BY MessagesStay DEF WasDelivered
<1>2. \A c : Due(c)' = Due(c)
  BY <1>1 DEF Due
<1>3. \A c \in Channel : SequencedOn(c)'
  BY <1>1 DEF SequencedInv, SequencedOn
<1>4. \A c \in Channel : OrderedOn(c)'
  BY <1>1, <1>2 DEF OrderedInv, OrderedOn
<1> QED BY <1>3, <1>4 DEF SequencedInv, OrderedInv

LEMMA TakeKeepsOrder ==
    ASSUME IInv, SequencedInv, OrderedInv, UNCHANGED messages, NEW d \in net, Take(d)
    PROVE  SequencedInv' /\ OrderedInv'
<1>1. PICK n \in DOMAIN messages : FrameOfMessage(d.frame, n)
  BY DEF IInv, FramesInv, Genuine
<1>2. Handles(n) \/ UNCHANGED <<channels, highest_sequenced, delivered>>
  BY <1>1, TakeHandles
<1>3. CASE Handles(n)
  BY <1>3, HandlesKeeps
<1>4. CASE UNCHANGED <<channels, highest_sequenced, delivered>>
  BY <1>4, OrderStays
<1> QED BY <1>2, <1>3, <1>4

LEMMA NextOInv ==
    ASSUME NoIdAgain, OInv, [Next]_vars
    PROVE  OInv'
<1>1. IInv' /\ IInv /\ SequencedInv /\ OrderedInv
  BY NextIInv DEF OInv
<1>2. CASE SendSome
  BY <1>1, <1>2, SendKeepsOrder DEF SendSome, Message, OInv
<1>3. CASE \E d \in net : Receive(d) \/ Duplicate(d)
  BY <1>1, <1>3, TakeKeepsOrder DEF Receive, Duplicate, sender, OInv
<1>4. CASE UNCHANGED <<messages, channels, highest_sequenced, delivered>>
  BY <1>1, <1>4, OrderStays DEF OInv
<1>5. ASSUME \/ \E s \in DOMAIN sent_datagrams : Timeout(s + 1)
             \/ \E d \in net : Lose(d)
             \/ Acknowledge
             \/ UNCHANGED vars
      PROVE  UNCHANGED <<messages, channels, highest_sequenced, delivered>>
  BY <1>5 DEF Timeout, Lose, Acknowledge, vars, sender, receiver
<1> QED BY <1>2, <1>3, <1>4, <1>5 DEF Next

LEMMA InitOInv == Init => OInv
<1> SUFFICES ASSUME Init PROVE OInv
  OBVIOUS
<1>1. IInv
  BY InitIInv
<1>2. \A n : ~ WasDelivered(n)
  BY DEF Init, WasDelivered
<1>3. \A S : InOrder(delivered, S)
  BY DEF Init, InOrder
<1>4. SequencedInv
  BY <1>2, <1>3 DEF Init, SequencedInv, SequencedOn
<1>5. OrderedInv
  <2> SUFFICES ASSUME NEW c \in Channel PROVE OrderedOn(c)
    BY DEF OrderedInv
  <2>1. channels[c].expected_index = 0 /\ DOMAIN channels[c].buffered = {}
    BY DEF Init, EmptyMap
  <2> QED BY <1>2, <1>3, <2>1 DEF OrderedOn
<1> QED BY <1>1, <1>4, <1>5 DEF OInv

LEMMA OInvAlways == ASSUME NoIdAgain PROVE Spec => []OInv
<1>1. Init => OInv
  BY InitOInv
<1>2. OInv /\ [Next]_vars => OInv'
  BY NextOInv
<1> QED BY <1>1, <1>2, PTL DEF Spec

(***************************************************************************)
(* What is sequenced on a channel is never handed over after something     *)
(* newer of the channel, nor twice: highest_sequenced is one more than the *)
(* index of the last that was handed over, so that everything handed over  *)
(* is below it, however often its frames come again.                       *)
(***************************************************************************)
THEOREM SequencedStaysInOrder ==
    ASSUME NoIdAgain
    PROVE  Spec => []SequencedNeverOlder
<1>1. OInv => SequencedNeverOlder
  BY DEF OInv, SequencedInv, SequencedOn, SequencedNeverOlder
<1> QED BY <1>1, OInvAlways, PTL

-----------------------------------------------------------------------------
(***************************************************************************)
(* What has arrived stays arrived.                                         *)
(***************************************************************************)
LEMMA HandlesGains ==
    ASSUME IInv, OrderedInv, NEW n \in DOMAIN messages, Handles(n)
    PROVE  /\ \A k : WasDelivered(k) => WasDelivered(k)'
           /\ PlainStep(n) => WasDelivered(n)'
<1> DEFINE B == Body(n, messages[n].fragments)
<1>1. delivered \in Seq(Bodies) /\ B \in Bodies /\ MessageOf(B) = n
  BY MessageFacts DEF IInv, BodiesInv
<1>2. \A k : Tells(Append(delivered, B), k) <=> Tells(delivered, k) \/ MessageOf(B) = k
  BY <1>1, OneMore
<1>3. CASE delivered' = Append(delivered, B)
  BY <1>1, <1>2, <1>3 DEF WasDelivered, Tells
<1>4. CASE UNCHANGED delivered /\ ~ PlainStep(n)
  BY <1>4 DEF WasDelivered
<1>5. CASE OrderedStep(n)
  <2>1. ~ PlainStep(n)
    BY <1>5 DEF OrderedStep, PlainStep, Ordered
  <2>2. PICK r \in Seq(Bodies) : delivered' = delivered \o r
    <3>1. PICK c, e, x : /\ c = messages[n].channel
                         /\ e = channels[c].expected_index
                         /\ x = channels'[c].expected_index
      OBVIOUS
    <3>2. OrderedRan(n, c, e, x)
      BY <1>5, <3>1, OrderedRun
    <3> QED BY <3>2 DEF OrderedRan
  <2>3. \A k : Tells(delivered \o r, k) <=> Tells(delivered, k) \/ Tells(r, k)
    BY <1>1, TellsBoth
  <2>4. \A k : WasDelivered(k) => WasDelivered(k)'
    BY <2>2, <2>3 DEF WasDelivered, Tells
  <2> QED BY <2>1, <2>4
<1>6. SequencedStep(n) => ~ PlainStep(n)
  BY DEF SequencedStep, PlainStep, Sequenced, IsOrdered
<1> QED BY <1>3, <1>4, <1>5, <1>6 DEF Handles, SequencedStep, PlainStep

LEMMA GotStays ==
    ASSUME IInv, SequencedInv, OrderedInv, UNCHANGED messages,
           NEW n \in DOMAIN messages, Handles(n)
    PROVE  Got(n)' /\ \A k \in DOMAIN messages : Got(k) => Got(k)'
<1>1. PICK c, e, x : /\ c = messages[n].channel
                     /\ e = channels[c].expected_index
                     /\ x = channels'[c].expected_index
  OBVIOUS
<1>2. /\ \A k : WasDelivered(k) => WasDelivered(k)'
      /\ PlainStep(n) => WasDelivered(n)'
  BY HandlesGains
<1>3. /\ \A k : Sequenced(k)' = Sequenced(k) /\ Ordered(k)' = Ordered(k)
      /\ \A k : OrderingRank(k)' = OrderingRank(k)
      /\ \A k : SequencingRank(k)' = SequencingRank(k)
  BY MessagesStay
<1>4. /\ c \in Channel /\ OrderingRank(n) \in Nat /\ SequencingRank(n) \in Nat
      /\ \A k \in DOMAIN messages : /\ messages[k].channel \in Channel
                                    /\ OrderingRank(k) \in Nat
                                    /\ SequencingRank(k) \in Nat
  BY <1>1, MessageFacts DEF IInv
<1>5. CASE SequencedStep(n)
  <2>1. UNCHANGED channels /\ n \in Sequenced(c)
    BY <1>1, <1>5 DEF SequencedStep
  <2>2. /\ highest_sequenced[c] \in Nat /\ DOMAIN highest_sequenced = Channel
        /\ \A k \in Channel : highest_sequenced[k] \in Nat
    BY <1>4 DEF SequencedInv, SequencedOn
  <2>3. /\ \A k \in Channel \ {c} : highest_sequenced'[k] = highest_sequenced[k]
        /\ SequencingRank(n) < highest_sequenced'[c]
        /\ highest_sequenced'[c] \in Nat
        /\ highest_sequenced'[c] >= highest_sequenced[c]
    <3>1. CASE SequencingRank(n) < highest_sequenced[c] /\ UNCHANGED highest_sequenced
      BY <2>2, <3>1
    <3>2. CASE /\ SequencingRank(n) >= highest_sequenced[c]
               /\ highest_sequenced' =
                     [highest_sequenced EXCEPT ![c] = SequencingRank(n) + 1]
      <4>1. highest_sequenced'[c] = SequencingRank(n) + 1
        BY <1>4, <2>2, <3>2
      <4>2. \A k \in Channel \ {c} : highest_sequenced'[k] = highest_sequenced[k]
        BY <1>4, <2>2, <3>2
      <4> QED BY <1>4, <2>2, <3>2, <4>1, <4>2
    <3> QED BY <1>1, <1>5, <3>1, <3>2 DEF SequencedStep
  <2>4. ASSUME NEW k \in DOMAIN messages,
               SequencingRank(k) < highest_sequenced[messages[k].channel]
        PROVE  SequencingRank(k) < highest_sequenced'[messages[k].channel]
    <3>1. CASE messages[k].channel = c
      BY <1>4, <2>2, <2>3, <2>4, <3>1
    <3>2. CASE messages[k].channel # c
      BY <1>4, <2>3, <2>4, <3>2
    <3> QED BY <3>1, <3>2
  <2> QED BY <1>1, <1>2, <1>3, <2>1, <2>3, <2>4 DEF Got
<1>6. CASE OrderedStep(n)
  <2>1. UNCHANGED highest_sequenced /\ n \in Ordered(c)
    BY <1>1, <1>6 DEF OrderedStep
  <2>2. /\ \A k \in Channel \ {c} : channels'[k] = channels[k]
        /\ \A k \in Nat :
              k < e \/ k \in DOMAIN channels[c].buffered \/ k = OrderingRank(n)
              => k < x \/ k \in DOMAIN channels'[c].buffered
    <3>1. OrderedRan(n, c, e, x)
      BY <1>1, <1>6, OrderedRun
    <3> QED BY <3>1 DEF OrderedRan
  <2>3. ASSUME NEW k \in DOMAIN messages, NEW b, b = messages[k].channel,
               \/ OrderingRank(k) < channels[b].expected_index
               \/ OrderingRank(k) \in DOMAIN channels[b].buffered
        PROVE  \/ OrderingRank(k) < channels'[b].expected_index
               \/ OrderingRank(k) \in DOMAIN channels'[b].buffered
    <3>1. CASE b = c
      BY <1>1, <1>4, <2>2, <2>3, <3>1
    <3>2. CASE b # c
      BY <1>4, <2>2, <2>3, <3>2
    <3> QED BY <3>1, <3>2
  <2>4. \/ OrderingRank(n) < channels'[c].expected_index
        \/ OrderingRank(n) \in DOMAIN channels'[c].buffered
    BY <1>1, <1>4, <2>2
  <2> QED BY <1>1, <1>2, <1>3, <2>1, <2>3, <2>4 DEF Got
<1>7. CASE PlainStep(n)
  BY <1>2, <1>3, <1>7 DEF PlainStep, Got
<1> QED BY <1>5, <1>6, <1>7 DEF Handles

(* A datagram taken from the network brings its fragment and loses none.   *)
LEMMA ThroughStays ==
    ASSUME IInv, SequencedInv, OrderedInv, UNCHANGED messages,
           NEW d \in net, Take(d)
    PROVE  /\ ThroughAs(d.frame)'
           /\ \A k \in DOMAIN messages : \A i : Through(k, i) => Through(k, i)'
<1>1. PICK n \in DOMAIN messages : FrameOfMessage(d.frame, n)
  BY DEF IInv, FramesInv, Genuine
<1>2. PICK f : f = d.frame
  OBVIOUS
<1>3. /\ SplitOnes' = SplitOnes /\ \A k : SplitIdOf(k)' = SplitIdOf(k)
      /\ FrameOfMessage(f, n)'
  BY <1>1, <1>2, MessagesStay
<1>4. \/ /\ Handles(n)
         /\ \/ n \notin SplitOnes /\ pending' = pending
            \/ n \in SplitOnes /\ pending' = Remove(pending, {SplitIdOf(n)})
      \/ /\ UNCHANGED <<channels, highest_sequenced, delivered>>
         /\ n \in SplitOnes
         /\ \E e :
               /\ pending' = Put(pending, SplitIdOf(n), e)
               /\ f.split_index \in DOMAIN e.fragments
               /\ DOMAIN FragmentsOf(pending, SplitIdOf(n)) \subseteq DOMAIN e.fragments
  BY <1>1, <1>2, TakeHandles
<1>5. Through(n, f.split_index)' /\ \A k \in DOMAIN messages : \A i : Through(k, i) => Through(k, i)'
  <2>1. CASE /\ Handles(n)
             /\ \/ n \notin SplitOnes /\ pending' = pending
                \/ n \in SplitOnes /\ pending' = Remove(pending, {SplitIdOf(n)})
    <3>1. Got(n)' /\ \A k \in DOMAIN messages : Got(k) => Got(k)'
      BY <2>1, GotStays
    <3>2. ASSUME NEW k \in SplitOnes, k # n, SplitIdOf(k) \in DOMAIN pending
          PROVE  /\ SplitIdOf(k) \in DOMAIN pending'
                 /\ pending'[SplitIdOf(k)] = pending[SplitIdOf(k)]
      <4>1. n \in SplitOnes => SplitIdOf(k) # SplitIdOf(n)
        BY <3>2, SplitIdsDiffer DEF IInv
      <4> QED BY <2>1, <3>2, <4>1 DEF Remove, Restrict
    <3>3. ASSUME NEW k \in DOMAIN messages, NEW i, Through(k, i) PROVE Through(k, i)'
      BY <1>3, <3>1, <3>2, <3>3 DEF Through
    <3> QED BY <3>1, <3>3 DEF Through
  <2>2. ASSUME UNCHANGED <<channels, highest_sequenced, delivered>>,
               n \in SplitOnes, NEW e,
               pending' = Put(pending, SplitIdOf(n), e),
               f.split_index \in DOMAIN e.fragments,
               DOMAIN FragmentsOf(pending, SplitIdOf(n)) \subseteq DOMAIN e.fragments
        PROVE  /\ Through(n, f.split_index)'
               /\ \A k \in DOMAIN messages : \A i : Through(k, i) => Through(k, i)'
    <3>1. \A k : Got(k)' <=> Got(k)
      <4>1. /\ \A k : Sequenced(k)' = Sequenced(k) /\ Ordered(k)' = Ordered(k)
            /\ \A k : OrderingRank(k)' = OrderingRank(k)
            /\ \A k : SequencingRank(k)' = SequencingRank(k)
        BY MessagesStay
      <4>2. \A k : WasDelivered(k)' <=> WasDelivered(k)
        BY <2>2 DEF WasDelivered
      <4> QED BY <2>2, <4>1, <4>2 DEF Got
    <3> DEFINE id == SplitIdOf(n)
    <3>2. /\ id \in DOMAIN pending' /\ pending'[id] = e
          /\ \A k \in DOMAIN pending : k \in DOMAIN pending'
          /\ \A k \in DOMAIN pending \ {id} : pending'[k] = pending[k]
      BY <2>2 DEF Put
    <3>3. Through(n, f.split_index)'
      BY <1>3, <2>2, <3>2 DEF Through
    <3>4. id \in DOMAIN pending => DOMAIN pending[id].fragments \subseteq DOMAIN e.fragments
      BY <2>2 DEF FragmentsOf
    <3>5. ASSUME NEW k \in DOMAIN messages, NEW i, Through(k, i) PROVE Through(k, i)'
      <4>1. CASE Got(k)
        BY <3>1, <4>1 DEF Through
      <4>2. CASE /\ k \in SplitOnes /\ SplitIdOf(k) \in DOMAIN pending
                 /\ i \in DOMAIN pending[SplitIdOf(k)].fragments
        <5>1. CASE SplitIdOf(k) = id
          BY <1>3, <3>2, <3>4, <4>2, <5>1 DEF Through
        <5>2. CASE SplitIdOf(k) # id
          BY <1>3, <3>2, <4>2, <5>2 DEF Through
        <5> QED BY <5>1, <5>2
      <4> QED BY <3>5, <4>1, <4>2 DEF Through
    <3> QED BY <3>3, <3>5
  <2> QED BY <1>4, <2>1, <2>2
<1>6. ThroughAs(f)'
  BY <1>3, <1>5 DEF ThroughAs
<1> QED BY <1>2, <1>5, <1>6 DEF ThroughAs, FrameOfMessage, Through

LEMMA ThroughAlike ==
    ASSUME UNCHANGED <<messages, channels, highest_sequenced, delivered, pending>>
    PROVE  \A n, i : Through(n, i)' <=> Through(n, i)
<1>1. /\ \A k : Sequenced(k)' = Sequenced(k) /\ Ordered(k)' = Ordered(k)
      /\ SplitOnes' = SplitOnes
      /\ \A k : SplitIdOf(k)' = SplitIdOf(k)
      /\ \A k : OrderingRank(k)' = OrderingRank(k)
      /\ \A k : SequencingRank(k)' = SequencingRank(k)
  BY MessagesStay
<1>2. \A k : WasDelivered(k)' <=> WasDelivered(k)
  BY DEF WasDelivered
<1>3. \A k : Got(k)' <=> Got(k)
  BY <1>1, <1>2 DEF Got
<1> QED BY <1>1, <1>3 DEF Through

LEMMA ThroughGrows ==
    ASSUME IInv, NEW m \in Message, Send(m)
    PROVE  \A n \in DOMAIN messages : \A i : Through(n, i) => Through(n, i)'
<1>1. PICK L : L = Len(messages)
  OBVIOUS
<1>2. /\ UNCHANGED <<delivered, channels, highest_sequenced, pending>>
      /\ \A n : WasDelivered(n)' <=> WasDelivered(n)
      /\ \A c : \A n \in DOMAIN messages :
            /\ (n \in Sequenced(c))' <=> n \in Sequenced(c)
            /\ (n \in Ordered(c))' <=> n \in Ordered(c)
  BY <1>1, SendJoins
<1>3. \A n \in DOMAIN messages :
         /\ messages'[n] = messages[n]
         /\ (n \in SplitOnes)' <=> n \in SplitOnes
         /\ SplitIdOf(n)' = SplitIdOf(n)
         /\ OrderingRank(n)' = OrderingRank(n)
         /\ SequencingRank(n)' = SequencingRank(n)
  BY <1>1, SendGrows DEF IInv
<1>4. \A n \in DOMAIN messages : Got(n) => Got(n)'
  BY <1>2, <1>3 DEF Got
<1> QED BY <1>2, <1>3, <1>4 DEF Through

-----------------------------------------------------------------------------
(***************************************************************************)
(* Nothing reliable is forgotten: a recorded datagram leaves the table     *)
(* only when its number was received, and under that number no other frame *)
(* was ever in flight.                                                     *)
(***************************************************************************)
LEMMA FrameTells ==
    ASSUME SenderInv, NEW f, NEW n \in DOMAIN messages, NEW k \in DOMAIN messages,
           FrameOfMessage(f, n), FrameOfMessage(f, k)
    PROVE  n = k
<1>1. CASE f.is_split
  <2>1. n \in SplitOnes /\ k \in SplitOnes /\ SplitIdOf(n) = SplitIdOf(k)
    BY <1>1 DEF FrameOfMessage
  <2> QED BY <2>1, SplitIdsDiffer
<1>2. CASE ~ f.is_split
  <2>1. Body(n, messages[n].fragments) = Body(k, messages[k].fragments)
    BY <1>2 DEF FrameOfMessage
  <2>2. /\ MessageOf(Body(n, messages[n].fragments)) = n
        /\ MessageOf(Body(k, messages[k].fragments)) = k
    BY MessageFacts
  <2> QED BY <2>1, <2>2
<1> QED BY <1>1, <1>2

(* What the next state of the table shows. *)
LEMMA RecordedNext ==
    ASSUME NEW n, NEW i, NEW s \in DOMAIN sent_datagrams', NEW g,
           g = sent_datagrams'[s], FrameOfMessage(g, n)', g.split_index = i
    PROVE  Recorded(n, i)'
BY DEF Recorded, FrameOfMessage

LEMMA ThroughNext ==
    ASSUME NEW s, NEW g, g = sent_datagrams'[s], ThroughAs(g)'
    PROVE  ThroughAs(sent_datagrams[s])'
BY DEF ThroughAs, FrameOfMessage, Through

LEMMA SendKeepsArrival ==
    ASSUME IInv, NumbersInv, RecordedInv, NEW m \in Message, Send(m)
    PROVE  NumbersInv' /\ RecordedInv'
<1>1. PICK L, frames : L = Len(messages) /\ frames = Frames(m, L + 1)
  OBVIOUS
<1> DEFINE n0 == send_sequence_number
           F == m.fragments
<1>2. /\ DOMAIN frames = n0 .. (n0 + F - 1)
      /\ \A i \in 0 .. (F - 1) :
            n0 + i \in DOMAIN frames /\ frames[n0 + i].split_index = i
      /\ \A k \in DOMAIN frames : FrameOfMessage(frames[k], L + 1)'
  BY <1>1, SendFrames DEF IInv
<1>3. /\ n0 \in Nat /\ F \in Nat \ {0}
      /\ DOMAIN sent_datagrams \subseteq 0 .. (n0 - 1)
  <2>1. F \in 1 .. MaxFragments
    BY DEF Message
  <2> QED BY <2>1, BoundsAssumption DEF IInv, SenderInv
<1>4. /\ send_sequence_number' = n0 + F
      /\ net' = net \union OnTheWire(frames)
      /\ sent_datagrams' = IF IsReliable(m.reliability)
                             THEN Merge(sent_datagrams, frames) ELSE sent_datagrams
      /\ received_sequences' = received_sequences
  BY <1>1 DEF Send, receiver
<1>5. /\ \A n \in DOMAIN messages :
            /\ n \in DOMAIN messages'
            /\ messages'[n] = messages[n]
            /\ (n \in SplitOnes)' <=> n \in SplitOnes
            /\ SplitIdOf(n)' = SplitIdOf(n)
            /\ OrderingRank(n)' = OrderingRank(n)
            /\ SequencingRank(n)' = SequencingRank(n)
      /\ DOMAIN messages' = DOMAIN messages \union {L + 1}
      /\ messages'[L + 1] = m
  BY <1>1, SendGrows DEF IInv
<1>6. \A f : \A n \in DOMAIN messages : FrameOfMessage(f, n) => FrameOfMessage(f, n)'
  BY <1>5 DEF FrameOfMessage
<1>7. \A n \in DOMAIN messages : \A i : Through(n, i) => Through(n, i)'
  BY ThroughGrows
<1>8. \A f : ThroughAs(f) => ThroughAs(f)'
  BY <1>5, <1>6, <1>7 DEF ThroughAs
<1> HIDE DEF n0, F
<1>9. ASSUME NEW s \in 0 .. (n0 - 1)
      PROVE  /\ s \in DOMAIN sent_datagrams' <=> s \in DOMAIN sent_datagrams
             /\ s \in DOMAIN sent_datagrams => sent_datagrams'[s] = sent_datagrams[s]
             /\ s \in 0 .. (n0 + F - 1)
  <2>1. s \notin DOMAIN frames
    BY <1>2, <1>3
  <2>2. s \in 0 .. (n0 + F - 1)
    BY <1>3
  <2> QED BY <1>4, <2>1, <2>2 DEF Merge
<1>10. NumbersInv'
  <2>1. received_sequences' \subseteq 0 .. (n0 + F - 1)
    BY <1>4, <1>9 DEF NumbersInv, n0
  <2>2. ASSUME NEW d \in net'
        PROVE  /\ d.sequence_number \in 0 .. (n0 + F - 1)
               /\ d.sequence_number \in DOMAIN sent_datagrams'
                     => sent_datagrams'[d.sequence_number] = d.frame
    <3>1. CASE d \in net
      BY <1>9, <3>1 DEF NumbersInv, n0
    <3>2. CASE d \in OnTheWire(frames)
      <4>1. PICK k \in DOMAIN frames : d.sequence_number = k /\ d.frame = frames[k]
        BY <3>2 DEF OnTheWire
      <4>2. k \in 0 .. (n0 + F - 1) /\ k \notin 0 .. (n0 - 1)
        BY <1>2, <1>3
      <4>3. k \notin DOMAIN sent_datagrams
        BY <1>3, <4>2
      <4> QED BY <1>4, <4>1, <4>2, <4>3 DEF Merge
    <3> QED BY <1>4, <3>1, <3>2
  <2>3. ASSUME NEW s \in received_sequences' \intersect DOMAIN sent_datagrams'
        PROVE  ThroughAs(sent_datagrams[s])'
    <3>1. s \in 0 .. (n0 - 1) /\ s \in received_sequences
      BY <1>4 DEF NumbersInv, n0
    <3>2. s \in DOMAIN sent_datagrams /\ sent_datagrams'[s] = sent_datagrams[s]
      BY <1>9, <3>1
    <3>3. PICK g : g = sent_datagrams[s]
      OBVIOUS
    <3>4. ThroughAs(g)
      BY <3>1, <3>2, <3>3 DEF NumbersInv
    <3>5. ThroughAs(g)'
      BY <1>8, <3>4
    <3> QED BY <3>2, <3>3, <3>5, ThroughNext
  <2>4. 0 .. (send_sequence_number' - 1) = 0 .. (n0 + F - 1)
    <3>1. PICK next : next = send_sequence_number' /\ next = n0 + F
      BY <1>4
    <3>2. next - 1 = n0 + F - 1
      BY <1>3, <3>1
    <3> QED BY <3>1, <3>2
  <2> QED BY <2>1, <2>2, <2>3, <2>4 DEF NumbersInv
<1>11. RecordedInv'
  <2> SUFFICES ASSUME NEW n \in DOMAIN messages', IsReliable(messages'[n].reliability),
                      NEW i \in 0 .. (messages'[n].fragments - 1)
               PROVE  Through(n, i)' \/ Recorded(n, i)'
    BY DEF RecordedInv
  <2>1. CASE n \in DOMAIN messages
    <3>1. Through(n, i) \/ Recorded(n, i)
      BY <1>5, <2>1 DEF RecordedInv
    <3>2. CASE Through(n, i)
      BY <1>7, <2>1, <3>2
    <3>3. CASE Recorded(n, i)
      <4>1. PICK s \in DOMAIN sent_datagrams :
               FrameOfMessage(sent_datagrams[s], n) /\ sent_datagrams[s].split_index = i
        BY <3>3 DEF Recorded
      <4>2. PICK g : g = sent_datagrams[s]
        OBVIOUS
      <4>3. FrameOfMessage(g, n)' /\ g.split_index = i
        BY <1>6, <2>1, <4>1, <4>2
      <4>4. s \in DOMAIN sent_datagrams' /\ g = sent_datagrams'[s]
        BY <1>3, <1>9, <4>2
      <4> QED BY <4>3, <4>4, RecordedNext
    <3> QED BY <3>1, <3>2, <3>3
  <2>2. CASE n = L + 1
    <3>1. /\ sent_datagrams' = Merge(sent_datagrams, frames)
          /\ i \in 0 .. (F - 1)
      BY <1>4, <1>5, <2>2 DEF F
    <3>2. PICK s \in DOMAIN frames : frames[s].split_index = i
      BY <1>2, <3>1
    <3>3. s \in DOMAIN sent_datagrams' /\ sent_datagrams'[s] = frames[s]
      BY <3>1 DEF Merge
    <3>4. PICK g : g = frames[s]
      OBVIOUS
    <3>5. FrameOfMessage(g, n)'
      BY <1>2, <2>2, <3>4
    <3> QED BY <3>2, <3>3, <3>4, <3>5, RecordedNext
  <2> QED BY <1>5, <2>1, <2>2
<1> QED BY <1>10, <1>11

LEMMA TimeoutKeepsArrival ==
    ASSUME IInv, NumbersInv, RecordedInv, NEW t, Timeout(t)
    PROVE  NumbersInv' /\ RecordedInv'
<1>1. PICK old : old = {s \in DOMAIN sent_datagrams : s < t}
  OBVIOUS
<1>2. PICK again, C, n0 :
         /\ n0 = send_sequence_number
         /\ again = Renumbered(sent_datagrams, old, n0)
         /\ C = Cardinality(old)
  OBVIOUS
<1>3. /\ send_sequence_number' = n0 + C
      /\ sent_datagrams' = Merge(Remove(sent_datagrams, old), again)
      /\ net' = net \union OnTheWire(again)
      /\ UNCHANGED <<messages, pending, channels, highest_sequenced, delivered,
                     received_sequences>>
  BY <1>1, <1>2 DEF Timeout, receiver
<1>4. n0 \in Nat /\ DOMAIN sent_datagrams \subseteq 0 .. (n0 - 1)
  BY <1>2 DEF IInv, SenderInv
<1>5. old \subseteq DOMAIN sent_datagrams /\ old \subseteq Nat /\ IsFiniteSet(old)
  <2>1. old \subseteq DOMAIN sent_datagrams
    BY <1>1
  <2>2. old \subseteq 0 .. (n0 - 1)
    BY <1>4, <2>1
  <2>3. IsFiniteSet(0 .. (n0 - 1))
    BY <1>4, FS_Interval
  <2>4. IsFiniteSet(old)
    BY <2>2, <2>3, FS_Subset
  <2>5. old \subseteq Nat
    BY <1>4, <2>2
  <2> QED BY <2>1, <2>4, <2>5
<1>6. C \in Nat /\ DOMAIN again = n0 .. (n0 + C - 1)
  BY <1>2, <1>4, <1>5, RenumberedDomain
<1>7. \A s \in old : \E k \in DOMAIN again : again[k] = sent_datagrams[s]
  BY <1>2, <1>4, <1>5, RenumberedKeepsAll
<1>8. ASSUME NEW s \in 0 .. (n0 - 1)
      PROVE  /\ s \in DOMAIN sent_datagrams' =>
                   s \in DOMAIN sent_datagrams /\ sent_datagrams'[s] = sent_datagrams[s]
             /\ s \in DOMAIN sent_datagrams \ old =>
                   s \in DOMAIN sent_datagrams' /\ sent_datagrams'[s] = sent_datagrams[s]
             /\ s \in 0 .. (n0 + C - 1)
  <2>1. s \notin DOMAIN again /\ s \in 0 .. (n0 + C - 1)
    BY <1>4, <1>6
  <2> QED BY <1>3, <2>1 DEF Merge, Remove, Restrict
<1>9. \A k \in DOMAIN again : k \in DOMAIN sent_datagrams' /\ sent_datagrams'[k] = again[k]
  BY <1>3 DEF Merge
<1>10. /\ \A f, n : FrameOfMessage(f, n)' <=> FrameOfMessage(f, n)
       /\ \A n, i : Through(n, i)' <=> Through(n, i)
  BY <1>3, MessagesStay, ThroughAlike
<1>11. \A f : ThroughAs(f) => ThroughAs(f)'
  BY <1>3, <1>10 DEF ThroughAs
<1>12. NumbersInv'
  <2>1. received_sequences' \subseteq 0 .. (n0 + C - 1)
    BY <1>2, <1>3, <1>8 DEF NumbersInv
  <2>2. ASSUME NEW d \in net'
        PROVE  /\ d.sequence_number \in 0 .. (n0 + C - 1)
               /\ d.sequence_number \in DOMAIN sent_datagrams'
                     => sent_datagrams'[d.sequence_number] = d.frame
    <3>1. CASE d \in net
      BY <1>2, <1>8, <3>1 DEF NumbersInv
    <3>2. CASE d \in OnTheWire(again)
      <4>1. PICK k \in DOMAIN again : d.sequence_number = k /\ d.frame = again[k]
        BY <3>2 DEF OnTheWire
      <4>2. k \in 0 .. (n0 + C - 1)
        BY <1>4, <1>6
      <4> QED BY <1>9, <4>1, <4>2
    <3> QED BY <1>3, <3>1, <3>2
  <2>3. ASSUME NEW s \in received_sequences' \intersect DOMAIN sent_datagrams'
        PROVE  ThroughAs(sent_datagrams[s])'
    <3>1. s \in 0 .. (n0 - 1) /\ s \in received_sequences
      BY <1>2, <1>3 DEF NumbersInv
    <3>2. s \in DOMAIN sent_datagrams /\ sent_datagrams'[s] = sent_datagrams[s]
      BY <1>8, <3>1
    <3>3. PICK g : g = sent_datagrams[s]
      OBVIOUS
    <3>4. ThroughAs(g)
      BY <3>1, <3>2, <3>3 DEF NumbersInv
    <3>5. ThroughAs(g)'
      BY <1>11, <3>4
    <3> QED BY <3>2, <3>3, <3>5, ThroughNext
  <2>4. 0 .. (send_sequence_number' - 1) = 0 .. (n0 + C - 1)
    <3>1. PICK next : next = send_sequence_number' /\ next = n0 + C
      BY <1>3
    <3>2. next - 1 = n0 + C - 1
      BY <1>4, <1>6, <3>1
    <3> QED BY <3>1, <3>2
  <2> QED BY <2>1, <2>2, <2>3, <2>4 DEF NumbersInv
<1>13. RecordedInv'
  <2> SUFFICES ASSUME NEW n \in DOMAIN messages, IsReliable(messages[n].reliability),
                      NEW i \in 0 .. (messages[n].fragments - 1)
               PROVE  Through(n, i)' \/ Recorded(n, i)'
    BY <1>3 DEF RecordedInv
  <2>1. CASE Through(n, i)
    BY <1>10, <2>1
  <2>2. CASE Recorded(n, i)
    <3>1. PICK s \in DOMAIN sent_datagrams :
             FrameOfMessage(sent_datagrams[s], n) /\ sent_datagrams[s].split_index = i
      BY <2>2 DEF Recorded
    <3>2. PICK g : g = sent_datagrams[s]
      OBVIOUS
    <3>3. FrameOfMessage(g, n)' /\ g.split_index = i
      BY <1>10, <3>1, <3>2
    <3>4. \E k \in DOMAIN sent_datagrams' : g = sent_datagrams'[k]
      BY <1>4, <1>7, <1>8, <1>9, <3>2
    <3> QED BY <3>3, <3>4, RecordedNext
  <2> QED BY <2>1, <2>2 DEF RecordedInv
<1> QED BY <1>12, <1>13

LEMMA AckKeepsArrival ==
    ASSUME IInv, NumbersInv, RecordedInv, Acknowledge
    PROVE  NumbersInv' /\ RecordedInv'
<1>1. /\ UNCHANGED <<messages, send_sequence_number, pending, channels,
                     highest_sequenced, delivered, net>>
      /\ received_sequences' = {}
      /\ \/ sent_datagrams' = ProcessAck(sent_datagrams, BuildAck(received_sequences))
         \/ UNCHANGED sent_datagrams
  BY DEF Acknowledge
<1>2. SequenceNumbers(BuildAck(received_sequences)) = received_sequences
  <2>1. PICK S : S = received_sequences
    OBVIOUS
  <2>2. PICK b : b = send_sequence_number - 1
    OBVIOUS
  <2>3. send_sequence_number \in Nat
    BY DEF IInv, SenderInv
  <2>4. b \in Int /\ S \subseteq 0 .. b
    BY <2>1, <2>2, <2>3 DEF NumbersInv
  <2>5. IsFiniteSet(0 .. b) /\ 0 .. b \subseteq Nat
    BY <2>4, FS_Interval
  <2>6. IsFiniteSet(S) /\ S \subseteq Nat
    BY <2>4, <2>5, FS_Subset
  <2> QED BY <2>1, <2>6, AckNamesWhatWasReceived
<1>3. /\ DOMAIN sent_datagrams' \subseteq DOMAIN sent_datagrams
      /\ \A s \in DOMAIN sent_datagrams' : sent_datagrams'[s] = sent_datagrams[s]
      /\ \A s \in DOMAIN sent_datagrams :
            s \in DOMAIN sent_datagrams' \/ s \in received_sequences
  BY <1>1, <1>2 DEF ProcessAck, Remove, Restrict
<1>4. /\ \A f, n : FrameOfMessage(f, n)' <=> FrameOfMessage(f, n)
      /\ \A n, i : Through(n, i)' <=> Through(n, i)
  BY <1>1, MessagesStay, ThroughAlike
<1>5. NumbersInv'
  BY <1>1, <1>3 DEF NumbersInv
<1>6. RecordedInv'
  <2> SUFFICES ASSUME NEW n \in DOMAIN messages, IsReliable(messages[n].reliability),
                      NEW i \in 0 .. (messages[n].fragments - 1)
               PROVE  Through(n, i)' \/ Recorded(n, i)'
    BY <1>1 DEF RecordedInv
  <2>1. CASE Through(n, i)
    BY <1>4, <2>1
  <2>2. CASE Recorded(n, i)
    <3>1. PICK s \in DOMAIN sent_datagrams :
             FrameOfMessage(sent_datagrams[s], n) /\ sent_datagrams[s].split_index = i
      BY <2>2 DEF Recorded
    <3>2. PICK g : g = sent_datagrams[s]
      OBVIOUS
    <3>3. FrameOfMessage(g, n)' /\ g.split_index = i
      BY <1>4, <3>1, <3>2
    <3>4. CASE s \in DOMAIN sent_datagrams'
      <4>1. g = sent_datagrams'[s]
        BY <1>3, <3>2, <3>4
      <4> QED BY <3>3, <3>4, <4>1, RecordedNext
    <3>5. CASE s \in received_sequences
      <4>1. ThroughAs(g)
        BY <3>1, <3>2, <3>5 DEF NumbersInv
      <4>2. PICK k \in DOMAIN messages : FrameOfMessage(g, k) /\ Through(k, g.split_index)
        BY <4>1 DEF ThroughAs
      <4>3. k = n
        BY <3>1, <3>2, <4>2, FrameTells DEF IInv
      <4> QED BY <1>4, <3>3, <4>2, <4>3
    <3> QED BY <1>3, <3>4, <3>5
  <2> QED BY <2>1, <2>2 DEF RecordedInv
<1> QED BY <1>5, <1>6

(* Receiving, losing, or nothing at all.                                   *)
LEMMA TakeKeepsArrival ==
    ASSUME IInv, NumbersInv, RecordedInv, UNCHANGED sender, net' \subseteq net,
           \A k \in DOMAIN messages : \A i : Through(k, i) => Through(k, i)',
           \A s \in received_sequences' \ received_sequences : \E d \in net :
              s = d.sequence_number /\ ThroughAs(d.frame)'
    PROVE  NumbersInv' /\ RecordedInv'
<1>1. UNCHANGED <<messages, send_sequence_number, sent_datagrams>>
  BY DEF sender
<1>2. \A f, n : FrameOfMessage(f, n)' <=> FrameOfMessage(f, n)
  BY <1>1, MessagesStay
<1>3. \A f : ThroughAs(f) => ThroughAs(f)'
  BY <1>1, <1>2 DEF ThroughAs
<1>4. received_sequences' \subseteq 0 .. (send_sequence_number - 1)
  BY DEF NumbersInv
<1>5. ASSUME NEW s \in received_sequences' \intersect DOMAIN sent_datagrams
      PROVE  ThroughAs(sent_datagrams[s])'
  <2>1. PICK g : g = sent_datagrams[s]
    OBVIOUS
  <2>2. CASE s \in received_sequences
    <3>1. ThroughAs(g)
      BY <2>1, <2>2 DEF NumbersInv
    <3>2. ThroughAs(g)'
      BY <1>3, <3>1
    <3> QED BY <1>1, <2>1, <3>2, ThroughNext
  <2>3. CASE s \notin received_sequences
    <3>1. PICK d \in net : s = d.sequence_number /\ ThroughAs(d.frame)'
      BY <2>3
    <3>2. d.frame = g
      BY <2>1, <3>1 DEF NumbersInv
    <3>3. ThroughAs(g)'
      BY <3>1, <3>2 DEF ThroughAs, FrameOfMessage, Through
    <3> QED BY <1>1, <2>1, <3>3, ThroughNext
  <2> QED BY <2>2, <2>3
<1>6. NumbersInv'
  BY <1>1, <1>4, <1>5 DEF NumbersInv
<1>7. RecordedInv'
  <2> SUFFICES ASSUME NEW n \in DOMAIN messages, IsReliable(messages[n].reliability),
                      NEW i \in 0 .. (messages[n].fragments - 1)
               PROVE  Through(n, i)' \/ Recorded(n, i)'
    BY <1>1 DEF RecordedInv
  <2>1. Through(n, i) \/ Recorded(n, i)
    BY DEF RecordedInv
  <2>2. Recorded(n, i) => Recorded(n, i)'
    <3> SUFFICES ASSUME NEW s \in DOMAIN sent_datagrams, NEW g, g = sent_datagrams[s],
                        FrameOfMessage(g, n), g.split_index = i
                 PROVE  Recorded(n, i)'
      BY DEF Recorded
    <3>1. FrameOfMessage(g, n)' /\ g = sent_datagrams'[s] /\ s \in DOMAIN sent_datagrams'
      BY <1>1, <1>2
    <3> QED BY <3>1, RecordedNext
  <2> QED BY <2>1, <2>2
<1> QED BY <1>6, <1>7

LEMMA NextAInv ==
    ASSUME NoIdAgain, AInv, [Next]_vars
    PROVE  AInv'
<1>1. /\ OInv' /\ IInv /\ SequencedInv /\ OrderedInv
      /\ NumbersInv /\ RecordedInv
  BY NextOInv DEF AInv, OInv
<1>2. CASE SendSome
  <2>1. PICK m \in Message : Send(m)
    BY <1>2 DEF SendSome, Message
  <2> QED BY <1>1, <2>1, SendKeepsArrival DEF AInv
<1>3. CASE \E s \in DOMAIN sent_datagrams : Timeout(s + 1)
  BY <1>1, <1>3, TimeoutKeepsArrival DEF AInv
<1>4. CASE Acknowledge
  BY <1>1, <1>4, AckKeepsArrival DEF AInv
<1>5. CASE \E d \in net : Receive(d) \/ Duplicate(d)
  <2>1. PICK d \in net : Receive(d) \/ Duplicate(d)
    BY <1>5
  <2>2. /\ Take(d) /\ UNCHANGED sender /\ net' \subseteq net
        /\ received_sequences' = received_sequences \union {d.sequence_number}
    BY <2>1 DEF Receive, Duplicate, Take
  <2>3. UNCHANGED messages
    BY <2>2 DEF sender
  <2>4. /\ ThroughAs(d.frame)'
        /\ \A k \in DOMAIN messages : \A i : Through(k, i) => Through(k, i)'
    BY <1>1, <2>2, <2>3, ThroughStays
  <2> QED BY <1>1, <2>2, <2>4, TakeKeepsArrival DEF AInv
<1>6. CASE (\E d \in net : Lose(d)) \/ UNCHANGED vars
  <2>1. /\ UNCHANGED sender /\ net' \subseteq net
        /\ UNCHANGED <<messages, channels, highest_sequenced, delivered, pending,
                       received_sequences>>
    BY <1>6 DEF Lose, vars, sender, receiver
  <2>2. \A k, i : Through(k, i)' <=> Through(k, i)
    BY <2>1, ThroughAlike
  <2> QED BY <1>1, <2>1, <2>2, TakeKeepsArrival DEF AInv
<1> QED BY <1>2, <1>3, <1>4, <1>5, <1>6 DEF Next

LEMMA InitAInv == Init => AInv
<1> SUFFICES ASSUME Init PROVE AInv
  OBVIOUS
<1>1. OInv
  BY InitOInv
<1>2. NumbersInv /\ RecordedInv
  BY DEF Init, NumbersInv, RecordedInv
<1> QED BY <1>1, <1>2 DEF AInv

LEMMA AInvAlways == ASSUME NoIdAgain PROVE Spec => []AInv
<1>1. Init => AInv
  BY InitAInv
<1>2. AInv /\ [Next]_vars => AInv'
  BY NextAInv
<1> QED BY <1>1, <1>2, PTL DEF Spec

(* When nothing waits for an ACK any more, every reliable message has been *)
(* assembled: all its fragments arrived, and those of a message that is    *)
(* not complete are never all of them.                                     *)
LEMMA ArrivedAtEnd ==
    ASSUME AInv, sent_datagrams = EmptyMap,
           NEW n \in DOMAIN messages, IsReliable(messages[n].reliability)
    PROVE  Got(n)
<1> SUFFICES ASSUME ~ Got(n) PROVE FALSE
  OBVIOUS
<1>1. /\ SenderInv /\ AssemblyInv /\ RecordedInv
  BY DEF AInv, OInv, IInv
<1>2. PICK F \in Nat \ {0} : F = messages[n].fragments
  BY <1>1, MessagesFinite
<1>3. \A i \in 0 .. (F - 1) : Through(n, i)
  BY <1>1, <1>2 DEF RecordedInv, Recorded, EmptyMap
<1>4. 0 \in 0 .. (F - 1)
  OBVIOUS
<1>5. /\ n \in SplitOnes /\ SplitIdOf(n) \in DOMAIN pending
      /\ \A i \in 0 .. (F - 1) : i \in DOMAIN pending[SplitIdOf(n)].fragments
  BY <1>3, <1>4 DEF Through
<1>6. PICK k \in SplitOnes :
         /\ SplitIdOf(k) = SplitIdOf(n)
         /\ FragmentsFrom(pending[SplitIdOf(n)].fragments,
                          Body(k, messages[k].fragments), messages[k].fragments)
         /\ DOMAIN pending[SplitIdOf(n)].fragments # 0 .. (messages[k].fragments - 1)
  BY <1>1, <1>5 DEF AssemblyInv, AssemblyOf
<1>7. k = n
  BY <1>1, <1>5, <1>6, SplitIdsDiffer
<1> QED BY <1>2, <1>5, <1>6, <1>7 DEF FragmentsFrom

(***************************************************************************)
(* When nothing is on the way and nothing is waiting for an ACK, a         *)
(* reliable message without order has been handed over, and of a reliable  *)
(* sequenced one that message or a newer one of its channel: what is taken *)
(* out of the recovery queue has arrived, because the number an ACK names  *)
(* never stood for another frame.                                          *)
(***************************************************************************)
THEOREM ReliableArrivesAtEnd ==
    ASSUME NoIdAgain
    PROVE  Spec => []ReliableArrives
<1>1. AInv => ReliableArrives
  <2> SUFFICES ASSUME AInv, Quiet, NEW n \in DOMAIN messages,
                      IsReliable(messages[n].reliability)
               PROVE  /\ messages[n].reliability \in {"Reliable", "ReliableWithAck"}
                            => WasDelivered(n)
                      /\ messages[n].reliability = "ReliableSequenced" =>
                            \E k \in Sequenced(messages[n].channel) :
                               k >= n /\ WasDelivered(k)
    BY DEF ReliableArrives, IsReliable
  <2>1. Got(n)
    BY ArrivedAtEnd DEF Quiet
  <2>2. CASE messages[n].reliability \in {"Reliable", "ReliableWithAck"}
    BY <2>1, <2>2 DEF Got, Sequenced, Ordered, IsOrdered, IsSequenced
  <2>3. CASE messages[n].reliability = "ReliableSequenced"
    <3>1. PICK c \in Channel : c = messages[n].channel
      BY MessageFacts DEF AInv, OInv, IInv
    <3>2. n \in Sequenced(c) /\ SequencingRank(n) < highest_sequenced[c]
      BY <2>1, <2>3, <3>1 DEF Got, Sequenced, Ordered, IsOrdered, IsSequenced
    <3>3. /\ SequencingRank(n) \in Nat /\ highest_sequenced[c] \in Nat
          /\ highest_sequenced[c] # 0 => \E k \in Sequenced(c) :
                SequencingRank(k) = highest_sequenced[c] - 1 /\ WasDelivered(k)
      BY MessageFacts DEF AInv, OInv, IInv, SequencedInv, SequencedOn
    <3>4. PICK k \in Sequenced(c) :
             SequencingRank(k) = highest_sequenced[c] - 1 /\ WasDelivered(k)
      BY <3>2, <3>3
    <3>5. SequencingRank(k) >= SequencingRank(n)
      BY <3>2, <3>3, <3>4
    <3>6. ~ (k < n)
      <4> SUFFICES ASSUME k < n PROVE FALSE
        OBVIOUS
      <4>1. SequencingRank(k) < SequencingRank(n)
        BY <3>2, SequencingRanks DEF AInv, OInv, IInv
      <4> QED BY <3>3, <3>4, <3>5, <4>1
    <3>7. k \in Nat /\ n \in Nat
      BY MessageFacts DEF AInv, OInv, IInv, Sequenced
    <3> QED BY <2>3, <3>1, <3>4, <3>6, <3>7
  <2> QED BY <2>2, <2>3
<1> QED BY <1>1, AInvAlways, PTL

(* The indices of a channel have no hole.                                  *)
LEMMA RanksFill ==
    ASSUME NEW T, T \subseteq Nat, IsFiniteSet(T), NEW s \in T,
           NEW r \in Nat, r <= Rank(s, T)
    PROVE  \E t \in T : Rank(t, T) = r
<1> DEFINE f == [t \in T |-> t]
<1>1. /\ Cardinality(T) \in Nat
      /\ DOMAIN Renumbered(f, T, 0) = 0 .. (0 + Cardinality(T) - 1)
  BY RenumberedDomain
<1>2. Rank(s, T) \in 0 .. (Cardinality(T) - 1)
  BY RankBelow
<1>3. r \in DOMAIN Renumbered(f, T, 0)
  BY <1>1, <1>2
<1>4. PICK t \in T : r = 0 + Rank(t, T)
  BY <1>3 DEF Renumbered
<1>5. Rank(t, T) \in 0 .. (Cardinality(T) - 1)
  BY RankBelow
<1> QED BY <1>1, <1>4, <1>5

(* Of one channel at rest: n was handed over exactly if all before it is   *)
(* ordered.                                                                *)
LEMMA OrderedAtEnd ==
    ASSUME AInv, Quiet, NEW c \in Channel, NEW n \in Ordered(c)
    PROVE  WasDelivered(n) <=> \A k \in Sequenced(c) : k > n
<1>1. SenderInv /\ OrderedOn(c)
  BY DEF AInv, OInv, IInv, OrderedInv
<1>2. PICK e \in Nat : e = channels[c].expected_index
  BY DEF AInv, OInv, IInv, BodiesInv, ChannelState
<1>3. /\ \A k \in Indexed(c) : k \in Nat /\ OrderingRank(k) \in Nat
      /\ n \in Indexed(c)
      /\ \A k \in Indexed(c) : k \in DOMAIN messages /\ messages[k].channel = c
  BY <1>1, KindsApart, MessageFacts
<1>4. ASSUME WasDelivered(n), NEW k \in Sequenced(c) PROVE k > n
  <2>1. k \in Indexed(c) /\ k \in Nat /\ n \in Nat
    BY <1>3, KindsApart
  <2> SUFFICES ASSUME k <= n PROVE FALSE
    BY <2>1
  <2>2. k # n
    BY KindsApart
  <2>3. OrderingRank(k) < OrderingRank(n)
    BY <1>1, <1>3, <2>1, <2>2, OrderingRanks
  <2>4. OrderingRank(n) < e
    BY <1>1, <1>2, <1>4 DEF OrderedOn
  <2>5. OrderingRank(k) \in 0 .. (e - 1)
    BY <1>2, <1>3, <2>1, <2>3, <2>4
  <2>6. PICK j \in Ordered(c) : OrderingRank(j) = OrderingRank(k)
    BY <1>1, <1>2, <2>5 DEF OrderedOn
  <2>7. j \in Indexed(c)
    BY KindsApart
  <2>8. j = k
    BY <1>1, <2>1, <2>6, <2>7, OrderingRanks
  <2> QED BY <2>8, KindsApart
<1>5. ASSUME ~ WasDelivered(n), \A k \in Sequenced(c) : k > n PROVE FALSE
  <2>1. OrderingRank(n) >= e
    <3> SUFFICES ASSUME OrderingRank(n) < e PROVE FALSE
      BY <1>2, <1>3
    <3>1. OrderingRank(n) \in 0 .. (e - 1)
      BY <1>2, <1>3
    <3>2. PICK j \in Ordered(c) : OrderingRank(j) = OrderingRank(n) /\ WasDelivered(j)
      BY <1>1, <1>2, <3>1 DEF OrderedOn
    <3>3. j \in Indexed(c)
      BY KindsApart
    <3>4. j = n
      BY <1>1, <1>3, <3>2, <3>3, OrderingRanks
    <3> QED BY <1>5, <3>2, <3>4
  <2>2. PICK m \in Indexed(c) : OrderingRank(m) = e
    <3>1. PICK T : T = Indexed(c)
      OBVIOUS
    <3>2. T \subseteq Nat /\ IsFiniteSet(T) /\ n \in T
      BY <1>1, <1>3, <3>1, MessagesFinite
    <3>3. \A k \in T : OrderingRank(k) = Rank(k, T)
      BY <1>3, <3>1 DEF OrderingRank
    <3>4. e <= Rank(n, T)
      BY <1>2, <1>3, <2>1, <3>2, <3>3
    <3>5. \E t \in T : Rank(t, T) = e
      BY ONLY <1>2, <3>2, <3>4, RanksFill
    <3> QED BY <3>1, <3>3, <3>5
  <2>3. ~ (n < m)
    <3> SUFFICES ASSUME n < m PROVE FALSE
      OBVIOUS
    <3>1. OrderingRank(n) < OrderingRank(m)
      BY <1>1, <1>3, OrderingRanks
    <3> QED BY <1>2, <1>3, <2>1, <2>2, <3>1
  <2>4. m \in Ordered(c)
    <3> SUFFICES ASSUME m \in Sequenced(c) PROVE FALSE
      BY KindsApart
    <3> QED BY <1>3, <1>5, <2>3
  <2>5. /\ m \in DOMAIN messages /\ messages[m].channel = c
        /\ IsReliable(messages[m].reliability)
    BY <1>3, <2>4 DEF Ordered, IsOrdered, IsSequenced, IsReliable
  <2>6. Got(m)
    BY <2>5, ArrivedAtEnd DEF Quiet
  <2>7. e < e \/ e \in DOMAIN channels[c].buffered
    BY <1>2, <2>2, <2>4, <2>5, <2>6, KindsApart DEF Got, Ordered
  <2>8. e \notin DOMAIN channels[c].buffered
    <3>1. ~ (e > e)
      BY <1>2
    <3> QED BY <1>1, <1>2, <3>1 DEF OrderedOn
  <2> QED BY <1>2, <2>7, <2>8
<1> QED BY <1>4, <1>5

(***************************************************************************)
(* Ordered messages of a channel are handed over in order and once; in the *)
(* end all of them that were sent before the first sequenced message of    *)
(* their channel, and none after it: createFrame gives a sequenced message *)
(* an ordering index too, and processReceivedFrame never counts it.        *)
(***************************************************************************)
THEOREM OrderedStopsAtSequenced ==
    ASSUME NoIdAgain
    PROVE  Spec => []OrderedUntilSequenced
<1>1. AInv => OrderedUntilSequenced
  <2> SUFFICES ASSUME AInv, NEW c \in Channel
               PROVE  /\ InOrder(delivered, Ordered(c))
                      /\ Quiet => \A n \in Ordered(c) :
                            WasDelivered(n) <=> \A k \in Sequenced(c) : k > n
    BY DEF OrderedUntilSequenced
  <2>1. InOrder(delivered, Ordered(c))
    BY DEF AInv, OInv, OrderedInv, OrderedOn
  <2> QED BY <2>1, OrderedAtEnd
<1> QED BY <1>1, AInvAlways, PTL

-----------------------------------------------------------------------------
(***************************************************************************)
(* The arithmetic of Framing under the channel, for every MTU and size     *)
(* that reaches it.                                                        *)
(***************************************************************************)
(* What division by the body size gives: enough fragments, and none of     *)
(* them superfluous.                                                       *)
LEMMA SplitCountBounds ==
    ASSUME NEW mtu \in Mtu, NEW size \in Nat, size > MaxBodySize(mtu)
    PROVE  /\ SplitCount(size, mtu) \in Nat
           /\ (SplitCount(size, mtu) - 1) * MaxBodySize(mtu) < size
           /\ size <= SplitCount(size, mtu) * MaxBodySize(mtu)
<1> DEFINE m == MaxBodySize(mtu)
           n == (size + m - 1) \div m
<1>1. m \in Nat /\ m > 0
  BY DEF Mtu, MAXIMUM_MTU_SIZE, MaxBodySize
<1>2. SplitCount(size, mtu) = n
  BY <1>1 DEF SplitCount
<1> HIDE DEF m
<1>3. /\ n \in Nat
      /\ n * m <= size + m - 1
      /\ size + m - 1 < n * m + m
  BY <1>1, Z3
<1>4. (n - 1) * m = n * m - m
  BY <1>1, <1>3
<1> QED BY <1>1, <1>2, <1>3, <1>4 DEF m

LEMMA SplitCountType ==
    ASSUME NEW mtu \in Mtu, NEW size \in Nat
    PROVE  SplitCount(size, mtu) \in Nat
<1>1. CASE size <= MaxBodySize(mtu)
  BY <1>1 DEF SplitCount
<1>2. CASE size > MaxBodySize(mtu)
  BY <1>2, SplitCountBounds
<1>3. MaxBodySize(mtu) \in Int
  BY DEF MaxBodySize, Mtu, MAXIMUM_MTU_SIZE
<1> QED BY <1>1, <1>2, <1>3

(* The fragments of a split message tile it: each is between 1 byte and    *)
(* the largest body long, starts where the one before ends, and the last   *)
(* one ends with the message.                                              *)
THEOREM FragmentsTileMessage ==
    ASSUME NEW mtu \in Mtu, NEW size \in Nat, size > MaxBodySize(mtu),
           NEW i \in 0 .. (SplitCount(size, mtu) - 1)
    PROVE  /\ ChunkSize(size, mtu, i) \in 1 .. MaxBodySize(mtu)
           /\ Offset(mtu, i) + ChunkSize(size, mtu, i) =
                 IF i = SplitCount(size, mtu) - 1 THEN size ELSE Offset(mtu, i + 1)
           /\ i < SplitCount(size, mtu) - 1 =>
                 ChunkSize(size, mtu, i) = MaxBodySize(mtu)
<1> DEFINE m == MaxBodySize(mtu)
           n == SplitCount(size, mtu)
<1>1. m \in Nat /\ m > 0
  BY DEF Mtu, MAXIMUM_MTU_SIZE, MaxBodySize
<1>2. n \in Nat /\ (n - 1) * m < size /\ size <= n * m
  BY SplitCountBounds
<1>3. Offset(mtu, i) = i * m /\ Offset(mtu, i + 1) = (i + 1) * m
  BY DEF Offset
<1>4. ChunkSize(size, mtu, i) = IF m <= size - i * m THEN m ELSE size - i * m
  BY <1>3 DEF ChunkSize
<1>5. i \in Nat /\ i <= n - 1
  BY <1>2
<1> HIDE DEF m, n
<1>6. (i + 1) * m = i * m + m /\ i * m \in Nat
  BY <1>1, <1>5
<1>7. CASE i = n - 1
  <2>1. i * m < size /\ size <= i * m + m
    BY <1>1, <1>2, <1>6, <1>7
  <2> QED BY <1>1, <1>3, <1>4, <1>6, <1>7, <2>1 DEF m, n
<1>8. CASE i < n - 1
  <2>1. (i + 1) * m <= (n - 1) * m
    BY <1>1, <1>2, <1>5, <1>8, Z3
  <2>2. m <= size - i * m
    BY <1>1, <1>2, <1>5, <1>6, <2>1
  <2> QED BY <1>1, <1>3, <1>4, <1>6, <1>8, <2>2 DEF m, n
<1> QED BY <1>2, <1>5, <1>7, <1>8

(* What holds at 0 and after each step holds at all steps.                 *)
LEMMA StepsInduction ==
    ASSUME NEW N \in Nat, NEW G, 0 \in G, \A k \in 1 .. N : k - 1 \in G => k \in G
    PROVE  \A k \in 0 .. N : k \in G
<1> DEFINE T == {k \in 0 .. N : k \notin G}
<1>1. SUFFICES ASSUME T # {} PROVE FALSE
  OBVIOUS
<1>2. PICK k \in T : \A y \in T : ~ (<<y, k>> \in OpToRel(<, Nat))
  <2>1. T \subseteq Nat
    OBVIOUS
  <2> HIDE DEF T
  <2> QED BY <1>1, <2>1, WFMin, NatLessThanWellFounded
<1>3. k \in 1 .. N /\ k - 1 \in 0 .. N
  OBVIOUS
<1>4. k - 1 \notin T
  <2>1. <<k - 1, k>> \in OpToRel(<, Nat)
    BY <1>3 DEF OpToRel
  <2> QED BY <1>2, <2>1
<1> QED BY <1>3, <1>4

(* What Mtu and the body size leave of a frame.                            *)
LEMMA FrameSizes ==
    ASSUME NEW mtu \in Mtu, NEW size \in Nat, NEW r, NEW i \in 0 .. (SplitCount(size, mtu) - 1)
    PROVE  /\ SplitCount(size, mtu) \in Nat /\ mtu \in Nat
           /\ FrameSize(r, size, mtu, i) \in 3 .. (mtu - 29)
           /\ r = "ReliableOrdered" => FrameSize(r, size, mtu, i) <= mtu - 32
           /\ r = "ReliableOrdered" /\ SplitCount(size, mtu) > 1 =>
                 FrameSize(r, size, mtu, i) >= 20
           /\ r = "ReliableOrdered" /\ i < SplitCount(size, mtu) - 1 =>
                 FrameSize(r, size, mtu, i) = mtu - 32
<1> DEFINE m == MaxBodySize(mtu)
           chunk == ChunkSize(size, mtu, i)
           is_split == SplitCount(size, mtu) > 1
           head == 3 + (IF IsReliable(r) THEN 3 ELSE 0) + (IF IsSequenced(r) THEN 3 ELSE 0)
                     + (IF IsOrdered(r) THEN 4 ELSE 0) + (IF is_split THEN 10 ELSE 0)
<1>1. mtu \in Nat /\ mtu >= 53 /\ m = mtu - 52 /\ m \in Nat
  BY DEF Mtu, MAXIMUM_MTU_SIZE, MaxBodySize
<1>2. /\ SplitCount(size, mtu) \in Nat
      /\ chunk \in 0 .. m
      /\ i < SplitCount(size, mtu) - 1 => chunk = m
  <2>1. CASE size <= m
    <3>1. SplitCount(size, mtu) = 1 /\ i = 0
      BY <2>1 DEF SplitCount
    <3>2. Offset(mtu, i) = 0
      BY <1>1, <3>1 DEF Offset
    <3>3. chunk = IF m <= size - 0 THEN m ELSE size - 0
      BY <3>2 DEF ChunkSize
    <3> HIDE DEF m, chunk
    <3> QED BY <1>1, <2>1, <3>1, <3>3
  <2>2. CASE size > m
    <3>1. chunk \in 1 .. m /\ (i < SplitCount(size, mtu) - 1 => chunk = m)
      BY <2>2, FragmentsTileMessage
    <3>2. SplitCount(size, mtu) \in Nat
      BY <2>2, SplitCountBounds
    <3> HIDE DEF m, chunk
    <3> QED BY <1>1, <3>1, <3>2
  <2> HIDE DEF m
  <2> QED BY <1>1, <2>1, <2>2
<1>3. head \in 3 .. 23
  BY DEF IsReliable, IsSequenced, IsOrdered
<1>4. r = "ReliableOrdered" => head = IF is_split THEN 20 ELSE 10
  BY DEF IsReliable, IsSequenced, IsOrdered
<1>5. FrameSize(r, size, mtu, i) = head + chunk
  BY DEF FrameSize, EncodedSize
<1>6. (i < SplitCount(size, mtu) - 1 => is_split) /\ (SplitCount(size, mtu) > 1 => is_split)
  BY <1>2
<1> HIDE DEF m, chunk, is_split, head
<1> QED BY <1>1, <1>2, <1>3, <1>4, <1>5, <1>6

(* Whatever the reliability of a message and its length, its datagrams     *)
(* leave buildDatagrams with at most mtu - 20 bytes, 20 of the 28 that IP  *)
(* and UDP add: with these a datagram may exceed the MTU, by 8 at most.    *)
(* Several fragments of an unreliable message in a datagram can: with an   *)
(* mtu of 60, those of a message of 17 bytes make one of 39, which is 67   *)
(* with the headers.                                                       *)
THEOREM DatagramKeepsMargin ==
    ASSUME NEW mtu \in Mtu, NEW size \in Nat, NEW r, NEW total, Fills(total, r, size, mtu)
    PROVE  \A i \in 1 .. SplitCount(size, mtu) : total[i] <= mtu - 20
<1>0. SplitCount(size, mtu) \in Nat
  BY SplitCountType
<1> DEFINE N == SplitCount(size, mtu)
           G == {k \in 0 .. N : /\ total[k] \in Nat /\ total[k] >= DatagramHeader
                                /\ k > 0 => total[k] <= mtu - 20}
<1>1. 0 \in G
  BY <1>0 DEF Fills, DatagramHeader
<1>2. ASSUME NEW k \in 1 .. N, k - 1 \in G
      PROVE  k \in G
  <2>1. k - 1 \in 0 .. (N - 1)
    BY <1>0
  <2>2. mtu \in Nat /\ FrameSize(r, size, mtu, k - 1) \in 3 .. (mtu - 29)
    BY <2>1, FrameSizes
  <2>3. total[k] = WithFrame(total[k - 1], FrameSize(r, size, mtu, k - 1), mtu)
    BY DEF Fills
  <2>4. total[k - 1] \in Nat /\ total[k - 1] >= 4
    BY <1>2 DEF DatagramHeader
  <2>5. \A f \in 3 .. (mtu - 29), t \in Nat :
           t >= 4 => WithFrame(t, f, mtu) \in Nat /\ WithFrame(t, f, mtu) >= 4
                     /\ WithFrame(t, f, mtu) <= mtu - 20
    BY <2>2 DEF WithFrame, OpensDatagram, DatagramHeader
  <2>6. total[k] \in Nat /\ total[k] >= 4 /\ total[k] <= mtu - 20
    BY <2>2, <2>3, <2>4, <2>5
  <2> QED BY <2>6 DEF DatagramHeader
<1> HIDE DEF G
<1>3. \A k \in 0 .. N : k \in G
  BY <1>0, <1>1, <1>2, StepsInduction
<1>4. \A k \in 1 .. N : k \in 0 .. N /\ k > 0
  BY <1>0
<1> QED BY <1>3, <1>4 DEF G

(* A reliable-ordered message, of any length, goes out with one frame in   *)
(* each datagram: a fragment but the last leaves no room for the next.     *)
(* This is why a datagram of ReliableChannel carries one frame.            *)
THEOREM OneFramePerDatagram ==
    ASSUME NEW mtu \in Mtu, NEW size \in Nat, NEW total,
           Fills(total, "ReliableOrdered", size, mtu)
    PROVE  \A i \in 1 .. SplitCount(size, mtu) :
              total[i] = DatagramHeader + FrameSize("ReliableOrdered", size, mtu, i - 1)
<1> DEFINE N == SplitCount(size, mtu)
           Alone(k) == DatagramHeader + FrameSize("ReliableOrdered", size, mtu, k - 1)
           G == {k \in 0 .. N : k > 0 => total[k] = Alone(k)}
<1>0. N \in Nat
  BY SplitCountType
<1>1. 0 \in G
  BY <1>0
<1>2. ASSUME NEW k \in 1 .. N, k - 1 \in G
      PROVE  k \in G
  <2>1. /\ k - 1 \in 0 .. (N - 1) /\ k \in 0 .. N
        /\ k > 1 => k - 1 > 0 /\ (k - 1) - 1 \in 0 .. (N - 1) /\ (k - 1) - 1 < N - 1
        /\ ~ (k > 1) => k - 1 = 0
    BY <1>0
  <2>2. mtu \in Nat /\ FrameSize("ReliableOrdered", size, mtu, k - 1) \in 3 .. (mtu - 29)
    BY <2>1, FrameSizes
  <2>3. total[k] = WithFrame(total[k - 1], FrameSize("ReliableOrdered", size, mtu, k - 1), mtu)
    BY DEF Fills
  <2>4. CASE k > 1
    <3>1. FrameSize("ReliableOrdered", size, mtu, (k - 1) - 1) = mtu - 32
      BY <2>1, <2>4, FrameSizes
    <3>2. total[k - 1] = 4 + (mtu - 32)
      BY <1>2, <2>1, <2>4, <3>1 DEF DatagramHeader
    <3>3. \A f \in 20 .. (mtu - 29) : WithFrame(4 + (mtu - 32), f, mtu) = 4 + f
      <4>1. mtu - 32 > 0
        BY DEF Mtu, MAXIMUM_MTU_SIZE
      <4> QED BY <2>2, <4>1 DEF WithFrame, OpensDatagram, DatagramHeader
    <3>4. FrameSize("ReliableOrdered", size, mtu, k - 1) \in 20 .. (mtu - 29)
      <4>1. N > 1
        BY <1>0, <2>4
      <4>2. FrameSize("ReliableOrdered", size, mtu, k - 1) >= 20
        BY <2>1, <4>1, FrameSizes
      <4> QED BY <2>2, <4>2
    <3>5. total[k] = 4 + FrameSize("ReliableOrdered", size, mtu, k - 1)
      BY <2>3, <3>2, <3>3, <3>4
    <3> QED BY <2>1, <3>5 DEF DatagramHeader
  <2>5. CASE ~ (k > 1)
    <3>1. total[k - 1] = 4
      BY <2>1, <2>5 DEF Fills, DatagramHeader
    <3>2. \A f \in Nat : WithFrame(4, f, mtu) = 4 + f
      BY DEF WithFrame, DatagramHeader
    <3>3. total[k] = 4 + FrameSize("ReliableOrdered", size, mtu, k - 1)
      BY <2>2, <2>3, <3>1, <3>2
    <3> QED BY <2>1, <3>3 DEF DatagramHeader
  <2> QED BY <2>4, <2>5
<1> HIDE DEF G
<1>3. \A k \in 0 .. N : k \in G
  BY <1>0, <1>1, <1>2, StepsInduction
<1>4. \A k \in 1 .. N : k \in 0 .. N /\ k > 0
  BY <1>0
<1> QED BY <1>3, <1>4 DEF G

(* No datagram of a reliable-ordered message, with the headers the network *)
(* adds, is larger than the MTU it was cut for.                            *)
THEOREM OrderedDatagramFitsMtu ==
    ASSUME NEW mtu \in Mtu, NEW size \in Nat, NEW total,
           Fills(total, "ReliableOrdered", size, mtu)
    PROVE  \A i \in 1 .. SplitCount(size, mtu) : total[i] + NetworkHeaders <= mtu
<1> SUFFICES ASSUME NEW i \in 1 .. SplitCount(size, mtu)
             PROVE  total[i] + NetworkHeaders <= mtu
  OBVIOUS
<1>1. SplitCount(size, mtu) \in Nat
  BY SplitCountType
<1>2. i - 1 \in 0 .. (SplitCount(size, mtu) - 1)
  BY <1>1
<1>3. /\ mtu \in Nat /\ FrameSize("ReliableOrdered", size, mtu, i - 1) \in 3 .. (mtu - 29)
      /\ FrameSize("ReliableOrdered", size, mtu, i - 1) <= mtu - 32
  BY <1>2, FrameSizes
<1>4. total[i] = DatagramHeader + FrameSize("ReliableOrdered", size, mtu, i - 1)
  BY OneFramePerDatagram
<1> QED BY <1>3, <1>4 DEF DatagramHeader, NetworkHeaders

(* The 16 bits that carry the length of a body, in bits, hold it: the      *)
(* receiver reads as many bytes as were sent.                              *)
THEOREM BodyLengthSurvives ==
    ASSUME NEW mtu \in Mtu, NEW size \in 0 .. MaxBodySize(mtu)
    PROVE  BodyBytes(BodyBits(size)) = size
<1>1. size \in Nat /\ size <= 1548
  BY DEF MaxBodySize, Mtu, MAXIMUM_MTU_SIZE
<1>2. BodyBits(size) = size * 8
  BY <1>1 DEF BodyBits
<1> QED BY <1>1, <1>2 DEF BodyBytes
=============================================================================
