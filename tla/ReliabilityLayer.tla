-------------------------- MODULE ReliabilityLayer --------------------------
(***************************************************************************)
(* The data structures of raknet/reliability.hpp as operators on values:   *)
(* fragment assembly (SplitPacketAssembler), ordered delivery              *)
(* (OrderingSystem), acknowledgements (AckNak), and the sender's table of  *)
(* datagrams awaiting one (ReliabilityLayer).  A std::map is a function, a *)
(* std::optional a set of at most one element.                             *)
(***************************************************************************)
EXTENDS Naturals, Sequences, FiniteSets, Functions

CONSTANTS
    NumberMod,  \* size of a datagram number on the wire: 2^24 in the code
    IndexMod,   \* size of an ordering index on the wire: 2^24 in the code
    SplitMod    \* size of the 16-bit split_id: 2^16 in the code

ASSUME ModuliAssumption ==
    /\ NumberMod \in Nat \ {0}
    /\ IndexMod \in Nat \ {0}
    /\ SplitMod \in Nat \ {0}

NUM_ORDERING_CHANNELS == 32

EmptyMap == [k \in {} |-> {}]

Put(f, k, v) == [x \in DOMAIN f \union {k} |-> IF x = k THEN v ELSE f[x]]

Remove(f, S) == Restrict(f, DOMAIN f \ S)

(***************************************************************************)
(* Frames and datagrams.  A frame carries the body of a whole message, or  *)
(* one fragment of a split message.  reliable_message_index is left out:   *)
(* no receiver reads it.                                                   *)
(***************************************************************************)
PingFrame == [reliability |-> "Unreliable"]

WholeFrame(channel, index, body) ==
    [reliability |-> "ReliableOrdered", ordering_channel |-> channel,
     ordering_index |-> index, is_split |-> FALSE, split_count |-> 0,
     split_id |-> 0, split_index |-> 0, body |-> body]

SplitFrame(channel, index, count, id, i, chunk) ==
    [reliability |-> "ReliableOrdered", ordering_channel |-> channel,
     ordering_index |-> index, is_split |-> TRUE, split_count |-> count,
     split_id |-> id, split_index |-> i, body |-> chunk]

(* The wire keeps 24 bits of the sequence number and of the ordering index. *)
Encode(n, frame) ==
    [sequence_number |-> n % NumberMod,
     frame |-> IF frame.reliability = "ReliableOrdered"
                 THEN [frame EXCEPT !.ordering_index = @ % IndexMod]
                 ELSE frame]

-----------------------------------------------------------------------------
(***************************************************************************)
(* SplitPacketAssembler::addFragment.  The entry is found or created by    *)
(* split_id alone, its total_count and the fragment overwritten; it is     *)
(* complete once it holds as many fragments as the frame announced.        *)
(***************************************************************************)
FragmentsOf(pending, id) ==
    IF id \in DOMAIN pending THEN pending[id].fragments ELSE EmptyMap

(* Mutant: the fragments are stored in the order of their arrival. *)
PendingSplitByArrival(pending, frame) ==
    [total_count |-> frame.split_count,
     fragments |-> Put(FragmentsOf(pending, frame.split_id),
                       Cardinality(DOMAIN FragmentsOf(pending, frame.split_id)),
                       frame.body)]

PendingSplit(pending, frame) ==
    [total_count |-> frame.split_count,
     fragments |-> Put(FragmentsOf(pending, frame.split_id),
                       frame.split_index, frame.body)]

IsComplete(entry) == Cardinality(DOMAIN entry.fragments) = entry.total_count

(* The fragments that are present, in the order of their indices. *)
Assemble(entry) ==
    Restrict(entry.fragments,
             {i \in DOMAIN entry.fragments : i < entry.total_count})

AddFragment(pending, frame) ==
    LET entry == PendingSplit(pending, frame)
    IN  IF ~ frame.is_split
          THEN [pending |-> pending, assembled |-> {frame.body}]
        ELSE IF IsComplete(entry)
          THEN [pending |-> Remove(pending, {frame.split_id}),
                assembled |-> {Assemble(entry)}]
        ELSE [pending |-> Put(pending, frame.split_id, entry),
              assembled |-> {}]

-----------------------------------------------------------------------------
(***************************************************************************)
(* OrderingSystem::processOrdered on the state of one channel.             *)
(***************************************************************************)

(* Mutant: nothing is drained. *)
FirstGapNoDrain(D, e) == e + 1

(* The first index from e on that is not in D: where the drain loop stops. *)
FirstGap(D, e) ==
    CHOOSE n \in {e} \union {k + 1 : k \in D} :
        /\ n \notin D
        /\ n >= e
        /\ \A k \in e .. (n - 1) : k \in D

(* Mutant: frames ahead of their turn are delivered. *)
ProcessOrderedEager(state, index, data) ==
    IF index >= state.expected_index
      THEN [state |-> [state EXCEPT !.expected_index = index + 1],
            ready |-> <<data>>]
      ELSE [state |-> state, ready |-> <<>>]

ProcessOrdered(state, index, data) ==
    LET held == Put(state.buffered, index, data)
        next == FirstGap(DOMAIN held, index)
    IN  IF index = state.expected_index
          THEN [state |-> [expected_index |-> next,
                           buffered |-> Remove(held, index .. (next - 1))],
                ready |-> [i \in 1 .. (next - index) |-> held[index + i - 1]]]
        ELSE IF index > state.expected_index
          THEN [state |-> [state EXCEPT !.buffered = held], ready |-> <<>>]
        ELSE [state |-> state, ready |-> <<>>]

-----------------------------------------------------------------------------
(***************************************************************************)
(* AckNak: an acknowledgement is the set of the maximal ranges, each a     *)
(* pair of its first and last number, of the numbers received.             *)
(***************************************************************************)
BuildAck(sequences) ==
    {r \in sequences \X sequences :
        /\ r[1] <= r[2]
        /\ r[1] .. r[2] \subseteq sequences
        /\ r[1] - 1 \notin sequences
        /\ r[2] + 1 \notin sequences}

SequenceNumbers(ranges) == UNION {r[1] .. r[2] : r \in ranges}

(***************************************************************************)
(* The table of sent datagrams: sequence number |-> frame.  The datagrams  *)
(* chosen for retransmission are renumbered in ascending order from next.  *)
(***************************************************************************)
(* Mutants: an ACK taken to cover everything below it, or only the first   *)
(* number of each of its ranges.                                           *)
ProcessAckCumulative(sent_datagrams, ranges) ==
    Remove(sent_datagrams, UNION {0 .. r[2] : r \in ranges})

ProcessAckRangeStarts(sent_datagrams, ranges) ==
    Remove(sent_datagrams, {r[1] : r \in ranges})

ProcessAck(sent_datagrams, ranges) ==
    Remove(sent_datagrams, SequenceNumbers(ranges))

(* Mutant: counts from one. *)
RankFromOne(s, T) == Cardinality({t \in T : t <= s})

Rank(s, T) == Cardinality({t \in T : t < s})

Renumbered(sent_datagrams, T, next) ==
    [n \in {next + Rank(s, T) : s \in T} |->
        sent_datagrams[CHOOSE s \in T : next + Rank(s, T) = n]]

Merge(f, g) ==
    [x \in DOMAIN f \union DOMAIN g |-> IF x \in DOMAIN g THEN g[x] ELSE f[x]]
=============================================================================
