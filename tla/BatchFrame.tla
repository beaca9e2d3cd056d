---------------------------- MODULE BatchFrame -----------------------------
(***************************************************************************)
(* Batch frames (packet_codec.hpp): the payloads of several packets, each  *)
(* behind its length.  A payload is a sequence of tokens, the first one    *)
(* the packet's header; what the others are does not matter here.          *)
(***************************************************************************)
EXTENDS Integers, SequencesExt

UnsignedVarInt(n) == [k |-> "uvarint", v |-> n]

\* PacketHeader::encode and decode: ten bits of id, two bits of each sub-client.
HeaderEncode(id, sender, target) == (id % 1024) + 1024 * sender + 4096 * target
HeaderDecode(val) ==
    [packet_id |-> val % 1024, sender |-> (val \div 1024) % 4, target |-> (val \div 4096) % 4]

Sized(payload) == <<UnsignedVarInt(Len(payload))>> \o payload

\* The loop of encodeBatch, its packets serialized.
BatchOf(payloads) == FlattenSeq([i \in DOMAIN payloads |-> Sized(payloads[i])])

\* What can be wrong where a sub-packet should start.
Broken(frame, pos) ==
    \/ frame[pos].k # "uvarint" \/ frame[pos].v = 0
    \/ frame[pos].v > Len(frame) - pos
    \/ frame[pos + 1].k # "uvarint"

\* What the callback is given: the payload starts after its header.
SubPacket(frame, packetStart, packetLen) ==
    [header  |-> HeaderDecode(frame[packetStart].v),
     payload |-> SubSeq(frame, packetStart + 1, packetStart + packetLen - 1)]

\* Mutant: what has come is taken for the whole frame.
GivesUpQuietly == [subs |-> <<>>, ok |-> TRUE]

\* return false, wherever it gives up.
GivesUp == [subs |-> <<>>, ok |-> FALSE]

\* decodeBatch: the sub-packets its callback is given, and the result; decode[pos]
\* is what it does from the read pointer pos on.
DecodeBatch(frame) ==
    LET decode[pos \in 1 .. Len(frame) + 1] ==
            IF pos > Len(frame) THEN [subs |-> <<>>, ok |-> TRUE]
            ELSE IF Broken(frame, pos) THEN GivesUp
            ELSE LET packetLen == frame[pos].v
                     after == decode[pos + 1 + packetLen]
                 IN  [subs |-> <<SubPacket(frame, pos + 1, packetLen)>> \o after.subs,
                      ok |-> after.ok]
    IN  decode[1]

-----------------------------------------------------------------------------
(* What decodeBatch promises.  Packets are apart in a frame when what came *)
(* of it, its first k tokens, is taken for the packets that came whole,    *)
(* each with its own header and tokens and in their order, and for broken  *)
(* unless it ends between two of them.                                     *)
Described(s) == [header |-> HeaderDecode(s[1].v), payload |-> Tail(s)]

Found(parts, n) == [j \in 1 .. n |-> Described(parts[j])]

\* The tokens of the first n packets in the frame.
Size(parts, n) == Len(BatchOf(SubSeq(parts, 1, n)))

FirstPackets(parts, k, batch) ==
    \E n \in 0 .. Len(parts) :
        /\ Size(parts, n) <= k /\ (n < Len(parts) => k < Size(parts, n + 1))
        /\ batch = [subs |-> Found(parts, n), ok |-> k = Size(parts, n)]
=============================================================================
