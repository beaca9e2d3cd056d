------------------------------ MODULE Framing -------------------------------
(***************************************************************************)
(* The sizes that splitMessage, buildDatagrams and Frame::encode compute   *)
(* with: into how many frames a message is cut for an MTU, how large each  *)
(* is on the wire, and when a frame opens a new datagram.                  *)
(*                                                                         *)
(* A connection's mtu is what the remote proposed, capped from above only; *)
(* at 52 bytes or less the arithmetic underflows, which Mtu leaves out.    *)
(***************************************************************************)
EXTENDS Integers

MAXIMUM_MTU_SIZE == 1600

Mtu == 53 .. MAXIMUM_MTU_SIZE

IsReliable(r) == r \in {"Reliable", "ReliableOrdered", "ReliableSequenced",
                        "ReliableWithAck", "ReliableOrderedWithAck"}

IsSequenced(r) == r \in {"UnreliableSequenced", "ReliableSequenced"}

IsOrdered(r) == IsSequenced(r) \/ r \in {"ReliableOrdered", "ReliableOrderedWithAck"}

EncodedSize(reliability, is_split, size) ==
    3 + (IF IsReliable(reliability) THEN 3 ELSE 0)
      + (IF IsSequenced(reliability) THEN 3 ELSE 0)
      + (IF IsOrdered(reliability) THEN 4 ELSE 0)
      + (IF is_split THEN 10 ELSE 0)
      + size

(* Flags and sequence number; then the headers IP and UDP put before. *)
DatagramHeader == 4
NetworkHeaders == 28

(* The length of a body goes on the wire in bits, in 16 bits. *)
BodyBits(size) == (size * 8) % 65536
BodyBytes(bits) == (bits + 7) \div 8

(* The largest body splitMessage puts in one frame. *)
MaxBodySize(mtu) == mtu - 4 - 28 - 20

SplitCount(size, mtu) ==
    IF size <= MaxBodySize(mtu) THEN 1
    ELSE (size + MaxBodySize(mtu) - 1) \div MaxBodySize(mtu)

(* Fragment i of a message of the given size: where it starts, how long it is. *)
Offset(mtu, i) == i * MaxBodySize(mtu)

ChunkSize(size, mtu, i) ==
    IF MaxBodySize(mtu) <= size - Offset(mtu, i) THEN MaxBodySize(mtu)
    ELSE size - Offset(mtu, i)

(* Does a frame open a new datagram when the current one has total bytes? *)
OpensDatagram(total, frame_size, mtu) == total + frame_size > mtu - 20

(* The bytes of the current datagram once a frame is in; an empty one takes *)
(* any frame.                                                              *)
WithFrame(total, frame_size, mtu) ==
    IF total > DatagramHeader /\ OpensDatagram(total, frame_size, mtu)
      THEN DatagramHeader + frame_size
      ELSE total + frame_size

FrameSize(reliability, size, mtu, i) ==
    EncodedSize(reliability, SplitCount(size, mtu) > 1, ChunkSize(size, mtu, i))

(* buildDatagrams of the frames of a message, as it is always called:      *)
(* total[i] is the size of the datagram that frame i is put in, so far.    *)
Fills(total, reliability, size, mtu) ==
    /\ total[0] = DatagramHeader
    /\ \A i \in 1 .. SplitCount(size, mtu) :
          total[i] = WithFrame(total[i - 1], FrameSize(reliability, size, mtu, i - 1), mtu)
=============================================================================
