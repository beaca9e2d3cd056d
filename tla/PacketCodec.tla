---------------------------- MODULE PacketCodec ----------------------------
(***************************************************************************)
(* Packets and their frames (packet.hpp, packet_codec.hpp).  Lengths and   *)
(* positions count tokens where the code counts bytes.                     *)
(*                                                                         *)
(* A packet is [class, o, sender, target]: its class, its members and the  *)
(* sub-clients of its header.                                              *)
(***************************************************************************)
EXTENDS WireFormat, BatchFrame

CONSTANT Catalogue    \* the classes: a function from names to [id, codec]

Packet(class, o, sender, target) ==
    [class |-> class, o |-> o, sender |-> sender, target |-> target]

Serialize(p) ==
    <<UnsignedVarInt(HeaderEncode(Catalogue[p.class].id, p.sender, p.target))>>
    \o Written(Catalogue[p.class].codec, p.o)

\* deserialize: the header is not compared with the class, bytes left over are
\* ignored.  The result adds to the packet what the stream says at the end.
Deserialize(p, tokens) ==
    LET start == [o |-> p.o, up |-> <<>>, left |-> tokens, ok |-> TRUE, misfit |-> FALSE]
        h == Pull("uvarint", start)
        header == HeaderDecode(h.v)
        s == Take(Catalogue[p.class].codec.read, h.s)
    IN  IF ~h.s.ok THEN [p |-> p, s |-> h.s]
        ELSE [p |-> Packet(p.class, s.o, header.sender, header.target), s |-> s]

EncodeBatch(ps) == BatchOf([i \in DOMAIN ps |-> Serialize(ps[i])])
=============================================================================
