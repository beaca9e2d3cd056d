--------------------------- MODULE PacketExchange ---------------------------
(***************************************************************************)
(* One side fills packets of a class and sends each between two others in  *)
(* a batch frame; the other side takes the frame apart, picks a class by   *)
(* the id in the header, as the users of the library do, and deserializes  *)
(* into an object that is new or was read into before.  A frame may reach  *)
(* it cut, and the sender may be a program whose body for the class ends   *)
(* earlier.                                                                *)
(***************************************************************************)
EXTENDS PacketCodec

CONSTANTS
    Classes,    \* the classes sent
    Marker,     \* the class of the packets before and after
    Picks,      \* choices for what is sent first
    Repicks,    \* choices for what is sent afterwards
    MaxSends    \* bound on frames sent

VARIABLES
    sent,       \* the packet serialized, and whether some tag of it is null
    parts,      \* the sub-packets, headers and bodies, as they were put in the frame
    frame,      \* the frame on the wire
    damage,     \* what happened to it: "none", "short", "cut"
    target,     \* the packet deserialized into
    got,        \* what the receiver saw: how much came, sub-packets, the stream at the end
    sends       \* frames sent so far

vars == <<sent, parts, frame, damage, target, got, sends>>

Blank(class) == Packet(class, New(Catalogue[class].codec), 0, 0)

Nothing ==
    [came |-> 0, subs |-> <<>>, whole |-> TRUE, ok |-> FALSE, misfit |-> FALSE, left |-> 0]

Filled(class, k) ==
    LET sample == Sample(Catalogue[class].codec, k)
    IN  [p |-> Packet(class, sample.o, k % 4, (k \div 4) % 4), null |-> sample.null]

\* The length of the second body, without the header.
BodyLength == IF parts = <<>> THEN 0 ELSE Len(parts[2]) - 1

Init ==
    /\ \E c \in Classes : sent = [p |-> Blank(c), null |-> FALSE] /\ target = Blank(c)
    /\ parts = <<>>
    /\ frame = <<>>
    /\ damage = "none"
    /\ got = Nothing
    /\ sends = 0

(***************************************************************************)
(* serialize, encodeBatch.                                                 *)
(***************************************************************************)
Send(k) ==
    /\ frame = <<>>
    /\ sends < MaxSends
    /\ k \in IF sends = 0 THEN Picks ELSE Repicks
    /\ sent' = Filled(sent.p.class, k)
    /\ \E ps \in {<<Filled(Marker, 1).p, sent'.p, Filled(Marker, 2).p>>} :
         /\ parts' = [i \in DOMAIN ps |-> Serialize(ps[i])]
         /\ frame' = EncodeBatch(ps)
    /\ damage' = "none"
    /\ got' = Nothing
    /\ sends' = sends + 1
    /\ UNCHANGED target

\* The sender's body for this class is n tokens shorter.
Shorten(n) ==
    /\ frame # <<>> /\ damage = "none" /\ sends = 1
    /\ n \in 1..BodyLength
    /\ parts' = [parts EXCEPT ![2] = SubSeq(@, 1, Len(@) - n)]
    /\ frame' = BatchOf(parts')
    /\ damage' = "short"
    /\ UNCHANGED <<sent, target, got, sends>>

\* Only the first k tokens of the frame arrive.
Cut(k) ==
    /\ frame # <<>> /\ damage = "none" /\ sends = 1
    /\ k \in 1..(Len(frame) - 1)
    /\ frame' = SubSeq(frame, 1, k)
    /\ damage' = "cut"
    /\ UNCHANGED <<sent, parts, target, got, sends>>

(***************************************************************************)
(* decodeBatch, and deserialize of the second sub-packet, if it came, into *)
(* the object at hand or, when the id is that of another class too, into a *)
(* new one of that class.                                                  *)
(***************************************************************************)
Receive ==
    /\ frame # <<>>
    /\ \E batch \in {DecodeBatch(frame)} :
         IF Len(batch.subs) < 2
         THEN /\ got' = [Nothing EXCEPT !.came = Len(frame), !.subs = batch.subs,
                                     !.whole = batch.ok]
              /\ UNCHANGED target
         ELSE LET sub == batch.subs[2]
                  header == HeaderEncode(sub.header.packet_id, sub.header.sender,
                                         sub.header.target)
              IN  \E c \in {d \in Classes : Catalogue[d].id = sub.header.packet_id} :
                  \E r \in {Deserialize(IF c = target.class THEN target ELSE Blank(c),
                                        <<UnsignedVarInt(header)>> \o sub.payload)} :
                      /\ target' = r.p
                      /\ got' = [came |-> Len(frame), subs |-> batch.subs, whole |-> batch.ok,
                                 ok |-> r.s.ok, misfit |-> r.s.misfit, left |-> Len(r.s.left)]
    /\ frame' = <<>>
    /\ UNCHANGED <<sent, parts, damage, sends>>

\* Bound on where a frame is cut: in each packet, and between two of them.
Places ==
    IF parts = <<>> THEN {}
    ELSE {1, Len(frame) \div 3, (2 * Len(frame)) \div 3, Len(frame) - 1}
         \cup {Size(parts, 1), Size(parts, 2)}

Next ==
    \/ \E k \in Picks \cup Repicks : Send(k)
    \/ \E n \in {1, 2, (BodyLength + 1) \div 2, BodyLength} : Shorten(n)
    \/ \E k \in Places : Cut(k)
    \/ Receive

Spec == Init /\ [][Next]_vars

(***************************************************************************)
(* Properties.                                                             *)
(***************************************************************************)
Received == frame = <<>> /\ got.came > 0
ReadAsSent == Received /\ Len(got.subs) >= 2 /\ target.class = sent.p.class

\* AddVolumeEntityPacket::read takes all that is left for its second member.
Unreadable == {"AddVolumeEntity"}

\* A packet sent whole is read into a new object without overflow or leftover
\* bytes, and the object serializes to the same bytes again: write and read of
\* every class agree.  A tag left null is not on the wire although the reader
\* expects one.
ReadBackExactly ==
    ReadAsSent /\ damage = "none" /\ ~sent.null /\ sends = 1
               /\ target.class \notin Unreadable
        => got.ok /\ ~got.misfit /\ got.left = 0 /\ Serialize(target) = Serialize(sent.p)

\* In these classes a read into an object used before leaves a member as it was
\* when what came does not have it: behind a false branch, an absent optional or
\* marker, or an empty remainder.
KeepsOldMembers ==
    {"AddItemActor", "AddPlayer", "Animate", "BookEdit", "BossEvent",
     "ChangeDimension", "ClientboundDataDrivenUICloseScreen",
     "ClientboundDebugRenderer", "CommandBlockUpdate", "CorrectPlayerMovePrediction",
     "CraftingData", "Disconnect", "EducationSettings", "GameRulesChanged",
     "Interact", "InventoryContent", "InventorySlot", "InventoryTransaction",
     "ItemStackRequest", "ItemStackResponse", "LevelChunk", "MapData",
     "MobArmorEquipment", "MobEquipment", "ModalFormResponse", "MoveActorDelta",
     "MovePlayer", "PlayerArmorDamage", "PlayerAuthInput", "PlayerList",
     "PlayerLocation", "PlayerUpdateEntityOverrides", "ServerboundLoadingScreen",
     "SetScore", "SetScoreboardIdentity", "SpawnParticleEffect", "StartGame",
     "StructureBlockUpdate", "SubChunk", "Text"}

\* In these a member so left is written again, as if it were of the packet read.
ShowsOldMembers ==
    {"SpawnParticleEffect", "ServerboundLoadingScreen", "ClientboundDataDrivenUICloseScreen",
     "ChangeDimension", "LevelChunk", "StructureBlockUpdate"}

\* Reading into an object used before, be it by a read that failed half way, is
\* like reading into a new one: nothing of the earlier packet is in the bytes the
\* object serializes to, nor in any of its members, but for those classes.
ReusedExactly ==
    ReadAsSent /\ damage = "none" /\ ~sent.null /\ sends > 1
               /\ target.class \notin Unreadable
        => /\ got.ok /\ ~got.misfit /\ got.left = 0
           /\ target.class \notin ShowsOldMembers => Serialize(target) = Serialize(sent.p)
           /\ target.class \notin KeepsOldMembers =>
                target = Deserialize(Blank(target.class), parts[2]).p

\* The readers of these classes find the end of a member from the end of the body.
ReadsFromTheEnd == {"StructureBlockUpdate", "StructureTemplateDataResponse"}

\* A body that is accepted although it ended early says what the object then says:
\* no member is filled with zeros for bytes that never came.
AcceptedIsWhatCame ==
    ReadAsSent /\ damage = "short" /\ ~sent.null /\ sends = 1
               /\ target.class \notin ReadsFromTheEnd /\ (got.ok \/ got.misfit)
        => Serialize(target) = parts[2]

\* However a frame was cut, also within its first packet, the sub-packets found are
\* the first ones of the batch, each with its own header and bytes, and decodeBatch
\* returns true exactly when it was not cut or cut between two of them.
BatchKeptApart ==
    Received => FirstPackets(parts, got.came, [subs |-> got.subs, ok |-> got.whole])

\* "Returns the unique packet ID" (packet.hpp:22): the class found by the id of a
\* sub-packet is the class that was sent.
UniquePacketId == Received /\ Len(got.subs) >= 2 => target.class = sent.p.class
=============================================================================
