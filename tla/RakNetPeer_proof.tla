------------------------- MODULE RakNetPeer_proof --------------------------
(***************************************************************************)
(* Proofs about RakNetPeer: its types, the order of the handshake, and     *)
(* what the user is told, for all peers, bounds and network behaviours.    *)
(***************************************************************************)
EXTENDS RakNetPeer, ReliabilityLayer_proof

Remote(p) == IF p = Server THEN Client ELSE {Server}

IsFrame(f) ==
    /\ {"reliability", "ordering_index", "body"} \subseteq DOMAIN f
    /\ f.reliability = "ReliableOrdered"
    /\ f.ordering_index \in Nat

IsConnection(conn) ==
    /\ DOMAIN conn = {"state", "send_sequence_number", "send_ordering_index",
                      "sent_datagrams", "received_sequences", "channel", "fresh"}
    /\ conn.state \in {"Connecting", "Connected", "Disconnected"}
    /\ conn.send_sequence_number \in Nat
    /\ conn.send_ordering_index \in Nat
    /\ conn.send_ordering_index <= conn.send_sequence_number
    /\ DOMAIN conn.sent_datagrams \subseteq 0 .. (conn.send_sequence_number - 1)
    /\ \A n \in DOMAIN conn.sent_datagrams : IsFrame(conn.sent_datagrams[n])
    /\ conn.received_sequences \subseteq Nat
    /\ IsFiniteSet(conn.received_sequences)
    /\ ChannelState(conn.channel)
    /\ conn.channel.expected_index \notin DOMAIN conn.channel.buffered
    /\ conn.fresh \in BOOLEAN

Requests == {"OpenConnectionRequest1", "OpenConnectionRequest2"}
Replies == {"OpenConnectionReply1", "OpenConnectionReply2"}

IsDatagram(d) ==
    /\ d.from \in Peer
    /\ d.to \in Remote(d.from)
    /\ \/ /\ DOMAIN d = {"from", "to", "offline"}
          /\ d = Offline(d.from, d.to, d.offline)
          /\ d.offline \in (IF d.to = Server THEN Requests ELSE Replies)
       \/ /\ DOMAIN d = {"from", "to", "datagram"}
          /\ d.datagram.sequence_number \in Nat
          /\ IsFrame(d.datagram.frame)
       \/ DOMAIN d = {"from", "to", "ack"}

(* The types, with those TypeOK leaves out.                                *)
VariablesInv ==
    /\ running \in [Peer -> BOOLEAN]
    /\ connecting \in [Client -> BOOLEAN]
    /\ receiving \in [Peer -> BOOLEAN]
    /\ open \in [Peer -> SUBSET Peer]
    /\ stray \in BOOLEAN
    /\ connects \in [Client -> Nat]
    /\ games \in Nat

ConnectionsInv ==
    /\ DOMAIN connections = Peer
    /\ \A p \in Peer : \A q \in DOMAIN connections[p] :
          /\ q \in Remote(p)
          /\ IsConnection(connections[p][q])
          /\ running[p]

NetInv == \A d \in net : IsDatagram(d)

TypeInv == VariablesInv /\ ConnectionsInv /\ NetInv

-----------------------------------------------------------------------------
(***************************************************************************)
(* What the operators make of a connection.                                *)
(***************************************************************************)
LEMMA EncodedFrame ==
    ASSUME NEW n \in Nat, NEW f, IsFrame(f)
    PROVE  /\ DOMAIN Encode(n, f) = {"sequence_number", "frame"}
           /\ Encode(n, f).sequence_number = n % NumberMod
           /\ Encode(n, f).sequence_number \in Nat
           /\ Encode(n, f).frame.ordering_index = f.ordering_index % IndexMod
           /\ Encode(n, f).frame.body = f.body
           /\ IsFrame(Encode(n, f).frame)
<1>1. /\ n % NumberMod \in Nat
      /\ f.ordering_index % IndexMod \in Nat
  BY ModuliAssumption DEF IsFrame
<1> DEFINE g == [f EXCEPT !.ordering_index = @ % IndexMod]
<1>2. Encode(n, f) = [sequence_number |-> n % NumberMod, frame |-> g]
  BY DEF Encode, IsFrame
<1>3. /\ g.ordering_index = f.ordering_index % IndexMod
      /\ g.body = f.body
      /\ IsFrame(g)
  BY <1>1 DEF IsFrame
<1> HIDE DEF g
<1> QED BY <1>1, <1>2, <1>3

LEMMA DataFields ==
    ASSUME NEW p, NEW q, NEW n \in Nat, NEW f, IsFrame(f)
    PROVE  LET d == Data(p, q, n, f)
           IN  /\ DOMAIN d = {"from", "to", "datagram"}
               /\ d.from = p /\ d.to = q
               /\ d.datagram.sequence_number = n % NumberMod
               /\ d.datagram.sequence_number \in Nat
               /\ d.datagram.frame.ordering_index = f.ordering_index % IndexMod
               /\ d.datagram.frame.body = f.body
               /\ IsFrame(d.datagram.frame)
<1>1. Data(p, q, n, f) = [from |-> p, to |-> q, datagram |-> Encode(n, f)]
  BY DEF Data
<1> QED BY <1>1, EncodedFrame

LEMMA NextFrameFields ==
    ASSUME NEW conn, NEW b, conn.send_ordering_index \in Nat
    PROVE  /\ IsFrame(NextFrame(conn, b))
           /\ NextFrame(conn, b).ordering_index = conn.send_ordering_index
           /\ NextFrame(conn, b).body = b
  BY DEF NextFrame, WholeFrame, IsFrame

LEMMA NewConnectionFields ==
    /\ IsConnection(NewConnection)
    /\ NewConnection.state = "Connecting"
    /\ NewConnection.send_sequence_number = 0
    /\ NewConnection.send_ordering_index = 0
    /\ DOMAIN NewConnection.sent_datagrams = {}
    /\ NewConnection.received_sequences = {}
    /\ NewConnection.channel.expected_index = 0
    /\ DOMAIN NewConnection.channel.buffered = {}
    /\ NewConnection.fresh
<1>1. DOMAIN EmptyMap = {}
  BY DEF EmptyMap
<1>2. IsFiniteSet({})
  BY FS_EmptySet
<1> QED BY <1>1, <1>2 DEF NewConnection, IsConnection, ChannelState

LEMMA SendReliableFields ==
    ASSUME NEW conn, IsConnection(conn), NEW b
    PROVE  LET after == SendReliable(conn, b)
               n == conn.send_sequence_number
           IN  /\ IsConnection(after)
               /\ after.state = conn.state
               /\ after.send_sequence_number = n + 1
               /\ after.send_ordering_index = conn.send_ordering_index + 1
               /\ DOMAIN after.sent_datagrams = DOMAIN conn.sent_datagrams \union {n}
               /\ after.sent_datagrams[n] = NextFrame(conn, b)
               /\ \A k \in DOMAIN conn.sent_datagrams :
                     after.sent_datagrams[k] = conn.sent_datagrams[k]
               /\ after.received_sequences = conn.received_sequences
               /\ after.channel = conn.channel
               /\ after.fresh = conn.fresh
<1> DEFINE after == SendReliable(conn, b)
           n == conn.send_sequence_number
<1>1. /\ DOMAIN after = DOMAIN conn
      /\ after.state = conn.state
      /\ after.send_sequence_number = n + 1
      /\ after.send_ordering_index = conn.send_ordering_index + 1
      /\ after.sent_datagrams = Put(conn.sent_datagrams, n, NextFrame(conn, b))
      /\ after.received_sequences = conn.received_sequences
      /\ after.channel = conn.channel
      /\ after.fresh = conn.fresh
  BY DEF SendReliable, IsConnection
<1>2. n \in Nat /\ n \notin DOMAIN conn.sent_datagrams
  BY DEF IsConnection
<1>3. /\ DOMAIN after.sent_datagrams = DOMAIN conn.sent_datagrams \union {n}
      /\ after.sent_datagrams[n] = NextFrame(conn, b)
      /\ \A k \in DOMAIN conn.sent_datagrams :
            after.sent_datagrams[k] = conn.sent_datagrams[k]
  BY <1>1, <1>2 DEF Put
<1>4. IsFrame(NextFrame(conn, b))
  BY NextFrameFields DEF IsConnection
<1> HIDE DEF after
<1>5. IsConnection(after)
  BY <1>1, <1>2, <1>3, <1>4 DEF IsConnection
<1> QED BY <1>1, <1>3, <1>5 DEF after

LEMMA SentFields ==
    ASSUME NEW p, NEW q, NEW conn, IsConnection(conn), NEW b
    PROVE  LET d == Sent(p, q, conn, b)
           IN  /\ DOMAIN d = {"from", "to", "datagram"}
               /\ d.from = p /\ d.to = q
               /\ d.datagram.sequence_number = conn.send_sequence_number % NumberMod
               /\ d.datagram.sequence_number \in Nat
               /\ d.datagram.frame.ordering_index =
                    conn.send_ordering_index % IndexMod
               /\ d.datagram.frame.body = b
               /\ IsFrame(d.datagram.frame)
<1>1. conn.send_ordering_index \in Nat /\ conn.send_sequence_number \in Nat
  BY DEF IsConnection
<1>2. /\ IsFrame(NextFrame(conn, b))
      /\ NextFrame(conn, b).ordering_index = conn.send_ordering_index
      /\ NextFrame(conn, b).body = b
  BY <1>1, NextFrameFields
<1> QED BY <1>1, <1>2, DataFields DEF Sent

Acked(conn, ranges) == [conn EXCEPT !.sent_datagrams = ProcessAck(@, ranges)]

LEMMA AckedFields ==
    ASSUME NEW conn, IsConnection(conn), NEW ranges
    PROVE  LET after == Acked(conn, ranges)
           IN  /\ IsConnection(after)
               /\ after.state = conn.state
               /\ after.send_sequence_number = conn.send_sequence_number
               /\ after.send_ordering_index = conn.send_ordering_index
               /\ DOMAIN after.sent_datagrams =
                    DOMAIN conn.sent_datagrams \ SequenceNumbers(ranges)
               /\ \A k \in DOMAIN after.sent_datagrams :
                     after.sent_datagrams[k] = conn.sent_datagrams[k]
               /\ after.received_sequences = conn.received_sequences
               /\ after.channel = conn.channel
               /\ after.fresh = conn.fresh
<1> DEFINE table == ProcessAck(conn.sent_datagrams, ranges)
           after == Acked(conn, ranges)
<1>1. /\ DOMAIN after = DOMAIN conn
      /\ after.state = conn.state
      /\ after.send_sequence_number = conn.send_sequence_number
      /\ after.send_ordering_index = conn.send_ordering_index
      /\ after.sent_datagrams = table
      /\ after.received_sequences = conn.received_sequences
      /\ after.channel = conn.channel
      /\ after.fresh = conn.fresh
  BY DEF IsConnection, Acked
<1>2. /\ DOMAIN table = DOMAIN conn.sent_datagrams \ SequenceNumbers(ranges)
      /\ \A k \in DOMAIN table : table[k] = conn.sent_datagrams[k]
  BY DEF ProcessAck, Remove, Restrict
<1> HIDE DEF after, table
<1>3. IsConnection(after)
  BY <1>1, <1>2 DEF IsConnection
<1> QED BY <1>1, <1>2, <1>3 DEF after, table

LEMMA OverdueIsRecorded ==
    ASSUME NEW conn, IsConnection(conn), NEW k \in Nat
    PROVE  /\ Overdue(conn, k) \subseteq DOMAIN conn.sent_datagrams
           /\ Overdue(conn, k) \subseteq Nat
           /\ IsFiniteSet(Overdue(conn, k))
           /\ Cardinality(Overdue(conn, k)) \in Nat
           /\ conn.state # "Connected" => Overdue(conn, k) = {}
<1> DEFINE b == conn.send_sequence_number - 1
<1>1. b \in Int /\ Overdue(conn, k) \subseteq 0 .. b
  BY DEF Overdue, IsConnection
<1>2. IsFiniteSet(0 .. b)
  <2> HIDE DEF b
  <2> QED BY <1>1, FS_Interval
<1>3. IsFiniteSet(Overdue(conn, k))
  BY <1>1, <1>2, FS_Subset
<1>4. Cardinality(Overdue(conn, k)) \in Nat
  BY <1>3, FS_CardinalityType
<1>5. Overdue(conn, k) \subseteq Nat
  BY <1>1
<1> QED BY <1>3, <1>4, <1>5 DEF Overdue

(* What a tick leaves of a connection, its parts as they depend on what is *)
(* overdue.                                                                *)
MaintainedAs(conn, k, after) ==
    LET T == Overdue(conn, k)
        n == conn.send_sequence_number
        resent == Resent(conn, k)
    IN  /\ IsConnection(after)
        /\ after.state = conn.state
        /\ after.send_sequence_number = n + Cardinality(T)
        /\ after.send_ordering_index = conn.send_ordering_index
        /\ DOMAIN resent = n .. (n + Cardinality(T) - 1)
        /\ DOMAIN after.sent_datagrams = (DOMAIN conn.sent_datagrams \ T) \union DOMAIN resent
        /\ \A m \in DOMAIN conn.sent_datagrams \ T :
              after.sent_datagrams[m] = conn.sent_datagrams[m]
        /\ \A m \in DOMAIN resent :
              /\ after.sent_datagrams[m] = resent[m]
              /\ \E s \in T : resent[m] = conn.sent_datagrams[s]
        /\ \A s \in T : \E m \in DOMAIN resent : resent[m] = conn.sent_datagrams[s]
        /\ after.received_sequences =
             IF conn.state = "Connected" THEN {} ELSE conn.received_sequences
        /\ after.channel = conn.channel
        /\ after.fresh = FALSE

LEMMA MaintainedFields ==
    ASSUME NEW conn, IsConnection(conn), NEW k \in Nat
    PROVE  MaintainedAs(conn, k, Maintained(conn, k))
<1> DEFINE after == Maintained(conn, k)
           T == Overdue(conn, k)
           n == conn.send_sequence_number
           resent == Resent(conn, k)
           table == Merge(Remove(conn.sent_datagrams, T), resent)
<1>1. /\ T \subseteq DOMAIN conn.sent_datagrams
      /\ T \subseteq Nat
      /\ IsFiniteSet(T)
      /\ Cardinality(T) \in Nat
      /\ conn.state # "Connected" => T = {}
  BY OverdueIsRecorded
<1>2. n \in Nat
  BY DEF IsConnection
<1>3. resent = Renumbered(conn.sent_datagrams, T, n)
  BY DEF Resent
<1> HIDE DEF T, resent
<1>4. DOMAIN resent = n .. (n + Cardinality(T) - 1)
  BY <1>1, <1>2, <1>3, RenumberedDomain
<1>5. \A m \in DOMAIN resent : \E s \in T : resent[m] = conn.sent_datagrams[s]
  BY <1>1, <1>2, <1>3, RenumberedAddsNone
<1>6. \A s \in T : \E m \in DOMAIN resent : resent[m] = conn.sent_datagrams[s]
  BY <1>1, <1>2, <1>3, RenumberedKeepsAll
<1>7. \A m \in DOMAIN resent : m \notin DOMAIN conn.sent_datagrams
  BY <1>2, <1>4 DEF IsConnection
<1>8. /\ DOMAIN table = (DOMAIN conn.sent_datagrams \ T) \union DOMAIN resent
      /\ \A m \in DOMAIN conn.sent_datagrams \ T : table[m] = conn.sent_datagrams[m]
      /\ \A m \in DOMAIN resent : table[m] = resent[m]
  BY <1>7 DEF Merge, Remove, Restrict
<1>9. /\ DOMAIN after = DOMAIN conn
      /\ after.state = conn.state
      /\ after.send_ordering_index = conn.send_ordering_index
      /\ after.channel = conn.channel
      /\ after.fresh = FALSE
      /\ after.received_sequences =
           IF conn.state = "Connected" THEN {} ELSE conn.received_sequences
  BY DEF Maintained, IsConnection
<1>10. /\ after.send_sequence_number = n + Cardinality(T)
       /\ DOMAIN after.sent_datagrams = DOMAIN table
       /\ \A m \in DOMAIN table : after.sent_datagrams[m] = table[m]
  <2>1. CASE conn.state = "Connected"
    BY <2>1 DEF Maintained, IsConnection, T, resent
  <2>2. CASE conn.state # "Connected"
    <3>1. T = {} /\ Cardinality(T) = 0
      BY <1>1, <2>2, FS_EmptySet
    <3>2. DOMAIN resent = {}
      BY <1>5, <3>1
    <3>3. /\ after.send_sequence_number = n
          /\ after.sent_datagrams = conn.sent_datagrams
      BY <2>2 DEF Maintained, IsConnection
    <3> HIDE DEF after, table
    <3> QED BY <1>2, <1>8, <3>1, <3>2, <3>3
  <2> QED BY <2>1, <2>2
<1> HIDE DEF after, table
<1>11. \A m \in DOMAIN after.sent_datagrams :
          m \in 0 .. (n + Cardinality(T) - 1) /\ IsFrame(after.sent_datagrams[m])
  <2> SUFFICES ASSUME NEW m \in DOMAIN after.sent_datagrams
               PROVE  /\ m \in 0 .. (n + Cardinality(T) - 1)
                      /\ IsFrame(after.sent_datagrams[m])
    OBVIOUS
  <2>1. CASE m \in DOMAIN conn.sent_datagrams \ T
    BY <1>1, <1>2, <1>8, <1>10, <2>1 DEF IsConnection
  <2>2. CASE m \in DOMAIN resent
    <3>1. after.sent_datagrams[m] = resent[m]
      BY <1>8, <1>10, <2>2
    <3>2. PICK s \in T : resent[m] = conn.sent_datagrams[s]
      BY <1>5, <2>2
    <3>3. m \in 0 .. (n + Cardinality(T) - 1)
      BY <1>1, <1>2, <1>4, <2>2
    <3> QED BY <1>1, <3>1, <3>2, <3>3 DEF IsConnection
  <2> QED BY <1>8, <1>10, <2>1, <2>2
<1>12. IsFiniteSet({})
  BY FS_EmptySet
<1>13. IsConnection(after)
  <2>1. /\ after.send_sequence_number \in Nat
        /\ after.send_ordering_index <= after.send_sequence_number
    BY <1>1, <1>2, <1>9, <1>10 DEF IsConnection
  <2>2. /\ after.received_sequences \subseteq Nat
        /\ IsFiniteSet(after.received_sequences)
    BY <1>9, <1>12 DEF IsConnection
  <2>3. /\ DOMAIN after.sent_datagrams \subseteq 0 .. (after.send_sequence_number - 1)
        /\ \A m \in DOMAIN after.sent_datagrams : IsFrame(after.sent_datagrams[m])
    BY <1>1, <1>2, <1>10, <1>11
  <2> QED BY <1>9, <2>1, <2>2, <2>3 DEF IsConnection
<1> QED BY <1>4, <1>5, <1>6, <1>8, <1>9, <1>10, <1>13 DEF after, T, resent, MaintainedAs

LEMMA MaintainedIdly ==
    ASSUME NEW conn, IsConnection(conn), NEW k \in Nat, Overdue(conn, k) = {}
    PROVE  /\ Maintained(conn, k).state = conn.state
           /\ Maintained(conn, k).send_sequence_number = conn.send_sequence_number
           /\ Maintained(conn, k).send_ordering_index = conn.send_ordering_index
           /\ DOMAIN Maintained(conn, k).sent_datagrams = DOMAIN conn.sent_datagrams
           /\ \A m \in DOMAIN conn.sent_datagrams :
                 Maintained(conn, k).sent_datagrams[m] = conn.sent_datagrams[m]
           /\ conn.state # "Connected" =>
                 Maintained(conn, k).received_sequences = conn.received_sequences
           /\ Maintained(conn, k).channel = conn.channel
<1> DEFINE after == Maintained(conn, k)
           T == Overdue(conn, k)
           n == conn.send_sequence_number
           resent == Resent(conn, k)
<1>1. /\ after.state = conn.state
      /\ after.send_sequence_number = n + Cardinality(T)
      /\ after.send_ordering_index = conn.send_ordering_index
      /\ DOMAIN resent = n .. (n + Cardinality(T) - 1)
      /\ DOMAIN after.sent_datagrams = (DOMAIN conn.sent_datagrams \ T) \union DOMAIN resent
      /\ \A m \in DOMAIN conn.sent_datagrams \ T :
            after.sent_datagrams[m] = conn.sent_datagrams[m]
      /\ after.received_sequences =
            IF conn.state = "Connected" THEN {} ELSE conn.received_sequences
      /\ after.channel = conn.channel
  <2>1. MaintainedAs(conn, k, after)
    BY MaintainedFields
  <2> HIDE DEF after
  <2> QED BY <2>1 DEF MaintainedAs
<1>2. T = {}
  OBVIOUS
<1>3. Cardinality(T) = 0
  BY <1>2, FS_EmptySet
<1>4. n \in Nat
  BY DEF IsConnection
<1> HIDE DEF after, T, n, resent
<1>5. DOMAIN resent = {} /\ after.send_sequence_number = n
  BY <1>1, <1>3, <1>4
<1>6. DOMAIN after.sent_datagrams = DOMAIN conn.sent_datagrams
  BY <1>1, <1>2, <1>5
<1>7. \A m \in DOMAIN conn.sent_datagrams : after.sent_datagrams[m] = conn.sent_datagrams[m]
  BY <1>1, <1>2
<1>8. conn.state # "Connected" => after.received_sequences = conn.received_sequences
  BY <1>1
<1> QED BY <1>1, <1>5, <1>6, <1>7, <1>8 DEF after, n

(***************************************************************************)
(* The handlers, one message at a time.                                    *)
(***************************************************************************)
InState(conn, state) == [conn EXCEPT !.state = state]

LEMMA InStateFields ==
    ASSUME NEW conn, IsConnection(conn),
           NEW state \in {"Connecting", "Connected", "Disconnected"}
    PROVE  LET after == InState(conn, state)
           IN  /\ IsConnection(after)
               /\ after.state = state
               /\ after.send_sequence_number = conn.send_sequence_number
               /\ after.send_ordering_index = conn.send_ordering_index
               /\ after.sent_datagrams = conn.sent_datagrams
               /\ after.received_sequences = conn.received_sequences
               /\ after.channel = conn.channel
               /\ after.fresh = conn.fresh
<1> DEFINE after == InState(conn, state)
<1>1. /\ DOMAIN after = DOMAIN conn
      /\ after.state = state
      /\ after.send_sequence_number = conn.send_sequence_number
      /\ after.send_ordering_index = conn.send_ordering_index
      /\ after.sent_datagrams = conn.sent_datagrams
      /\ after.received_sequences = conn.received_sequences
      /\ after.channel = conn.channel
      /\ after.fresh = conn.fresh
  BY DEF InState, IsConnection
<1> HIDE DEF after
<1>2. IsConnection(after)
  BY <1>1 DEF IsConnection
<1> QED BY <1>1, <1>2 DEF after

IsHandling(s) ==
    /\ DOMAIN s = {"conn", "connecting", "open", "stray", "out"}
    /\ IsConnection(s.conn)
    /\ s.connecting \in BOOLEAN
    /\ s.open \in SUBSET Peer
    /\ s.stray \in BOOLEAN
    /\ \A d \in s.out : IsDatagram(d)

Told(q, s, seen) == IF seen THEN s.open \union {q} ELSE s.open
Strayed(q, s) == s.stray \/ q \notin s.open

(* t is what the handlers make of s, told of body. *)
Handled(p, q, s, body, seen, t) ==
    /\ DOMAIN t = DOMAIN s
    /\ \/ /\ body = "DisconnectionNotification"
          /\ t.conn = InState(s.conn, "Disconnected")
          /\ t.connecting = s.connecting /\ t.open = s.open
          /\ t.stray = s.stray /\ t.out = s.out
       \/ /\ body = "GamePacket"
          /\ t.conn = s.conn
          /\ t.connecting = s.connecting /\ t.open = s.open
          /\ t.stray = Strayed(q, s)
          /\ t.out = s.out
       \/ /\ body = "ConnectionRequest" /\ p = Server
          /\ t.conn = SendReliable(s.conn, "ConnectionRequestAccepted")
          /\ t.connecting = s.connecting /\ t.open = s.open
          /\ t.stray = s.stray
          /\ t.out = s.out \union
               {Sent(Server, q, s.conn, "ConnectionRequestAccepted")}
       \/ /\ body = "NewIncomingConnection" /\ p = Server
          /\ t.conn = InState(s.conn, "Connected")
          /\ t.connecting = s.connecting /\ t.open = Told(q, s, seen)
          /\ t.stray = s.stray /\ t.out = s.out
       \/ /\ body = "ConnectionRequestAccepted" /\ p \in Client
          /\ t.conn = InState(SendReliable(s.conn, "NewIncomingConnection"),
                              "Connected")
          /\ t.connecting = FALSE /\ t.open = Told(q, s, seen)
          /\ t.stray = s.stray
          /\ t.out = s.out \union
               {Sent(p, q, s.conn, "NewIncomingConnection")}
       \/ /\ body \notin {"DisconnectionNotification", "GamePacket"}
          /\ ~ (body = "ConnectionRequest" /\ p = Server)
          /\ ~ (body = "NewIncomingConnection" /\ p = Server)
          /\ ~ (body = "ConnectionRequestAccepted" /\ p \in Client)
          /\ t = s

LEMMA HandleMessageCases ==
    ASSUME NEW p \in Peer, NEW q, NEW s, IsHandling(s), NEW body, NEW seen
    PROVE  Handled(p, q, s, body, seen, HandleMessage(p, q, s, body, seen))
<1> DEFINE t == HandleMessage(p, q, s, body, seen)
<1>0. "conn" \in DOMAIN s /\ "connecting" \in DOMAIN s /\ "open" \in DOMAIN s
      /\ "stray" \in DOMAIN s /\ "out" \in DOMAIN s
  BY DEF IsHandling
<1>1. CASE body = "DisconnectionNotification"
  <2>1. t = [s EXCEPT !.conn.state = "Disconnected"]
    BY <1>1 DEF HandleMessage
  <2> HIDE DEF t
  <2>2. /\ DOMAIN t = DOMAIN s
        /\ t.conn = InState(s.conn, "Disconnected")
        /\ t.connecting = s.connecting /\ t.open = s.open
        /\ t.stray = s.stray /\ t.out = s.out
    BY <1>0, <2>1 DEF InState
  <2> QED BY <1>1, <2>2 DEF Handled, t
<1>2. CASE body = "GamePacket"
  <2>1. t = [s EXCEPT !.stray = @ \/ q \notin s.open]
    BY <1>2 DEF HandleMessage
  <2> HIDE DEF t
  <2>2. /\ DOMAIN t = DOMAIN s
        /\ t.conn = s.conn
        /\ t.connecting = s.connecting /\ t.open = s.open
        /\ t.stray = Strayed(q, s) /\ t.out = s.out
    BY <1>0, <2>1 DEF Strayed
  <2> QED BY <1>2, <2>2 DEF Handled, t
<1>3. CASE body = "ConnectionRequest" /\ p = Server
  <2>1. t = [s EXCEPT !.conn = SendReliable(@, "ConnectionRequestAccepted"),
                      !.out = @ \union
                          {Sent(Server, q, s.conn, "ConnectionRequestAccepted")}]
    BY <1>3 DEF HandleMessage, HandleConnectionRequest, Reply
  <2> HIDE DEF t
  <2>2. /\ DOMAIN t = DOMAIN s
        /\ t.conn = SendReliable(s.conn, "ConnectionRequestAccepted")
        /\ t.connecting = s.connecting /\ t.open = s.open
        /\ t.stray = s.stray
        /\ t.out = s.out \union
             {Sent(Server, q, s.conn, "ConnectionRequestAccepted")}
    BY <1>0, <2>1
  <2> QED BY <1>3, <2>2 DEF Handled, t
<1>4. CASE body = "NewIncomingConnection" /\ p = Server
  <2>1. t = [s EXCEPT !.conn.state = "Connected",
                      !.open = IF seen THEN @ \union {q} ELSE @]
    BY <1>4 DEF HandleMessage, Connected
  <2> HIDE DEF t
  <2>2. /\ DOMAIN t = DOMAIN s
        /\ t.conn = InState(s.conn, "Connected")
        /\ t.connecting = s.connecting
        /\ t.open = Told(q, s, seen)
        /\ t.stray = s.stray /\ t.out = s.out
    BY <1>0, <2>1 DEF InState, Told
  <2> QED BY <1>4, <2>2 DEF Handled, t
<1>5. CASE body = "ConnectionRequestAccepted" /\ p \in Client
  <2> DEFINE u == Reply(p, q, s, "NewIncomingConnection")
             v == [u EXCEPT !.connecting = FALSE]
  <2>1. t = [v EXCEPT !.conn.state = "Connected",
                      !.open = IF seen THEN @ \union {q} ELSE @]
    BY <1>5 DEF HandleMessage, HandleAccepted, Connected
  <2>2. /\ DOMAIN v = DOMAIN s
        /\ v.conn = SendReliable(s.conn, "NewIncomingConnection")
        /\ v.connecting = FALSE /\ v.open = s.open /\ v.stray = s.stray
        /\ v.out = s.out \union {Sent(p, q, s.conn, "NewIncomingConnection")}
    BY <1>0 DEF Reply
  <2> HIDE DEF v, t
  <2>3. /\ DOMAIN t = DOMAIN v
        /\ t.conn = InState(v.conn, "Connected")
        /\ t.connecting = v.connecting
        /\ t.open = Told(q, v, seen)
        /\ t.stray = v.stray /\ t.out = v.out
    BY <1>0, <2>1, <2>2 DEF InState, Told
  <2>4. Told(q, v, seen) = Told(q, s, seen)
    BY <2>2 DEF Told
  <2> QED BY <1>5, <2>2, <2>3, <2>4 DEF Handled, t
<1>6. CASE /\ body \notin {"DisconnectionNotification", "GamePacket"}
           /\ ~ (body = "ConnectionRequest" /\ p = Server)
           /\ ~ (body = "NewIncomingConnection" /\ p = Server)
           /\ ~ (body = "ConnectionRequestAccepted" /\ p \in Client)
  BY <1>6 DEF HandleMessage, Handled
<1> QED BY <1>1, <1>2, <1>3, <1>4, <1>5, <1>6 DEF Handled

(***************************************************************************)
(* What holds at the start of a run of steps and is kept by each of them   *)
(* holds at the end: G is the set of the steps after which it holds.       *)
(***************************************************************************)
LEMMA StepsInduction ==
    ASSUME NEW N \in Nat, NEW G, 0 \in G, \A k \in 1 .. N : k - 1 \in G => k \in G
    PROVE  \A k \in 0 .. N : k \in G
<1> DEFINE T == {k \in 0 .. N : k \notin G}
<1>1. SUFFICES ASSUME T # {} PROVE FALSE
  OBVIOUS
<1>2. PICK k \in T : \A y \in T : ~ (<<y, k>> \in OpToRel(<, Nat))
  <2>1. T \subseteq Nat
    OBVIOUS
  <2> HIDE DEF T
  <2> QED BY <1>1, <2>1, WFMin, NatLessThanWellFounded
<1>3. k \in 1 .. N /\ k - 1 \in 0 .. N
  OBVIOUS
<1>4. k - 1 \notin T
  <2>1. <<k - 1, k>> \in OpToRel(<, Nat)
    BY <1>3 DEF OpToRel
  <2> QED BY <1>2, <2>1
<1> QED BY <1>3, <1>4

(* The messages are handled one after the other.                           *)
LEMMA HandleMessagesRun ==
    ASSUME NEW p, NEW q, NEW s, NEW seen, NEW bodies, Len(bodies) \in Nat
    PROVE  \E run : /\ run[0] = s
                    /\ \A k \in 1 .. Len(bodies) :
                          run[k] = HandleMessage(p, q, run[k - 1], bodies[k], seen)
                    /\ HandleMessages(p, q, s, bodies, seen) = run[Len(bodies)]
<1> DEFINE N == Len(bodies)
           IsRun(h, n) == h = [k \in 0 .. n |-> IF k = 0 THEN s ELSE
                                 HandleMessage(p, q, h[k - 1], bodies[k], seen)]
           G == {n \in 0 .. N : \E h : IsRun(h, n)}
<1>1. 0 \in G
  <2> DEFINE h == [k \in 0 .. 0 |-> s]
  <2>1. h = [k \in 0 .. 0 |-> IF k = 0 THEN s ELSE
                                 HandleMessage(p, q, h[k - 1], bodies[k], seen)]
    OBVIOUS
  <2>2. IsRun(h, 0)
    BY <2>1
  <2> HIDE DEF h, IsRun
  <2> QED BY <2>2
<1>2. ASSUME NEW n \in 1 .. N, n - 1 \in G
      PROVE  n \in G
  <2>1. PICK h : IsRun(h, n - 1)
    BY <1>2
  <2> DEFINE g == [k \in 0 .. n |-> IF k = n
                     THEN HandleMessage(p, q, h[n - 1], bodies[n], seen) ELSE h[k]]
  <2>2. ASSUME NEW k \in 0 .. n
        PROVE  g[k] = IF k = 0 THEN s
                      ELSE HandleMessage(p, q, g[k - 1], bodies[k], seen)
    <3>1. CASE k = n
      <4>1. g[k] = HandleMessage(p, q, h[n - 1], bodies[n], seen)
        BY <3>1
      <4>2. g[n - 1] = h[n - 1]
        OBVIOUS
      <4> QED BY <3>1, <4>1, <4>2
    <3>2. CASE k = 0
      <4>1. h[0] = s
        BY <2>1
      <4> QED BY <3>2, <4>1
    <3>3. CASE k \in 1 .. (n - 1)
      <4>1. h[k] = HandleMessage(p, q, h[k - 1], bodies[k], seen)
        BY <2>1, <3>3
      <4>2. g[k] = h[k] /\ g[k - 1] = h[k - 1] /\ k # 0
        BY <3>3
      <4> QED BY <4>1, <4>2
    <3> QED BY <3>1, <3>2, <3>3
  <2> DEFINE F == [k \in 0 .. n |-> IF k = 0 THEN s ELSE
                     HandleMessage(p, q, g[k - 1], bodies[k], seen)]
  <2>3. DOMAIN g = 0 .. n /\ g = [k \in 0 .. n |-> g[k]]
    OBVIOUS
  <2> HIDE DEF g
  <2>4. g = F
    BY <2>2, <2>3
  <2>5. IsRun(g, n)
    BY <2>4
  <2> HIDE DEF IsRun
  <2> QED BY <2>5
<1>3. N \in G
  <2>1. \A k \in 0 .. N : k \in G
    <3> HIDE DEF G
    <3> QED BY <1>1, <1>2, StepsInduction
  <2> QED BY <2>1
<1> DEFINE run == CHOOSE h : IsRun(h, N)
<1>4. IsRun(run, N)
  BY <1>3
<1>5. HandleMessages(p, q, s, bodies, seen) = run[N]
  BY DEF HandleMessages
<1> HIDE DEF run
<1>6. run[0] = s
  BY <1>4
<1>7. \A k \in 1 .. N : run[k] = HandleMessage(p, q, run[k - 1], bodies[k], seen)
  BY <1>4
<1> QED BY <1>5, <1>6, <1>7

LEMMA HandleMessageType ==
    ASSUME NEW p \in Peer, NEW q \in Remote(p), ServerAssumption,
           NEW s, IsHandling(s), NEW body, NEW seen \in BOOLEAN
    PROVE  IsHandling(HandleMessage(p, q, s, body, seen))
<1> DEFINE t == HandleMessage(p, q, s, body, seen)
<1>1. q \in Peer /\ s.open \union {q} \in SUBSET Peer
  BY DEF Remote, Peer, IsHandling
<1>2. \A b : IsConnection(SendReliable(s.conn, b)) /\ IsDatagram(Sent(p, q, s.conn, b))
  BY <1>1, SendReliableFields, SentFields DEF IsHandling, IsDatagram
<1>3. /\ IsConnection(InState(s.conn, "Disconnected"))
      /\ IsConnection(InState(s.conn, "Connected"))
      /\ \A b : IsConnection(InState(SendReliable(s.conn, b), "Connected"))
  BY <1>2, InStateFields DEF IsHandling
<1> DEFINE sent == s.out \union {Sent(p, q, s.conn, b) :
                       b \in {"ConnectionRequestAccepted", "NewIncomingConnection"}}
<1>0. Handled(p, q, s, body, seen, t) /\ t = HandleMessage(p, q, s, body, seen)
  BY HandleMessageCases
<1> HIDE DEF t
<1>4. /\ DOMAIN t = DOMAIN s
      /\ IsConnection(t.conn)
      /\ t.connecting = s.connecting \/ t.connecting = FALSE
      /\ t.open = s.open \/ t.open = Told(q, s, seen)
      /\ t.out = s.out \/ t.out \subseteq sent
  <2>1. IsConnection(t.conn)
    BY <1>0, <1>2, <1>3 DEF Handled, IsHandling
  <2> QED BY <1>0, <2>1 DEF Handled
<1>5. t.stray = s.stray \/ t.stray = Strayed(q, s)
  BY <1>0 DEF Handled
<1>6. t.stray \in BOOLEAN /\ t.connecting \in BOOLEAN /\ t.open \in SUBSET Peer
  BY <1>1, <1>4, <1>5 DEF IsHandling, Told, Strayed
<1>7. \A d \in t.out : IsDatagram(d)
  BY <1>2, <1>4 DEF IsHandling
<1> QED BY <1>0, <1>4, <1>6, <1>7 DEF IsHandling

(***************************************************************************)
(* Receiving data: what it makes due, the connection that took it in, and  *)
(* the run of the handlers.                                                *)
(***************************************************************************)
Conn(d) == connections[d.to][d.from]

Due(d) ==
    ProcessOrdered(Conn(d).channel, d.datagram.frame.ordering_index,
                   d.datagram.frame.body)

TakenIn(d) ==
    [conn |-> [Conn(d) EXCEPT
                 !.channel = Due(d).state,
                 !.received_sequences = @ \union {d.datagram.sequence_number}],
     connecting |-> d.to \in Client /\ connecting[d.to],
     open |-> open[d.to], stray |-> stray, out |-> {}]

IsRun(d, seen, run) ==
    /\ seen \in {TRUE, Conn(d).fresh \/ ~ EventsMove}
    /\ Len(Due(d).ready) \in Nat
    /\ run[0] = TakenIn(d)
    /\ \A k \in 0 .. Len(Due(d).ready) : IsHandling(run[k])
    /\ \A k \in 1 .. Len(Due(d).ready) :
          Handled(d.to, d.from, run[k - 1], Due(d).ready[k], seen, run[k])

Becomes(d, rest, s) ==
    /\ net' = rest \union s.out
    /\ connections' = [connections EXCEPT ![d.to][d.from] = s.conn]
    /\ connecting' = [c \in Client |-> IF c = d.to THEN s.connecting
                                       ELSE connecting[c]]
    /\ open' = [open EXCEPT ![d.to] = s.open]
    /\ stray' = s.stray

(* processOrdered hands up the run of what it holds from the index it      *)
(* waits for on, and forgets nothing it holds.                             *)
LEMMA ProcessOrderedRun ==
    ASSUME NEW state, ChannelState(state),
           state.expected_index \notin DOMAIN state.buffered,
           NEW index \in Nat, NEW data
    PROVE  LET o == ProcessOrdered(state, index, data)
               held == Put(state.buffered, index, data)
               e == state.expected_index
               n == o.state.expected_index
           IN  /\ ChannelState(o.state)
               /\ n >= e
               /\ n \notin DOMAIN o.state.buffered
               /\ Len(o.ready) = n - e
               /\ \A k \in 1 .. (n - e) :
                     e + k - 1 \in DOMAIN held /\ o.ready[k] = held[e + k - 1]
               /\ \A k \in DOMAIN o.state.buffered :
                     \/ k \in DOMAIN held /\ o.state.buffered[k] = held[k]
                     \/ /\ k \in DOMAIN state.buffered
                        /\ o.state.buffered[k] = state.buffered[k]
               /\ \A k \in DOMAIN held : k < n \/ k \in DOMAIN o.state.buffered
<1> DEFINE o == ProcessOrdered(state, index, data)
           held == Put(state.buffered, index, data)
           e == state.expected_index
           gap == FirstGap(DOMAIN held, index)
<1>1. DOMAIN held = DOMAIN state.buffered \union {index}
  BY DEF Put
<1>2. DOMAIN held \subseteq Nat /\ IsFiniteSet(DOMAIN held) /\ e \in Nat
  BY <1>1, FS_AddElement DEF ChannelState
<1>3. ChannelState(o.state)
  BY ProcessOrderedType
<1>4. \A k \in DOMAIN state.buffered : k # index => held[k] = state.buffered[k]
  BY DEF Put
<1> HIDE DEF held
<1>5. /\ gap \in Nat /\ gap >= index /\ gap \notin DOMAIN held
      /\ \A k \in index .. (gap - 1) : k \in DOMAIN held
  BY <1>2, FirstGapIsGap
<1> HIDE DEF gap
<1>6. CASE index = e
  <2> DEFINE rest == Remove(held, index .. (gap - 1))
  <2>1. /\ o.state.expected_index = gap
        /\ o.state.buffered = rest
        /\ o.ready = [i \in 1 .. (gap - index) |-> held[index + i - 1]]
    BY <1>6 DEF ProcessOrdered, held, gap
  <2> HIDE DEF o
  <2>2. /\ DOMAIN rest = DOMAIN held \ (index .. (gap - 1))
        /\ \A k \in DOMAIN rest : rest[k] = held[k]
    BY DEF Remove, Restrict
  <2> HIDE DEF rest
  <2>3. gap - e \in Nat
    BY <1>2, <1>5, <1>6
  <2>4. Len(o.ready) = gap - e
    BY <1>6, <2>1, <2>3
  <2>5. ASSUME NEW k \in 1 .. (gap - e)
        PROVE  e + k - 1 \in DOMAIN held /\ o.ready[k] = held[e + k - 1]
    <3>1. e + k - 1 \in index .. (gap - 1)
      BY <1>2, <1>5, <1>6
    <3> QED BY <1>5, <1>6, <2>1, <3>1
  <2>6. ASSUME NEW k \in DOMAIN held PROVE k < gap \/ k \in DOMAIN rest
    BY <1>2, <1>5, <2>2, <2>6
  <2> DEFINE n == o.state.expected_index
  <2>7. n = gap /\ n \in Nat /\ n >= e
    BY <1>2, <1>5, <1>6, <2>1
  <2>8. /\ Len(o.ready) = n - e
        /\ \A k \in 1 .. (n - e) :
              e + k - 1 \in DOMAIN held /\ o.ready[k] = held[e + k - 1]
        /\ \A k \in DOMAIN held : k < n \/ k \in DOMAIN o.state.buffered
    <3> HIDE DEF n
    <3> QED BY <1>2, <2>1, <2>4, <2>5, <2>6, <2>7
  <2>9. /\ n \notin DOMAIN o.state.buffered
        /\ \A k \in DOMAIN o.state.buffered :
              k \in DOMAIN held /\ o.state.buffered[k] = held[k]
    BY <1>5, <2>1, <2>2, <2>7
  <2> QED BY <1>3, <2>7, <2>8, <2>9 DEF o, held
<1>7. CASE index # e
  <2>1. /\ o.state.expected_index = e
        /\ o.ready = <<>>
        /\ index > e => o.state.buffered = held
        /\ ~ (index > e) => o.state.buffered = state.buffered
    BY <1>7 DEF ProcessOrdered, held, ChannelState
  <2> HIDE DEF o
  <2>2. Len(o.ready) = e - e /\ \A k \in 1 .. (e - e) : FALSE
    BY <1>2, <2>1
  <2>3. e \notin DOMAIN held
    BY <1>1, <1>7
  <2>4. \A k \in DOMAIN o.state.buffered :
           \/ k \in DOMAIN held /\ o.state.buffered[k] = held[k]
           \/ /\ k \in DOMAIN state.buffered
              /\ o.state.buffered[k] = state.buffered[k]
    BY <1>2, <2>1
  <2>5. \A k \in DOMAIN held : k < e \/ k \in DOMAIN o.state.buffered
    BY <1>1, <1>2, <1>7, <2>1
  <2>6. e \notin DOMAIN o.state.buffered
    BY <2>1, <2>3
  <2>7. /\ o.state.expected_index >= e
        /\ o.state.expected_index \notin DOMAIN o.state.buffered
        /\ Len(o.ready) = o.state.expected_index - e
        /\ \A k \in 1 .. (o.state.expected_index - e) :
              e + k - 1 \in DOMAIN held /\ o.ready[k] = held[e + k - 1]
        /\ \A k \in DOMAIN held :
              k < o.state.expected_index \/ k \in DOMAIN o.state.buffered
    BY <1>2, <2>1, <2>2, <2>5, <2>6
  <2> QED BY <1>3, <2>4, <2>7 DEF o, held
<1> QED BY <1>6, <1>7

LEMMA TakenInIsHandling ==
    ASSUME TypeInv, NEW d \in net, "datagram" \in DOMAIN d,
           d.from \in DOMAIN connections[d.to]
    PROVE  /\ IsHandling(TakenIn(d))
           /\ Len(Due(d).ready) \in Nat
           /\ d.to \in Peer /\ d.from \in Remote(d.to)
           /\ TakenIn(d).conn.channel = Due(d).state
           /\ TakenIn(d).conn.received_sequences =
                Conn(d).received_sequences \union {d.datagram.sequence_number}
           /\ TakenIn(d).conn.state = Conn(d).state
           /\ TakenIn(d).conn.send_sequence_number = Conn(d).send_sequence_number
           /\ TakenIn(d).conn.send_ordering_index = Conn(d).send_ordering_index
           /\ TakenIn(d).conn.sent_datagrams = Conn(d).sent_datagrams
           /\ TakenIn(d).conn.fresh = Conn(d).fresh
<1> DEFINE c == Conn(d)
           o == Due(d)
           n == d.datagram.sequence_number
           taken == TakenIn(d).conn
<1>1. /\ d.from \in Peer /\ d.to \in Peer
      /\ n \in Nat /\ IsFrame(d.datagram.frame)
  BY DEF TypeInv, NetInv, IsDatagram, Remote, Peer
<1>2. d.from \in Remote(d.to) /\ IsConnection(c)
  BY <1>1 DEF TypeInv, ConnectionsInv, Conn
<1>3. /\ ChannelState(o.state)
      /\ o.state.expected_index \notin DOMAIN o.state.buffered
      /\ Len(o.ready) \in Nat
  <2>1. /\ ChannelState(c.channel)
        /\ c.channel.expected_index \in Nat
        /\ c.channel.expected_index \notin DOMAIN c.channel.buffered
        /\ d.datagram.frame.ordering_index \in Nat
    BY <1>1, <1>2 DEF IsConnection, IsFrame, ChannelState
  <2>2. /\ ChannelState(o.state)
        /\ o.state.expected_index >= c.channel.expected_index
        /\ o.state.expected_index \notin DOMAIN o.state.buffered
        /\ Len(o.ready) = o.state.expected_index - c.channel.expected_index
    BY <2>1, ProcessOrderedRun DEF Due
  <2>3. o.state.expected_index \in Nat
    BY <2>2 DEF ChannelState
  <2> HIDE DEF o
  <2> QED BY <2>1, <2>2, <2>3
<1>4. /\ DOMAIN taken = DOMAIN c
      /\ taken.channel = o.state
      /\ taken.received_sequences = c.received_sequences \union {n}
      /\ taken.state = c.state
      /\ taken.send_sequence_number = c.send_sequence_number
      /\ taken.send_ordering_index = c.send_ordering_index
      /\ taken.sent_datagrams = c.sent_datagrams
      /\ taken.fresh = c.fresh
  BY <1>2 DEF TakenIn, IsConnection
<1>5. c.received_sequences \union {n} \subseteq Nat
      /\ IsFiniteSet(c.received_sequences \union {n})
  BY <1>1, <1>2, FS_AddElement DEF IsConnection
<1> HIDE DEF taken, c, o, n
<1>6. IsConnection(taken)
  BY <1>2, <1>3, <1>4, <1>5 DEF IsConnection
<1>7. IsHandling(TakenIn(d))
  <2>1. /\ DOMAIN TakenIn(d) = {"conn", "connecting", "open", "stray", "out"}
        /\ TakenIn(d).connecting \in BOOLEAN
        /\ TakenIn(d).open = open[d.to] /\ TakenIn(d).stray = stray
        /\ TakenIn(d).out = {}
    BY DEF TakenIn
  <2>2. open[d.to] \in SUBSET Peer /\ stray \in BOOLEAN
    BY <1>1 DEF TypeInv, VariablesInv
  <2> QED BY <1>6, <2>1, <2>2 DEF IsHandling, taken
<1> QED BY <1>1, <1>2, <1>3, <1>4, <1>7 DEF taken, c, o, n

LEMMA ReceiveDataRun ==
    ASSUME TypeInv, NEW d \in net, NEW rest, ReceiveData(d, rest)
    PROVE  \E seen, run : /\ IsRun(d, seen, run)
                          /\ Becomes(d, rest, run[Len(Due(d).ready)])
<1> DEFINE p == d.to
           q == d.from
           bodies == Due(d).ready
<1>1. "datagram" \in DOMAIN d /\ d.from \in DOMAIN connections[d.to]
  BY DEF ReceiveData
<1>2. /\ IsHandling(TakenIn(d)) /\ Len(bodies) \in Nat
      /\ p \in Peer /\ q \in Remote(p)
  BY <1>1, TakenInIsHandling
<1>3. PICK seen \in {TRUE, Conn(d).fresh \/ ~ EventsMove} :
         Becomes(d, rest, HandleMessages(p, q, TakenIn(d), bodies, seen))
  BY DEF ReceiveData, Becomes, TakenIn, Due, Conn
<1>4. PICK run : /\ run[0] = TakenIn(d)
                 /\ \A k \in 1 .. Len(bodies) :
                       run[k] = HandleMessage(p, q, run[k - 1], bodies[k], seen)
                 /\ HandleMessages(p, q, TakenIn(d), bodies, seen) = run[Len(bodies)]
  BY <1>2, HandleMessagesRun
<1> HIDE DEF bodies, p, q
<1>5. \A k \in 0 .. Len(bodies) : IsHandling(run[k])
  <2> DEFINE G == {k \in 0 .. Len(bodies) : IsHandling(run[k])}
  <2>1. 0 \in G
    BY <1>2, <1>4
  <2>2. ASSUME NEW k \in 1 .. Len(bodies), k - 1 \in G PROVE k \in G
    <3>1. IsHandling(run[k - 1]) /\ k \in 0 .. Len(bodies)
      BY <1>2, <2>2
    <3>2. IsHandling(HandleMessage(p, q, run[k - 1], bodies[k], seen))
      BY <1>2, <3>1, HandleMessageType, ServerAssumption
    <3> QED BY <1>4, <3>1, <3>2
  <2>3. \A k \in 0 .. Len(bodies) : k \in G
    <3> HIDE DEF G
    <3> QED BY <1>2, <2>1, <2>2, StepsInduction
  <2> QED BY <2>3
<1>6. ASSUME NEW k \in 1 .. Len(bodies)
      PROVE  Handled(p, q, run[k - 1], bodies[k], seen, run[k])
  <2>1. IsHandling(run[k - 1])
    BY <1>2, <1>5
  <2> QED BY <1>2, <1>4, <2>1, HandleMessageCases
<1> QED BY <1>2, <1>3, <1>4, <1>5, <1>6 DEF IsRun, bodies, p, q

-----------------------------------------------------------------------------
(***************************************************************************)
(* Types: one lemma per action.                                            *)
(***************************************************************************)
LEMMA PeersApart ==
    /\ Server \in Peer /\ Client \subseteq Peer
    /\ \A c \in Client : c # Server
    /\ \A p \in Peer : p # Server => p \in Client
    /\ \A p \in Peer : Remote(p) \subseteq Peer
    /\ \A c \in Client : Remote(c) = {Server}
    /\ Remote(Server) = Client
    /\ \A p \in Peer : \A q \in Remote(p) : p \in Remote(q) /\ q # p
<1>1. /\ Server \in Peer /\ Client \subseteq Peer
      /\ \A c \in Client : c # Server
      /\ \A p \in Peer : p # Server => p \in Client
  BY ServerAssumption DEF Peer
<1>2. /\ \A c \in Client : Remote(c) = {Server}
      /\ Remote(Server) = Client
  BY <1>1 DEF Remote
<1>3. \A p \in Peer : Remote(p) \subseteq Peer
  BY <1>1, <1>2
<1>4. ASSUME NEW p \in Peer, NEW q \in Remote(p) PROVE p \in Remote(q) /\ q # p
  <2>1. CASE p = Server
    BY <1>1, <1>2, <1>4, <2>1
  <2>2. CASE p \in Client
    BY <1>1, <1>2, <1>4, <2>2
  <2> QED BY <1>1, <2>1, <2>2
<1> QED BY <1>1, <1>2, <1>3, <1>4

LEMMA InitType == Init => TypeInv
<1> SUFFICES ASSUME Init PROVE TypeInv
  OBVIOUS
<1>1. VariablesInv
  BY DEF Init, VariablesInv
<1>2. ConnectionsInv /\ NetInv
  BY DEF Init, ConnectionsInv, NetInv, EmptyMap
<1> QED BY <1>1, <1>2 DEF TypeInv

LEMMA OfflineType ==
    ASSUME NEW c \in Client
    PROVE  /\ \A id \in Requests : IsDatagram(Offline(c, Server, id))
           /\ \A id \in Replies : IsDatagram(Offline(Server, c, id))
  BY PeersApart DEF IsDatagram, Offline

LEMMA SentType ==
    ASSUME NEW p \in Peer, NEW q \in Remote(p), NEW conn, IsConnection(conn), NEW b
    PROVE  IsDatagram(Sent(p, q, conn, b))
  BY SentFields DEF IsDatagram

LEMMA ConnectType ==
    ASSUME TypeInv, NEW c \in Client, Connect(c)
    PROVE  TypeInv'
<1>1. NetInv'
  <2>1. IsDatagram(Offline(c, Server, "OpenConnectionRequest1"))
    BY OfflineType DEF Requests
  <2> QED BY <2>1 DEF Connect, TypeInv, NetInv
<1>2. VariablesInv'
  BY DEF Connect, TypeInv, VariablesInv
<1>3. ConnectionsInv'
  BY DEF Connect, TypeInv, ConnectionsInv
<1> QED BY <1>1, <1>2, <1>3 DEF TypeInv

LEMMA SendGamePacketType ==
    ASSUME TypeInv, NEW p \in Peer, NEW Q, SendGamePacket(p, Q)
    PROVE  TypeInv'
<1>1. /\ connections' = [connections EXCEPT ![p] =
             [q \in DOMAIN @ |-> IF q \in Q THEN SendReliable(@[q], "GamePacket")
                                 ELSE @[q]]]
      /\ net' = net \union {Sent(p, q, connections[p][q], "GamePacket") : q \in Q}
      /\ Q \subseteq DOMAIN connections[p]
      /\ games' = games + 1
      /\ UNCHANGED <<running, connecting, receiving, open, stray, connects>>
  BY DEF SendGamePacket, ConnectedTo
<1>2. ASSUME NEW q \in DOMAIN connections[p]
      PROVE  /\ q \in Remote(p)
             /\ IsConnection(connections[p][q])
             /\ IsConnection(SendReliable(connections[p][q], "GamePacket"))
             /\ IsDatagram(Sent(p, q, connections[p][q], "GamePacket"))
  <2>1. q \in Remote(p) /\ IsConnection(connections[p][q])
    BY DEF TypeInv, ConnectionsInv
  <2> QED BY <2>1, SendReliableFields, SentType
<1>3. ConnectionsInv'
  BY <1>1, <1>2 DEF TypeInv, ConnectionsInv
<1>4. NetInv'
  BY <1>1, <1>2 DEF TypeInv, NetInv
<1>5. VariablesInv'
  BY <1>1 DEF TypeInv, VariablesInv
<1> QED BY <1>3, <1>4, <1>5 DEF TypeInv

LEMMA StopType ==
    ASSUME TypeInv, NEW p \in Peer, Stop(p),
           connecting' \in [Client -> BOOLEAN],
           \A d \in net' : IsDatagram(d)
    PROVE  TypeInv'
<1>1. ConnectionsInv'
  BY DEF Stop, TypeInv, ConnectionsInv, EmptyMap
<1>2. VariablesInv'
  BY DEF Stop, TypeInv, VariablesInv
<1> QED BY <1>1, <1>2 DEF TypeInv, NetInv

LEMMA ShutdownType ==
    ASSUME TypeInv, NEW p \in Peer, Shutdown(p)
    PROVE  TypeInv'
<1>1. ASSUME NEW q \in ConnectedTo(p)
      PROVE  IsDatagram(Sent(p, q, connections[p][q], "DisconnectionNotification"))
  <2>1. q \in Remote(p) /\ IsConnection(connections[p][q])
    BY DEF ConnectedTo, TypeInv, ConnectionsInv
  <2> QED BY <2>1, SentType
<1>2. \A d \in net' : IsDatagram(d)
  BY <1>1 DEF Shutdown, TypeInv, NetInv
<1>3. Stop(p) /\ connecting' \in [Client -> BOOLEAN]
  BY DEF Shutdown, TypeInv, VariablesInv
<1> QED BY <1>2, <1>3, StopType

LEMMA CrashType ==
    ASSUME TypeInv, NEW p \in Peer, Crash(p)
    PROVE  TypeInv'
<1>1. Stop(p) /\ connecting' \in [Client -> BOOLEAN]
  BY DEF Crash, TypeInv, VariablesInv
<1>2. \A d \in net' : IsDatagram(d)
  BY DEF Crash, TypeInv, NetInv
<1> QED BY <1>1, <1>2, StopType

LEMMA StartType ==
    ASSUME TypeInv, NEW p \in Peer, Start(p)
    PROVE  TypeInv'
<1>1. ConnectionsInv'
  BY DEF Start, TypeInv, ConnectionsInv, VariablesInv
<1>2. VariablesInv'
  BY DEF Start, TypeInv, VariablesInv, budgets
<1>3. NetInv'
  BY DEF Start, TypeInv, NetInv
<1> QED BY <1>1, <1>2, <1>3 DEF TypeInv

(***************************************************************************)
(* A step that gives p a connection to q, new or in place of the old one.  *)
(***************************************************************************)
LEMMA OneConnectionType ==
    ASSUME ConnectionsInv, running' = running,
           NEW p \in Peer, running[p], NEW q \in Remote(p),
           NEW conn, IsConnection(conn),
           \/ connections' = [connections EXCEPT ![p] = Put(@, q, conn)]
           \/ /\ q \in DOMAIN connections[p]
              /\ connections' = [connections EXCEPT ![p][q] = conn]
    PROVE  ConnectionsInv'
<1>1. /\ DOMAIN connections' = Peer
      /\ \A r \in Peer : r # p => connections'[r] = connections[r]
      /\ DOMAIN connections'[p] = DOMAIN connections[p] \union {q}
      /\ connections'[p][q] = conn
      /\ \A r \in DOMAIN connections[p] :
            r # q => connections'[p][r] = connections[p][r]
  BY DEF ConnectionsInv, Put
<1> QED BY <1>1 DEF ConnectionsInv

LEMMA OfflineStepType ==
    ASSUME TypeInv, NEW d \in net, NEW rest \in SUBSET net,
           ReceiveOffline(d, rest), running[d.to], running' = running
    PROVE  NetInv' /\ ConnectionsInv'
<1>1. /\ d.from \in Peer /\ d.to \in Remote(d.from)
      /\ "offline" \in DOMAIN d
      /\ d.offline \in (IF d.to = Server THEN Requests ELSE Replies)
  BY DEF TypeInv, NetInv, IsDatagram, ReceiveOffline
<1>2. d.to = Server => d.from \in Client
  BY <1>1, PeersApart
<1>3. d.to # Server => d.to \in Client /\ d.from = Server
  BY <1>1, PeersApart
<1>4. /\ d.offline \in Requests => d.to = Server
      /\ d.offline \in Replies => d.to # Server
  BY <1>1 DEF Requests, Replies
<1>5. \A e \in rest : IsDatagram(e)
  BY DEF TypeInv, NetInv
<1>6. CASE d.offline = "OpenConnectionRequest1" /\ ReceiveRequest1(d.from, rest)
  <2>1. IsDatagram(Offline(Server, d.from, "OpenConnectionReply1"))
    BY <1>2, <1>4, <1>6, OfflineType DEF Requests, Replies
  <2>2. NetInv'
    BY <1>5, <1>6, <2>1 DEF ReceiveRequest1, NetInv
  <2>3. ConnectionsInv'
    BY <1>6 DEF ReceiveRequest1, TypeInv, ConnectionsInv
  <2> QED BY <2>2, <2>3
<1>7. CASE d.offline = "OpenConnectionRequest2" /\ ReceiveRequest2(d.from, rest)
  <2>1. d.to = Server /\ d.from \in Client
    BY <1>2, <1>4, <1>7 DEF Requests
  <2>2. IsDatagram(Offline(Server, d.from, "OpenConnectionReply2"))
    BY <2>1, OfflineType DEF Replies
  <2>3. NetInv'
    BY <1>5, <1>7, <2>2 DEF ReceiveRequest2, NetInv
  <2>4. ConnectionsInv'
    BY <1>7, <2>1, NewConnectionFields, OneConnectionType, PeersApart
       DEF ReceiveRequest2, TypeInv
  <2> QED BY <2>3, <2>4
<1>8. CASE d.offline = "OpenConnectionReply1" /\ ReceiveReply1(d.to, rest)
  <2>1. IsDatagram(Offline(d.to, Server, "OpenConnectionRequest2"))
    BY <1>3, <1>4, <1>8, OfflineType DEF Requests, Replies
  <2>2. NetInv'
    BY <1>5, <1>8, <2>1 DEF ReceiveReply1, NetInv
  <2>3. ConnectionsInv'
    BY <1>8 DEF ReceiveReply1, TypeInv, ConnectionsInv
  <2> QED BY <2>2, <2>3
<1>9. CASE d.offline = "OpenConnectionReply2" /\ ReceiveReply2(d.to, rest)
  <2>1. d.to \in Client
    BY <1>3, <1>4, <1>9 DEF Replies
  <2>2. CASE OpenConnection(d.to, rest)
    <3>1. IsDatagram(Sent(d.to, Server, NewConnection, "ConnectionRequest"))
      BY <2>1, NewConnectionFields, SentType, PeersApart
    <3>2. NetInv'
      BY <1>5, <2>2, <3>1 DEF OpenConnection, NetInv
    <3>3. IsConnection(SendReliable(NewConnection, "ConnectionRequest"))
      BY NewConnectionFields, SendReliableFields
    <3>4. ConnectionsInv'
      BY <2>1, <2>2, <3>3, OneConnectionType, PeersApart DEF OpenConnection, TypeInv
    <3> QED BY <3>2, <3>4
  <2>3. CASE net' = rest /\ UNCHANGED connections
    BY <1>5, <2>3 DEF TypeInv, ConnectionsInv, NetInv
  <2> QED BY <1>9, <2>2, <2>3 DEF ReceiveReply2
<1> QED BY <1>6, <1>7, <1>8, <1>9 DEF ReceiveOffline

LEMMA ProcessIncomingType ==
    ASSUME TypeInv, NEW d \in net, NEW rest \in SUBSET net, ProcessIncoming(d, rest)
    PROVE  TypeInv'
<1>1. /\ running[d.to] /\ running' = running
      /\ receiving' = [receiving EXCEPT ![d.to] = TRUE]
      /\ connects' = connects /\ games' = games
      /\ \A e \in rest : IsDatagram(e)
      /\ d.from \in Peer /\ d.to \in Peer
  BY PeersApart DEF ProcessIncoming, TypeInv, NetInv, IsDatagram
<1>2. CASE ReceiveOffline(d, rest)
  <2>1. VariablesInv'
    BY <1>1, <1>2 DEF ReceiveOffline, TypeInv, VariablesInv
  <2> QED BY <1>1, <1>2, <2>1, OfflineStepType DEF TypeInv
<1>3. CASE ReceiveData(d, rest)
  <2>1. PICK seen, run : /\ IsRun(d, seen, run)
                         /\ Becomes(d, rest, run[Len(Due(d).ready)])
    BY <1>3, ReceiveDataRun
  <2>2. PICK s : IsHandling(s) /\ Becomes(d, rest, s)
    BY <2>1 DEF IsRun
  <2>3. VariablesInv'
    BY <1>1, <2>2 DEF TypeInv, VariablesInv, Becomes, IsHandling
  <2>4. NetInv'
    BY <1>1, <2>2 DEF NetInv, Becomes, IsHandling
  <2>5. d.from \in DOMAIN connections[d.to]
    BY <1>3 DEF ReceiveData
  <2>6. d.from \in Remote(d.to)
    BY <1>1, <2>5 DEF TypeInv, ConnectionsInv
  <2>7. ConnectionsInv'
    BY <1>1, <2>2, <2>5, <2>6, OneConnectionType DEF TypeInv, Becomes, IsHandling
  <2> QED BY <2>3, <2>4, <2>7 DEF TypeInv
<1>4. CASE ReceiveAck(d, rest)
  <2> DEFINE conn == Acked(connections[d.to][d.from], d.ack)
  <2>1. /\ d.from \in DOMAIN connections[d.to]
        /\ connections' = [connections EXCEPT ![d.to][d.from] = conn]
        /\ net' = rest
        /\ UNCHANGED <<connecting, open, stray>>
    BY <1>4 DEF ReceiveAck, Acked
  <2>2. /\ d.from \in Remote(d.to)
        /\ IsConnection(connections[d.to][d.from])
    BY <1>1, <2>1 DEF TypeInv, ConnectionsInv
  <2>3. IsConnection(conn)
    BY <2>2, AckedFields
  <2> HIDE DEF conn
  <2>4. ConnectionsInv'
    BY <1>1, <2>1, <2>2, <2>3, OneConnectionType DEF TypeInv
  <2>5. VariablesInv'
    BY <1>1, <2>1 DEF TypeInv, VariablesInv
  <2>6. NetInv'
    BY <1>1, <2>1 DEF NetInv
  <2> QED BY <2>4, <2>5, <2>6 DEF TypeInv
<1>5. CASE IgnoreStranger(d, rest)
  BY <1>1, <1>5 DEF IgnoreStranger, TypeInv, VariablesInv, ConnectionsInv, NetInv
<1> QED BY <1>2, <1>3, <1>4, <1>5 DEF ProcessIncoming

LEMMA OutboundType ==
    ASSUME NEW p \in Peer, NEW q \in Remote(p), NEW conn, IsConnection(conn),
           NEW k \in Nat, NEW d \in Outbound(p, q, conn, k)
    PROVE  IsDatagram(d)
<1>1. CASE d = Ack(p, q, conn.received_sequences)
  BY <1>1 DEF Ack, IsDatagram
<1>2. CASE \E n \in DOMAIN Resent(conn, k) : d = Data(p, q, n, Resent(conn, k)[n])
  <2>1. PICK n \in DOMAIN Resent(conn, k) : d = Data(p, q, n, Resent(conn, k)[n])
    BY <1>2
  <2>2. PICK s \in Overdue(conn, k) : Resent(conn, k)[n] = conn.sent_datagrams[s]
    <3>1. MaintainedAs(conn, k, Maintained(conn, k))
      BY MaintainedFields
    <3> QED BY <3>1 DEF MaintainedAs
  <2>3. IsFrame(Resent(conn, k)[n])
    BY <2>2, OverdueIsRecorded DEF IsConnection
  <2>4. n \in Nat
    <3>1. DOMAIN Resent(conn, k) =
            conn.send_sequence_number ..
              (conn.send_sequence_number + Cardinality(Overdue(conn, k)) - 1)
      <4>1. MaintainedAs(conn, k, Maintained(conn, k))
        BY MaintainedFields
      <4> QED BY <4>1 DEF MaintainedAs
    <3> QED BY <3>1, OverdueIsRecorded DEF IsConnection
  <2> QED BY <2>1, <2>3, <2>4, DataFields DEF IsDatagram
<1> QED BY <1>1, <1>2 DEF Outbound

Gone(p) == {q \in DOMAIN connections[p] : connections[p][q].state = "Disconnected"}

(* EndTick, with what the types say of it. *)
Ticked(p, k) ==
    /\ connections' = [connections EXCEPT ![p] =
          [q \in DOMAIN connections[p] \ Gone(p) |->
              Maintained(connections[p][q], k[q])]]
    /\ net' = net \union UNION {Outbound(p, q, connections[p][q], k[q]) :
                                    q \in DOMAIN connections[p]}
    /\ open' = [open EXCEPT ![p] = @ \ Gone(p)]
    /\ receiving' = [receiving EXCEPT ![p] = FALSE]
    /\ UNCHANGED <<running, connecting, stray, connects, games>>
    /\ running[p]
    /\ \A q \in DOMAIN connections[p] :
          /\ k[q] \in Nat
          /\ q \in Remote(p)
          /\ IsConnection(connections[p][q])
          /\ Overdue(connections[p][q], k[q]) # {} =>
                connections[p][q].send_sequence_number
                   + Cardinality(Overdue(connections[p][q], k[q])) <= MaxDatagrams

LEMMA EndTickEffect ==
    ASSUME TypeInv, NEW p \in Peer, NEW k \in Ages(p), EndTick(p, k)
    PROVE  Ticked(p, k)
<1>1. \A q \in DOMAIN connections[p] :
         /\ k[q] \in Nat
         /\ q \in Remote(p)
         /\ IsConnection(connections[p][q])
  BY BoundsAssumption DEF Ages, TypeInv, ConnectionsInv
<1>2. open' = [open EXCEPT ![p] = @ \ Gone(p)]
  <2>1. open' = [open EXCEPT ![p] = open[p] \ Gone(p)]
    BY DEF EndTick, CleanUp, Gone
  <2> QED BY <2>1
<1> QED BY <1>1, <1>2 DEF EndTick, Gone, Ticked, budgets

LEMMA EndTickType ==
    ASSUME TypeInv, NEW p \in Peer, NEW k \in Ages(p), EndTick(p, k)
    PROVE  TypeInv'
<1>0. Ticked(p, k)
  BY EndTickEffect
<1>1. ConnectionsInv'
  <2>1. ASSUME NEW q \in DOMAIN connections[p]
        PROVE  IsConnection(Maintained(connections[p][q], k[q]))
    <3>1. IsConnection(connections[p][q]) /\ k[q] \in Nat
      BY <1>0 DEF Ticked
    <3>2. MaintainedAs(connections[p][q], k[q], Maintained(connections[p][q], k[q]))
      BY <3>1, MaintainedFields
    <3> QED BY <3>2 DEF MaintainedAs
  <2> QED BY <1>0, <2>1 DEF Ticked, TypeInv, ConnectionsInv
<1>2. NetInv'
  <2>1. ASSUME NEW q \in DOMAIN connections[p],
               NEW d \in Outbound(p, q, connections[p][q], k[q])
        PROVE  IsDatagram(d)
    BY <1>0, OutboundType DEF Ticked
  <2> QED BY <1>0, <2>1 DEF Ticked, TypeInv, NetInv
<1>3. VariablesInv'
  BY <1>0 DEF Ticked, TypeInv, VariablesInv
<1> QED BY <1>1, <1>2, <1>3 DEF TypeInv

LEMMA NextType == TypeInv /\ [Next]_vars => TypeInv'
<1> SUFFICES ASSUME TypeInv, [Next]_vars PROVE TypeInv'
  OBVIOUS
<1>1. CASE \E c \in Client : Connect(c)
  BY <1>1, ConnectType
<1>2. ASSUME NEW p \in Peer,
             \/ \E Q \in {{q} : q \in ConnectedTo(p)} \union {ConnectedTo(p)} :
                   SendGamePacket(p, Q)
             \/ Shutdown(p) \/ Crash(p) \/ Start(p)
      PROVE  TypeInv'
  BY <1>2, SendGamePacketType, ShutdownType, CrashType, StartType
<1>3. ASSUME NEW p \in Peer, Receive(p) PROVE TypeInv'
  <2>1. PICK d \in net : ProcessIncoming(d, net \ {d})
    BY <1>3 DEF Receive
  <2>2. net \ {d} \in SUBSET net
    OBVIOUS
  <2> QED BY <2>1, <2>2, ProcessIncomingType
<1>4. ASSUME NEW p \in Peer, EndTickSome(p) PROVE TypeInv'
  BY <1>4, EndTickType DEF EndTickSome
<1>5. ASSUME NEW d \in net, Duplicate(d) PROVE TypeInv'
  <2>1. ProcessIncoming(d, net) /\ net \in SUBSET net
    BY <1>5 DEF Duplicate
  <2> QED BY <2>1, ProcessIncomingType
<1>6. ASSUME NEW d \in net, Lose(d) \/ Unreachable(d) PROVE TypeInv'
  <2>1. net' \subseteq net /\ UNCHANGED <<peers, connects, games>>
    BY <1>6 DEF Lose, Unreachable, budgets
  <2> QED BY <2>1 DEF peers, TypeInv, VariablesInv, ConnectionsInv, NetInv
<1>7. CASE UNCHANGED vars
  BY <1>7 DEF vars, peers, budgets, TypeInv, VariablesInv, ConnectionsInv, NetInv
<1> QED BY <1>1, <1>2, <1>3, <1>4, <1>5, <1>6, <1>7 DEF Next

LEMMA AlwaysTyped == Spec => []TypeInv
  BY InitType, NextType, PTL DEF Spec

(***************************************************************************)
(* Every variable has its type, however peers come and go and whatever the *)
(* network does: in particular no number is recorded that was not handed   *)
(* out, and no channel holds back the message it waits for.                *)
(***************************************************************************)
THEOREM PeerTypeCorrect == Spec => []TypeOK
<1>1. TypeInv => TypeOK
  <2> SUFFICES ASSUME TypeInv PROVE TypeOK
    OBVIOUS
  <2>1. ASSUME NEW p \in Peer, NEW q \in DOMAIN connections[p]
        PROVE  p = Server <=> q \in Client
    <3>1. q \in Remote(p)
      BY DEF TypeInv, ConnectionsInv
    <3> QED BY <3>1, PeersApart DEF Remote
  <2>2. ASSUME NEW p \in Peer, NEW q \in DOMAIN connections[p]
        PROVE  IsConnection(connections[p][q]) /\ running[p]
    BY DEF TypeInv, ConnectionsInv
  <2> QED BY <2>1, <2>2 DEF TypeInv, VariablesInv, ConnectionsInv, TypeOK, IsConnection
<1> QED BY <1>1, AlwaysTyped, PTL

-----------------------------------------------------------------------------
(***************************************************************************)
(* What a step does to the connection of p with q, and which datagrams it  *)
(* sends on it.                                                            *)
(***************************************************************************)
News(p, q) ==
    {d \in net' \ net : d.from = p /\ d.to = q /\ "offline" \notin DOMAIN d}

Holds(p, q) == q \in DOMAIN connections[p]

StillOpen(p, q) == q \in open'[p] <=> q \in open[p]

Stays(p, q) ==
    /\ Holds(p, q) /\ Holds(p, q)'
    /\ connections'[p][q] = connections[p][q]
    /\ News(p, q) = {}
    /\ StillOpen(p, q)

Left(p, q) ==
    /\ ~ Holds(p, q)'
    /\ \A d \in News(p, q) :
          /\ q \in ConnectedTo(p)
          /\ d = Sent(p, q, connections[p][q], "DisconnectionNotification")

Opened(p, q) ==
    /\ Holds(p, q)'
    /\ \/ /\ p = Server
          /\ Offline(q, Server, "OpenConnectionRequest2") \in net
          /\ connections'[p][q] = NewConnection
          /\ News(p, q) = {}
       \/ /\ p \in Client /\ connecting[p]
          /\ Offline(Server, p, "OpenConnectionReply2") \in net
          /\ connections'[p][q] = SendReliable(NewConnection, "ConnectionRequest")
          /\ News(p, q) \subseteq {Sent(p, q, NewConnection, "ConnectionRequest")}

Sends(p, q) ==
    /\ q \in ConnectedTo(p) /\ Holds(p, q)'
    /\ connections'[p][q] = SendReliable(connections[p][q], "GamePacket")
    /\ News(p, q) \subseteq {Sent(p, q, connections[p][q], "GamePacket")}
    /\ StillOpen(p, q)
    /\ games < MaxGames /\ games' = games + 1

TakesFrom(p, q, d, seen, run) ==
    /\ d.to = p /\ d.from = q /\ "datagram" \in DOMAIN d
    /\ Holds(p, q) /\ Holds(p, q)'
    /\ IsRun(d, seen, run)
    /\ connections'[p][q] = run[Len(Due(d).ready)].conn
    /\ open'[p] = run[Len(Due(d).ready)].open
    /\ p \in Client => connecting'[p] = run[Len(Due(d).ready)].connecting
    /\ stray' = run[Len(Due(d).ready)].stray /\ games' = games
    /\ News(p, q) \subseteq run[Len(Due(d).ready)].out

Takes(p, q) == \E d \in net : \E seen, run : TakesFrom(p, q, d, seen, run)

IsAcked(p, q) ==
    \E d \in net :
       /\ d.to = p /\ d.from = q /\ "ack" \in DOMAIN d
       /\ Holds(p, q) /\ Holds(p, q)'
       /\ connections'[p][q] = Acked(connections[p][q], d.ack)
       /\ News(p, q) = {}
       /\ StillOpen(p, q)

Ticks(p, q) ==
    \E k \in Nat :
       /\ Holds(p, q) /\ Holds(p, q)'
       /\ connections'[p][q] = Maintained(connections[p][q], k)
       /\ News(p, q) \subseteq Outbound(p, q, connections[p][q], k)
       /\ Overdue(connections[p][q], k) # {} =>
             connections[p][q].send_sequence_number
                + Cardinality(Overdue(connections[p][q], k)) <= MaxDatagrams
       /\ StillOpen(p, q)

Evolves(p, q) ==
    \/ Stays(p, q) \/ Left(p, q) \/ Opened(p, q) \/ Sends(p, q)
    \/ Takes(p, q) \/ IsAcked(p, q) \/ Ticks(p, q)

(* connect is called only so often, and otherwise nothing begins. *)
Calls(c) ==
    \/ connects'[c] = connects[c] /\ (connecting'[c] => connecting[c])
    \/ connects[c] < MaxConnects /\ connects'[c] = connects[c] + 1

(* p alone acts. *)
Acts(p) ==
    /\ \A r \in Peer \ {p} : /\ connections'[r] = connections[r]
                             /\ open'[r] = open[r]
                             /\ \A q \in Remote(r) : News(r, q) = {}
    /\ \A q \in Remote(p) : Evolves(p, q)
    /\ stray' = stray \/ \E q \in Remote(p) : Takes(p, q)
    /\ games' = games \/ (games < MaxGames /\ games' = games + 1)
    /\ \A c \in Client : Calls(c)

(* p does nothing to its connections.                                      *)
LEMMA IdleStays ==
    ASSUME ConnectionsInv, connections' = connections, open' = open,
           NEW p \in Peer, NEW q \in Remote(p), News(p, q) = {}
    PROVE  Stays(p, q) \/ Left(p, q)
<1>1. CASE Holds(p, q)
  BY <1>1 DEF Stays, Holds, StillOpen
<1>2. CASE ~ Holds(p, q)
  BY <1>2 DEF Left, Holds
<1> QED BY <1>1, <1>2

LEMMA IdleActs ==
    ASSUME TypeInv, connections' = connections, open' = open, stray' = stray,
           games' = games \/ (games < MaxGames /\ games' = games + 1),
           \A c \in Client : Calls(c),
           \A r \in Peer : \A q \in Remote(r) : News(r, q) = {}
    PROVE  \A p \in Peer : Acts(p)
<1> SUFFICES ASSUME NEW p \in Peer PROVE Acts(p)
  OBVIOUS
<1>1. ConnectionsInv
  BY DEF TypeInv
<1>2. \A q \in Remote(p) : Stays(p, q) \/ Left(p, q)
  BY <1>1, IdleStays
<1> QED BY <1>2 DEF Acts, Evolves

(* q's connection changes, and no other.                                   *)
LEMMA OneEvolves ==
    ASSUME TypeInv, NEW p \in Peer, NEW q \in Remote(p),
           DOMAIN connections' = Peer,
           \A r \in Peer : r # p => connections'[r] = connections[r],
           DOMAIN connections'[p] = DOMAIN connections[p] \union {q},
           \A r \in DOMAIN connections[p] :
              r # q => connections'[p][r] = connections[p][r],
           \A r \in Peer : r # p => open'[r] = open[r],
           \A r \in Remote(p) : r # q => StillOpen(p, r),
           \A r, t : (r # p \/ t # q) => News(r, t) = {},
           Evolves(p, q),
           stray' = stray \/ Takes(p, q),
           games' = games,
           \A c \in Client : Calls(c)
    PROVE  Acts(p)
<1>1. ASSUME NEW r \in Remote(p), r # q
      PROVE  Evolves(p, r)
  <2>1. CASE Holds(p, r)
    <3>1. Holds(p, r)' /\ connections'[p][r] = connections[p][r]
      BY <1>1, <2>1 DEF Holds
    <3> QED BY <1>1, <2>1, <3>1 DEF Stays, Evolves
  <2>2. CASE ~ Holds(p, r)
    <3>1. ~ Holds(p, r)' /\ News(p, r) = {}
      BY <1>1, <2>2 DEF Holds
    <3> QED BY <3>1 DEF Left, Evolves
  <2> QED BY <2>1, <2>2
<1>2. \A r \in Remote(p) : Evolves(p, r)
  BY <1>1
<1>3. \A r \in Peer \ {p} : /\ connections'[r] = connections[r]
                            /\ open'[r] = open[r]
                            /\ \A t \in Remote(r) : News(r, t) = {}
  OBVIOUS
<1>4. stray' = stray \/ \E r \in Remote(p) : Takes(p, r)
  OBVIOUS
<1> QED BY <1>2, <1>3, <1>4 DEF Acts

(* All that the handlers send goes back where the datagram came from, and  *)
(* they touch no one else's place among the open.                          *)
LEMMA RunEffect ==
    ASSUME TypeInv, NEW d \in net, "datagram" \in DOMAIN d, Holds(d.to, d.from),
           NEW seen, NEW run, IsRun(d, seen, run)
    PROVE  \A k \in 0 .. Len(Due(d).ready) :
              /\ \A e \in run[k].out : e.from = d.to /\ e.to = d.from
              /\ run[k].connecting => d.to \in Client /\ connecting[d.to]
              /\ \A r : r # d.from => (r \in run[k].open <=> r \in open[d.to])
<1> DEFINE N == Len(Due(d).ready)
           G == {k \in 0 .. N :
                   /\ \A e \in run[k].out : e.from = d.to /\ e.to = d.from
                   /\ run[k].connecting => d.to \in Client /\ connecting[d.to]
                   /\ \A r : r # d.from => (r \in run[k].open <=> r \in open[d.to])}
<1>1. N \in Nat
  BY DEF IsRun
<1>2. d.to \in Peer
  BY TakenInIsHandling DEF Holds
<1>3. 0 \in G
  <2>1. run[0].out = {} /\ run[0].open = open[d.to]
    BY DEF IsRun, TakenIn
  <2>2. run[0].connecting = (d.to \in Client /\ connecting[d.to])
    BY DEF IsRun, TakenIn
  <2>3. run[0].connecting => d.to \in Client /\ connecting[d.to]
    BY <2>2, Zenon
  <2> QED BY <1>1, <2>1, <2>3
<1>4. ASSUME NEW k \in 1 .. N, k - 1 \in G PROVE k \in G
  <2>1. /\ Handled(d.to, d.from, run[k - 1], Due(d).ready[k], seen, run[k])
        /\ IsConnection(run[k - 1].conn)
        /\ k \in 0 .. N /\ k - 1 \in 0 .. N
    BY <1>1 DEF IsRun, IsHandling
  <2>2. \A b : /\ Sent(d.to, d.from, run[k - 1].conn, b).from = d.to
               /\ Sent(d.to, d.from, run[k - 1].conn, b).to = d.from
    BY <2>1, SentFields
  <2>3. \/ run[k].out = run[k - 1].out
        \/ \E b : run[k].out =
             run[k - 1].out \union {Sent(d.to, d.from, run[k - 1].conn, b)}
    BY <2>1 DEF Handled
  <2>4. run[k].connecting = run[k - 1].connecting \/ run[k].connecting = FALSE
    BY <2>1 DEF Handled
  <2>5. \A r : r # d.from => (r \in run[k].open <=> r \in run[k - 1].open)
    BY <2>1 DEF Handled, Told
  <2> QED BY <1>4, <2>1, <2>2, <2>3, <2>4, <2>5
<1>5. \A k \in 0 .. N : k \in G
  <2> HIDE DEF N, G
  <2> QED BY <1>1, <1>3, <1>4, StepsInduction
<1> QED BY <1>1, <1>5

LEMMA ConnectActs ==
    ASSUME TypeInv, NEW c \in Client, Connect(c)
    PROVE  \A p \in Peer : Acts(p)
<1>1. \A r, t : News(r, t) = {}
  BY DEF Connect, News, Offline
<1>2. \A b \in Client : Calls(b)
  BY DEF Connect, Calls, TypeInv, VariablesInv
<1> QED BY <1>1, <1>2, IdleActs DEF Connect

LEMMA StartActs ==
    ASSUME TypeInv, NEW c \in Peer, Start(c)
    PROVE  \A p \in Peer : Acts(p)
<1>1. \A r, t : News(r, t) = {}
  BY DEF Start, News
<1>2. \A b \in Client : Calls(b)
  BY DEF Start, Calls, budgets
<1> QED BY <1>1, <1>2, IdleActs DEF Start, budgets

LEMMA NetworkActs ==
    ASSUME TypeInv, NEW d \in net, Lose(d) \/ Unreachable(d)
    PROVE  \A p \in Peer : Acts(p)
<1>1. net' \subseteq net /\ UNCHANGED <<peers, connects, games>>
  BY DEF Lose, Unreachable, budgets
<1>2. \A r, t : News(r, t) = {}
  BY <1>1 DEF News
<1>3. \A b \in Client : Calls(b)
  BY <1>1 DEF Calls, peers
<1> QED BY <1>1, <1>2, <1>3, IdleActs DEF peers

LEMMA SendGamePacketActs ==
    ASSUME TypeInv, NEW p \in Peer, NEW Q, SendGamePacket(p, Q)
    PROVE  Acts(p)
<1>1. /\ connections' = [connections EXCEPT ![p] =
             [q \in DOMAIN @ |-> IF q \in Q THEN SendReliable(@[q], "GamePacket")
                                 ELSE @[q]]]
      /\ net' = net \union {Sent(p, q, connections[p][q], "GamePacket") : q \in Q}
      /\ Q \subseteq ConnectedTo(p) /\ Q \subseteq DOMAIN connections[p]
      /\ games < MaxGames /\ games' = games + 1
      /\ UNCHANGED <<connecting, open, stray, connects>>
  BY DEF SendGamePacket, ConnectedTo
<1>2. \A q \in Q : /\ Sent(p, q, connections[p][q], "GamePacket").from = p
                   /\ Sent(p, q, connections[p][q], "GamePacket").to = q
  BY <1>1, SentFields DEF TypeInv, ConnectionsInv
<1>3. \A r, t : News(r, t) \subseteq
         IF r = p /\ t \in Q THEN {Sent(p, t, connections[p][t], "GamePacket")} ELSE {}
  BY <1>1, <1>2 DEF News
<1>4. ASSUME NEW q \in Remote(p) PROVE Evolves(p, q)
  <2>1. DOMAIN connections'[p] = DOMAIN connections[p]
    BY <1>1 DEF TypeInv, ConnectionsInv
  <2>2. CASE ~ Holds(p, q)
    <3>1. ~ Holds(p, q)' /\ News(p, q) = {}
      BY <1>1, <1>3, <2>1, <2>2 DEF Holds
    <3> QED BY <3>1 DEF Left, Evolves
  <2>3. CASE Holds(p, q) /\ q \notin Q
    <3>1. /\ Holds(p, q)' /\ News(p, q) = {}
          /\ connections'[p][q] = connections[p][q]
          /\ StillOpen(p, q)
      BY <1>1, <1>3, <2>1, <2>3 DEF Holds, StillOpen, TypeInv, ConnectionsInv
    <3> QED BY <2>3, <3>1 DEF Stays, Evolves
  <2>4. CASE Holds(p, q) /\ q \in Q
    <3>1. /\ Holds(p, q)'
          /\ News(p, q) \subseteq {Sent(p, q, connections[p][q], "GamePacket")}
          /\ connections'[p][q] = SendReliable(connections[p][q], "GamePacket")
          /\ StillOpen(p, q)
      BY <1>1, <1>3, <2>1, <2>4 DEF Holds, StillOpen, TypeInv, ConnectionsInv
    <3> QED BY <1>1, <2>4, <3>1 DEF Sends, Evolves
  <2> QED BY <2>2, <2>3, <2>4
<1>5. \A r \in Peer \ {p} : /\ connections'[r] = connections[r]
                            /\ open'[r] = open[r]
                            /\ \A q \in Remote(r) : News(r, q) = {}
  BY <1>1, <1>3 DEF TypeInv, ConnectionsInv
<1>6. \A c \in Client : Calls(c)
  BY <1>1 DEF Calls
<1> QED BY <1>1, <1>4, <1>5, <1>6 DEF Acts

LEMMA StopActs ==
    ASSUME TypeInv, NEW p \in Peer, Shutdown(p) \/ Crash(p)
    PROVE  Acts(p)
<1>1. /\ connections' = [connections EXCEPT ![p] = EmptyMap]
      /\ open' = [open EXCEPT ![p] = {}]
      /\ UNCHANGED <<stray, connects, games>>
      /\ \A c \in Client : connecting'[c] => connecting[c]
  BY DEF Shutdown, Crash, Stop
<1>2. net' \subseteq net \union
        {Sent(p, q, connections[p][q], "DisconnectionNotification") :
            q \in ConnectedTo(p)}
  BY DEF Shutdown, Crash
<1>3. \A q \in ConnectedTo(p) :
         /\ Sent(p, q, connections[p][q], "DisconnectionNotification").from = p
         /\ Sent(p, q, connections[p][q], "DisconnectionNotification").to = q
  BY SentFields DEF ConnectedTo, TypeInv, ConnectionsInv
<1>4. \A r, t : \A d \in News(r, t) :
         /\ r = p /\ t \in ConnectedTo(p)
         /\ d = Sent(p, t, connections[p][t], "DisconnectionNotification")
  BY <1>2, <1>3 DEF News
<1>5. DOMAIN connections'[p] = {}
  BY <1>1 DEF EmptyMap, TypeInv, ConnectionsInv
<1>6. \A q \in Remote(p) : Left(p, q)
  BY <1>4, <1>5 DEF Left, Holds
<1>7. \A r \in Peer \ {p} : /\ connections'[r] = connections[r]
                            /\ open'[r] = open[r]
                            /\ \A q \in Remote(r) : News(r, q) = {}
  BY <1>1, <1>4 DEF TypeInv, ConnectionsInv
<1>8. \A c \in Client : Calls(c)
  BY <1>1 DEF Calls
<1> QED BY <1>1, <1>6, <1>7, <1>8 DEF Acts, Evolves

LEMMA OfflineFields ==
    ASSUME NEW d, IsDatagram(d), "offline" \in DOMAIN d
    PROVE  d = Offline(d.from, d.to, d.offline)
<1>1. CASE DOMAIN d = {"from", "to", "datagram"} \/ DOMAIN d = {"from", "to", "ack"}
  BY <1>1
<1>2. CASE d = Offline(d.from, d.to, d.offline)
  BY <1>2
<1> QED BY <1>1, <1>2 DEF IsDatagram

LEMMA ProcessIncomingActs ==
    ASSUME TypeInv, NEW d \in net, NEW rest \in SUBSET net, ProcessIncoming(d, rest)
    PROVE  Acts(d.to)
<1> DEFINE p == d.to
           q == d.from
<1>1. /\ p \in Peer /\ q \in Peer /\ q \in Remote(p) /\ p \in Remote(q)
      /\ "offline" \in DOMAIN d =>
            d.offline \in (IF p = Server THEN Requests ELSE Replies)
  BY PeersApart DEF TypeInv, NetInv, IsDatagram
<1>0. "offline" \in DOMAIN d => d = Offline(q, p, d.offline)
  BY OfflineFields DEF TypeInv, NetInv
<1>2. connects' = connects /\ games' = games
  BY DEF ProcessIncoming
<1>3. ConnectionsInv /\ DOMAIN connections = Peer
  BY DEF TypeInv, ConnectionsInv
<1>5. ASSUME connecting' = connecting, open' = open, stray' = stray,
             connections' = connections, \A r, t : News(r, t) = {}
      PROVE  Acts(p)
  <2>1. \A c \in Client : Calls(c)
    BY <1>2, <1>5 DEF Calls
  <2> QED BY <1>1, <1>2, <1>5, <2>1, IdleActs
<1>6. ASSUME NEW conn,
             \/ connections' = [connections EXCEPT ![p] = Put(@, q, conn)]
             \/ Holds(p, q) /\ connections' = [connections EXCEPT ![p][q] = conn]
      PROVE  /\ DOMAIN connections' = Peer
             /\ \A r \in Peer : r # p => connections'[r] = connections[r]
             /\ DOMAIN connections'[p] = DOMAIN connections[p] \union {q}
             /\ \A r \in DOMAIN connections[p] :
                   r # q => connections'[p][r] = connections[p][r]
             /\ connections'[p][q] = conn
             /\ Holds(p, q)'
  BY <1>1, <1>3, <1>6 DEF Put, Holds
<1>7. CASE ReceiveOffline(d, rest)
  <2>1. /\ "offline" \in DOMAIN d
        /\ UNCHANGED <<connecting, open, stray>>
    BY <1>7 DEF ReceiveOffline
  <2>2. \A c \in Client : Calls(c)
    BY <1>2, <2>1 DEF Calls
  <2>3. CASE /\ connections' = connections
             /\ \A e \in net' : e \in net \/ \E r, t, id : e = Offline(r, t, id)
    <3>1. \A r, t : News(r, t) = {}
      BY <2>3 DEF News, Offline
    <3> QED BY <1>5, <2>1, <2>3, <3>1
  <2>4. CASE /\ ReceiveRequest2(q, rest) /\ p = Server
             /\ d.offline = "OpenConnectionRequest2"
    <3>1. /\ connections' = [connections EXCEPT ![p] = Put(@, q, NewConnection)]
          /\ net' = rest \union {Offline(Server, q, "OpenConnectionReply2")}
      BY <2>4 DEF ReceiveRequest2
    <3>2. \A r, t : News(r, t) = {}
      BY <3>1 DEF News, Offline
    <3>3. Opened(p, q)
      BY <1>0, <1>6, <2>1, <2>4, <3>1, <3>2 DEF Opened
    <3>4. \A r \in Remote(p) : r # q => StillOpen(p, r)
      BY <2>1 DEF StillOpen
    <3> QED BY <1>1, <1>2, <1>6, <2>1, <2>2, <3>1, <3>2, <3>3, <3>4, OneEvolves
            DEF Evolves
  <2>5. CASE /\ OpenConnection(p, rest) /\ p \in Client /\ connecting[p]
             /\ d.offline = "OpenConnectionReply2"
    <3> DEFINE conn == SendReliable(NewConnection, "ConnectionRequest")
               sent == Sent(p, q, NewConnection, "ConnectionRequest")
    <3>1. q = Server
      BY <1>1, <2>5, PeersApart
    <3>2. /\ connections' = [connections EXCEPT ![p] = Put(@, q, conn)]
          /\ net' = rest \union {sent}
      BY <2>5, <3>1 DEF OpenConnection
    <3>3. sent.from = p /\ sent.to = q
      BY NewConnectionFields, SentFields
    <3> HIDE DEF sent, conn
    <3>4. \A r, t : News(r, t) \subseteq IF r = p /\ t = q THEN {sent} ELSE {}
      BY <3>2, <3>3 DEF News
    <3>8. Offline(Server, p, "OpenConnectionReply2") \in net
      BY <1>0, <2>1, <2>5, <3>1
    <3>5. Opened(p, q)
      BY <1>6, <2>5, <3>2, <3>4, <3>8 DEF Opened, sent, conn
    <3>6. \A r, t : (r # p \/ t # q) => News(r, t) = {}
      BY <3>4
    <3>7. \A r \in Remote(p) : r # q => StillOpen(p, r)
      BY <2>1 DEF StillOpen
    <3> QED BY <1>1, <1>2, <1>6, <2>1, <2>2, <3>2, <3>5, <3>6, <3>7, OneEvolves
            DEF Evolves
  <2>6. p = Server \/ p \in Client
    BY <1>1, PeersApart
  <2>7. CASE \/ ReceiveRequest1(q, rest) \/ ReceiveReply1(p, rest)
             \/ net' = rest /\ UNCHANGED connections
    BY <2>3, <2>7 DEF ReceiveRequest1, ReceiveReply1
  <2>8. CASE ReceiveReply2(p, rest) /\ d.offline = "OpenConnectionReply2"
    <3>1. p \in Client
      BY <1>1, <2>1, <2>6, <2>8 DEF Requests
    <3> QED BY <2>5, <2>7, <2>8, <3>1 DEF ReceiveReply2
  <2>9. CASE ReceiveRequest2(q, rest) /\ d.offline = "OpenConnectionRequest2"
    <3>1. p = Server
      BY <1>1, <2>1, <2>9 DEF Replies
    <3> QED BY <2>4, <2>9, <3>1
  <2> QED BY <1>7, <2>7, <2>8, <2>9 DEF ReceiveOffline
<1>8. CASE ReceiveData(d, rest)
  <2>1. PICK seen, run : /\ IsRun(d, seen, run)
                         /\ Becomes(d, rest, run[Len(Due(d).ready)])
    BY <1>8, ReceiveDataRun
  <2> DEFINE s == run[Len(Due(d).ready)]
  <2>2. "datagram" \in DOMAIN d /\ Holds(p, q)
    BY <1>8 DEF ReceiveData, Holds
  <2>3. /\ \A e \in s.out : e.from = p /\ e.to = q
        /\ s.connecting => p \in Client /\ connecting[p]
        /\ \A r : r # q => (r \in s.open <=> r \in open[p])
    <3>1. Len(Due(d).ready) \in 0 .. Len(Due(d).ready)
      BY <2>1 DEF IsRun
    <3> QED BY <2>1, <2>2, <3>1, RunEffect
  <2>4. /\ net' = rest \union s.out
        /\ connections' = [connections EXCEPT ![p][q] = s.conn]
        /\ connecting' = [c \in Client |-> IF c = p THEN s.connecting
                                           ELSE connecting[c]]
        /\ open' = [open EXCEPT ![p] = s.open]
        /\ stray' = s.stray
    BY <2>1 DEF Becomes
  <2>5. \A r, t : News(r, t) \subseteq IF r = p /\ t = q THEN s.out ELSE {}
    BY <2>3, <2>4 DEF News
  <2>7. \A c \in Client : Calls(c)
    BY <1>2, <2>3, <2>4 DEF Calls
  <2>8. \A r \in Remote(p) : r # q => StillOpen(p, r)
    BY <1>1, <2>3, <2>4 DEF StillOpen, TypeInv, VariablesInv
  <2>9. \A r \in Peer : r # p => open'[r] = open[r]
    BY <2>4 DEF TypeInv, VariablesInv
  <2>10. Takes(p, q)
    <3>1. /\ connections'[p][q] = s.conn /\ Holds(p, q)'
          /\ open'[p] = s.open
          /\ p \in Client => connecting'[p] = s.connecting
          /\ News(p, q) \subseteq s.out
      BY <1>1, <1>6, <2>2, <2>4, <2>5 DEF TypeInv, VariablesInv
    <3>2. TakesFrom(p, q, d, seen, run)
      BY <1>2, <2>1, <2>2, <2>4, <3>1 DEF TakesFrom
    <3> QED BY <3>2 DEF Takes
  <2>11. \A r, t : (r # p \/ t # q) => News(r, t) = {}
    BY <2>5
  <2> HIDE DEF s
  <2> QED BY <1>1, <1>2, <1>6, <2>2, <2>4, <2>7, <2>8, <2>9, <2>10, <2>11, OneEvolves
          DEF Evolves
<1>9. CASE ReceiveAck(d, rest)
  <2> DEFINE conn == Acked(connections[p][q], d.ack)
  <2>1. /\ "ack" \in DOMAIN d /\ Holds(p, q)
        /\ connections' = [connections EXCEPT ![p][q] = conn]
        /\ net' = rest /\ UNCHANGED <<connecting, open, stray>>
    BY <1>9 DEF ReceiveAck, Holds, Acked
  <2> HIDE DEF conn
  <2>2. \A r, t : News(r, t) = {}
    BY <2>1 DEF News
  <2>3. connections'[p][q] = conn /\ Holds(p, q)'
    BY <1>6, <2>1
  <2>4. \A r : StillOpen(p, r)
    BY <2>1 DEF StillOpen
  <2>5. IsAcked(p, q)
    BY <2>1, <2>2, <2>3, <2>4 DEF IsAcked, conn
  <2>6. \A c \in Client : Calls(c)
    BY <1>2, <2>1 DEF Calls
  <2> QED BY <1>1, <1>2, <1>6, <2>1, <2>2, <2>4, <2>5, <2>6, OneEvolves DEF Evolves
<1>10. CASE IgnoreStranger(d, rest)
  <2>1. \A r, t : News(r, t) = {}
    BY <1>10 DEF IgnoreStranger, News
  <2> QED BY <1>5, <1>10, <2>1 DEF IgnoreStranger
<1> QED BY <1>7, <1>8, <1>9, <1>10 DEF ProcessIncoming

LEMMA EndTickActs ==
    ASSUME TypeInv, NEW p \in Peer, NEW k \in Ages(p), EndTick(p, k)
    PROVE  Acts(p)
<1>0. Ticked(p, k)
  BY EndTickEffect
<1>1. ASSUME NEW q \in DOMAIN connections[p],
             NEW d \in Outbound(p, q, connections[p][q], k[q])
      PROVE  d.from = p /\ d.to = q
  BY DEF Outbound, Ack, Data
<1>2. \A r, t : \A d \in News(r, t) :
         r = p /\ t \in DOMAIN connections[p] /\ d \in Outbound(p, t, connections[p][t], k[t])
  BY <1>0, <1>1 DEF Ticked, News
<1>3. /\ DOMAIN connections'[p] = DOMAIN connections[p] \ Gone(p)
      /\ \A q \in DOMAIN connections'[p] :
            connections'[p][q] = Maintained(connections[p][q], k[q])
      /\ open'[p] = open[p] \ Gone(p)
      /\ \A r \in Peer \ {p} : connections'[r] = connections[r] /\ open'[r] = open[r]
  BY <1>0 DEF Ticked, TypeInv, ConnectionsInv, VariablesInv
<1>4. ASSUME NEW q \in Remote(p) PROVE Evolves(p, q)
  <2>1. CASE ~ Holds(p, q)
    <3>1. News(p, q) = {} /\ ~ Holds(p, q)'
      BY <1>2, <1>3, <2>1 DEF Holds
    <3> QED BY <3>1 DEF Left, Evolves
  <2>2. CASE Holds(p, q) /\ q \in Gone(p)
    <3>1. ~ Holds(p, q)'
      BY <1>3, <2>2 DEF Holds
    <3>2. connections[p][q].state = "Disconnected"
      BY <2>2 DEF Gone
    <3>3. /\ connections[p][q].state # "Connected"
          /\ IsConnection(connections[p][q]) /\ k[q] \in Nat
      BY <1>0, <2>2, <3>2 DEF Ticked, Holds
    <3>4. Overdue(connections[p][q], k[q]) = {}
      BY <3>3, OverdueIsRecorded
    <3>5. DOMAIN Resent(connections[p][q], k[q]) = {}
      <4>1. MaintainedAs(connections[p][q], k[q], Maintained(connections[p][q], k[q]))
        BY <3>3, MaintainedFields
      <4> HIDE DEF Resent
      <4>2. DOMAIN Resent(connections[p][q], k[q]) =
               connections[p][q].send_sequence_number ..
                 (connections[p][q].send_sequence_number + Cardinality({}) - 1)
        BY <3>4, <4>1 DEF MaintainedAs
      <4>3. Cardinality({}) = 0 /\ connections[p][q].send_sequence_number \in Nat
        BY <3>3, FS_EmptySet DEF IsConnection
      <4> QED BY <4>2, <4>3
    <3>6. Outbound(p, q, connections[p][q], k[q]) = {}
      BY <3>3, <3>5 DEF Outbound
    <3>7. News(p, q) = {}
      BY <1>2, <3>6
    <3> QED BY <3>1, <3>7 DEF Left, Evolves
  <2>3. CASE Holds(p, q) /\ q \notin Gone(p)
    <3>1. /\ Holds(p, q)' /\ StillOpen(p, q)
          /\ connections'[p][q] = Maintained(connections[p][q], k[q])
      BY <1>3, <2>3 DEF Holds, StillOpen
    <3>2. News(p, q) \subseteq Outbound(p, q, connections[p][q], k[q])
      BY <1>2
    <3>3. /\ k[q] \in Nat
          /\ Overdue(connections[p][q], k[q]) # {} =>
                connections[p][q].send_sequence_number
                   + Cardinality(Overdue(connections[p][q], k[q])) <= MaxDatagrams
      BY <1>0, <2>3 DEF Ticked, Holds
    <3> QED BY <2>3, <3>1, <3>2, <3>3 DEF Ticks, Evolves
  <2> QED BY <2>1, <2>2, <2>3
<1>5. \A r \in Peer \ {p} : \A q \in Remote(r) : News(r, q) = {}
  BY <1>2
<1>6. /\ stray' = stray /\ games' = games
      /\ \A c \in Client : Calls(c)
  BY <1>0 DEF Ticked, Calls
<1> QED BY <1>3, <1>4, <1>5, <1>6 DEF Acts

LEMMA NextActs ==
    ASSUME TypeInv, [Next]_vars
    PROVE  \E p \in Peer : Acts(p)
<1>1. CASE \E c \in Client : Connect(c)
  BY <1>1, ConnectActs, PeersApart
<1>2. ASSUME NEW p \in Peer, Receive(p) PROVE \E r \in Peer : Acts(r)
  <2>1. PICK d \in net : d.to = p /\ ProcessIncoming(d, net \ {d})
    BY <1>2 DEF Receive
  <2>2. net \ {d} \in SUBSET net
    OBVIOUS
  <2> QED BY <2>1, <2>2, ProcessIncomingActs
<1>3. ASSUME NEW d \in net, Duplicate(d) PROVE \E r \in Peer : Acts(r)
  <2>1. ProcessIncoming(d, net) /\ net \in SUBSET net
    BY <1>3 DEF Duplicate
  <2>2. d.to \in Peer
    BY PeersApart DEF TypeInv, NetInv, IsDatagram
  <2> QED BY <2>1, <2>2, ProcessIncomingActs
<1>4. ASSUME NEW p \in Peer, EndTickSome(p) PROVE \E r \in Peer : Acts(r)
  BY <1>4, EndTickActs DEF EndTickSome
<1>5. ASSUME NEW p \in Peer,
             \/ \E Q \in {{q} : q \in ConnectedTo(p)} \union {ConnectedTo(p)} :
                   SendGamePacket(p, Q)
             \/ Shutdown(p) \/ Crash(p) \/ Start(p)
      PROVE  \E r \in Peer : Acts(r)
  BY <1>5, SendGamePacketActs, StopActs, StartActs
<1>6. ASSUME NEW d \in net, Lose(d) \/ Unreachable(d)
      PROVE  \E r \in Peer : Acts(r)
  BY <1>6, NetworkActs, PeersApart
<1>7. CASE UNCHANGED vars
  <2>1. \A r, t : News(r, t) = {}
    BY <1>7 DEF News, vars
  <2>2. \A c \in Client : Calls(c)
    BY <1>7 DEF Calls, vars, peers, budgets
  <2>3. \A r \in Peer : Acts(r)
    BY <1>7, <2>1, <2>2, IdleActs DEF vars, peers, budgets
  <2> QED BY <2>3, PeersApart
<1> QED BY <1>1, <1>2, <1>3, <1>4, <1>5, <1>6, <1>7 DEF Next

-----------------------------------------------------------------------------
(***************************************************************************)
(* Where the frames of a connection come from.                             *)
(***************************************************************************)
Recorded(p, q) ==
    IF Holds(p, q) THEN Range(connections[p][q].sent_datagrams) ELSE {}

(* The handlers of d's messages answer the k-th with body b, of index i.   *)
Answers(d, run, k, i, b) ==
    /\ i = run[k - 1].conn.send_ordering_index
    /\ \/ /\ d.to = Server /\ Due(d).ready[k] = "ConnectionRequest"
          /\ b = "ConnectionRequestAccepted"
       \/ /\ d.to \in Client /\ Due(d).ready[k] = "ConnectionRequestAccepted"
          /\ b = "NewIncomingConnection"

(* The step sends a new message to q, of index i and body b.               *)
Adds(p, q, i, b) ==
    \/ /\ Opened(p, q) /\ p \in Client /\ connecting[p]
       /\ i = 0 /\ b = "ConnectionRequest"
    \/ /\ Sends(p, q)
       /\ i = connections[p][q].send_ordering_index /\ b = "GamePacket"
    \/ /\ Left(p, q) /\ q \in ConnectedTo(p)
       /\ i = connections[p][q].send_ordering_index
       /\ b = "DisconnectionNotification"
    \/ \E d \in net : \E seen, run : \E k \in 1 .. Len(Due(d).ready) :
          TakesFrom(p, q, d, seen, run) /\ Answers(d, run, k, i, b)

LEMMA RunFrames ==
    ASSUME TypeInv, NEW d \in net, "datagram" \in DOMAIN d, Holds(d.to, d.from),
           NEW seen, NEW run, IsRun(d, seen, run)
    PROVE  \A k \in 0 .. Len(Due(d).ready) :
              /\ run[k].conn.channel = Due(d).state
              /\ \A n \in DOMAIN run[k].conn.sent_datagrams :
                    LET f == run[k].conn.sent_datagrams[n]
                    IN  \/ f \in Range(Conn(d).sent_datagrams)
                        \/ \E j \in 1 .. k :
                              Answers(d, run, j, f.ordering_index, f.body)
              /\ \A e \in run[k].out :
                    /\ "datagram" \in DOMAIN e
                    /\ \E j \in 1 .. k : \E i :
                          /\ Answers(d, run, j, i, e.datagram.frame.body)
                          /\ e.datagram.frame.ordering_index = i % IndexMod
<1> DEFINE N == Len(Due(d).ready)
           NewOne(k, f) == \/ f \in Range(Conn(d).sent_datagrams)
                           \/ \E j \in 1 .. k :
                                 Answers(d, run, j, f.ordering_index, f.body)
           SentOne(k, e) == /\ "datagram" \in DOMAIN e
                            /\ \E j \in 1 .. k : \E i :
                                  /\ Answers(d, run, j, i, e.datagram.frame.body)
                                  /\ e.datagram.frame.ordering_index = i % IndexMod
           G == {k \in 0 .. N :
                   /\ run[k].conn.channel = Due(d).state
                   /\ \A n \in DOMAIN run[k].conn.sent_datagrams :
                         NewOne(k, run[k].conn.sent_datagrams[n])
                   /\ \A e \in run[k].out : SentOne(k, e)}
<1>1. N \in Nat
  BY DEF IsRun
<1>2. 0 \in G
  <2>1. run[0].out = {} /\ run[0] = TakenIn(d)
    BY DEF IsRun, TakenIn
  <2>2. /\ TakenIn(d).conn.channel = Due(d).state
        /\ TakenIn(d).conn.sent_datagrams = Conn(d).sent_datagrams
    BY TakenInIsHandling DEF Holds
  <2>3. \A n \in DOMAIN Conn(d).sent_datagrams :
           Conn(d).sent_datagrams[n] \in Range(Conn(d).sent_datagrams)
    BY DEF Range
  <2> QED BY <1>1, <2>1, <2>2, <2>3
<1>3. ASSUME NEW k \in 1 .. N, k - 1 \in G PROVE k \in G
  <2> DEFINE s == run[k - 1]
             t == run[k]
  <2>1. /\ Handled(d.to, d.from, s, Due(d).ready[k], seen, t)
        /\ IsConnection(s.conn)
        /\ k \in 0 .. N /\ k - 1 \in 0 .. N
    BY <1>1 DEF IsRun, IsHandling
  <2>2. /\ s.conn.channel = Due(d).state
        /\ \A n \in DOMAIN s.conn.sent_datagrams :
              NewOne(k - 1, s.conn.sent_datagrams[n])
        /\ \A e \in s.out : SentOne(k - 1, e)
    BY <1>3
  <2>3. /\ \A f : NewOne(k - 1, f) => NewOne(k, f)
        /\ \A e : SentOne(k - 1, e) => SentOne(k, e)
    <3>1. 1 .. (k - 1) \subseteq 1 .. k
      BY <1>1
    <3> QED BY <3>1
  <2>4. ASSUME t.conn.channel = s.conn.channel,
               t.conn.sent_datagrams = s.conn.sent_datagrams, t.out = s.out
        PROVE  k \in G
    <3> HIDE DEF NewOne, SentOne
    <3> QED BY <2>1, <2>2, <2>3, <2>4
  <2>5. ASSUME NEW b, NEW u, u = SendReliable(s.conn, b),
               t.conn.channel = u.channel, t.conn.sent_datagrams = u.sent_datagrams,
               t.out = s.out \union {Sent(d.to, d.from, s.conn, b)},
               Answers(d, run, k, s.conn.send_ordering_index, b)
        PROVE  k \in G
    <3> DEFINE m == s.conn.send_sequence_number
               e0 == Sent(d.to, d.from, s.conn, b)
    <3>1. /\ u.channel = s.conn.channel
          /\ DOMAIN u.sent_datagrams = DOMAIN s.conn.sent_datagrams \union {m}
          /\ u.sent_datagrams[m] = NextFrame(s.conn, b)
          /\ \A n \in DOMAIN s.conn.sent_datagrams :
                u.sent_datagrams[n] = s.conn.sent_datagrams[n]
      BY <2>1, <2>5, SendReliableFields
    <3>2. /\ NextFrame(s.conn, b).ordering_index = s.conn.send_ordering_index
          /\ NextFrame(s.conn, b).body = b
      BY <2>1, NextFrameFields DEF IsConnection
    <3>3. NewOne(k, NextFrame(s.conn, b))
      BY <2>5, <3>2
    <3>4. SentOne(k, e0)
      <4>1. /\ "datagram" \in DOMAIN e0
            /\ e0.datagram.frame.ordering_index =
                  s.conn.send_ordering_index % IndexMod
            /\ e0.datagram.frame.body = b
        BY <2>1, SentFields
      <4> HIDE DEF e0
      <4> QED BY <2>5, <4>1
    <3>5. \A n \in DOMAIN t.conn.sent_datagrams :
             NewOne(k, t.conn.sent_datagrams[n])
      <4> HIDE DEF NewOne, m
      <4> QED BY <2>2, <2>3, <2>5, <3>1, <3>3
    <3>6. \A e \in t.out : SentOne(k, e)
      <4> HIDE DEF SentOne, e0
      <4> QED BY <2>2, <2>3, <2>5, <3>4 DEF e0
    <3> HIDE DEF NewOne, SentOne
    <3> QED BY <2>1, <2>2, <2>5, <3>1, <3>5, <3>6
  <2>6. ASSUME NEW state \in {"Connected", "Disconnected"},
               t.conn = InState(s.conn, state), t.out = s.out
        PROVE  k \in G
    <3>1. /\ t.conn.channel = s.conn.channel
          /\ t.conn.sent_datagrams = s.conn.sent_datagrams
      BY <2>1, <2>6, InStateFields
    <3> QED BY <2>4, <2>6, <3>1
  <2>7. CASE t.conn = s.conn /\ t.out = s.out
    BY <2>4, <2>7
  <2>8. CASE /\ Due(d).ready[k] = "ConnectionRequest" /\ d.to = Server
             /\ t.conn = SendReliable(s.conn, "ConnectionRequestAccepted")
             /\ t.out = s.out \union
                  {Sent(Server, d.from, s.conn, "ConnectionRequestAccepted")}
    <3>1. Answers(d, run, k, s.conn.send_ordering_index, "ConnectionRequestAccepted")
      BY <2>8 DEF Answers
    <3> QED BY <2>5, <2>8, <3>1
  <2>9. CASE /\ Due(d).ready[k] = "ConnectionRequestAccepted" /\ d.to \in Client
             /\ t.conn = InState(SendReliable(s.conn, "NewIncomingConnection"),
                                 "Connected")
             /\ t.out = s.out \union
                  {Sent(d.to, d.from, s.conn, "NewIncomingConnection")}
    <3> DEFINE u == SendReliable(s.conn, "NewIncomingConnection")
    <3>1. Answers(d, run, k, s.conn.send_ordering_index, "NewIncomingConnection")
      BY <2>9 DEF Answers
    <3>2. IsConnection(u)
      BY <2>1, SendReliableFields
    <3>3. /\ t.conn.channel = u.channel
          /\ t.conn.sent_datagrams = u.sent_datagrams
      <4> HIDE DEF u
      <4> QED BY <2>9, <3>2, InStateFields DEF u
    <3> QED BY <2>5, <2>9, <3>1, <3>3
  <2> QED
    <3> HIDE DEF G
    <3> QED BY <2>1, <2>6, <2>7, <2>8, <2>9 DEF Handled
<1>4. \A k \in 0 .. N : k \in G
  <2> HIDE DEF N, G
  <2> QED BY <1>1, <1>2, <1>3, StepsInduction
<1> QED BY <1>4

(* A frame that is recorded or sent was recorded before, or is new.        *)
LEMMA FramesEvolve ==
    ASSUME TypeInv, NEW p \in Peer, NEW q \in Remote(p), Evolves(p, q)
    PROVE  /\ \A f \in Recorded(p, q)' :
                 f \in Recorded(p, q) \/ Adds(p, q, f.ordering_index, f.body)
           /\ \A e \in News(p, q) : "datagram" \in DOMAIN e =>
                 \/ \E f \in Recorded(p, q) :
                       /\ e.datagram.frame.ordering_index = f.ordering_index % IndexMod
                       /\ e.datagram.frame.body = f.body
                 \/ \E i : /\ Adds(p, q, i, e.datagram.frame.body)
                          /\ e.datagram.frame.ordering_index = i % IndexMod
<1> DEFINE conn == connections[p][q]
           new == connections'[p][q]
           OldFrame(f) == f \in Recorded(p, q)
           NewFrame(f) == Adds(p, q, f.ordering_index, f.body)
           OldData(e) == \E f \in Recorded(p, q) :
                       /\ e.datagram.frame.ordering_index = f.ordering_index % IndexMod
                       /\ e.datagram.frame.body = f.body
           NewData(e) == \E i : /\ Adds(p, q, i, e.datagram.frame.body)
                               /\ e.datagram.frame.ordering_index = i % IndexMod
           Traced == /\ \A f \in Recorded(p, q)' : OldFrame(f) \/ NewFrame(f)
                     /\ \A e \in News(p, q) :
                           "datagram" \in DOMAIN e => OldData(e) \/ NewData(e)
<1>1. /\ Holds(p, q) => IsConnection(conn) /\ Recorded(p, q) = Range(conn.sent_datagrams)
      /\ Holds(p, q)' => Recorded(p, q)' = Range(new.sent_datagrams)
      /\ ~ Holds(p, q)' => Recorded(p, q)' = {}
  BY DEF TypeInv, ConnectionsInv, Holds, Recorded
<1>2. ASSUME NEW old, IsConnection(old), NEW b,
             NEW after, after = SendReliable(old, b),
             Adds(p, q, old.send_ordering_index, b)
      PROVE  /\ \A f \in Range(after.sent_datagrams) :
                   f \in Range(old.sent_datagrams) \/ NewFrame(f)
             /\ NewData(Sent(p, q, old, b))
  <2>1. NewFrame(NextFrame(old, b))
    BY <1>2, NextFrameFields DEF IsConnection
  <2>2. ASSUME NEW f \in Range(after.sent_datagrams)
        PROVE  f \in Range(old.sent_datagrams) \/ NewFrame(f)
    <3>1. PICK n \in DOMAIN after.sent_datagrams : f = after.sent_datagrams[n]
      BY DEF Range
    <3>2. n \in DOMAIN old.sent_datagrams => f = old.sent_datagrams[n]
      BY <1>2, <3>1, SendReliableFields
    <3>3. n \notin DOMAIN old.sent_datagrams => f = NextFrame(old, b)
      BY <1>2, <3>1, SendReliableFields
    <3> HIDE DEF NewFrame
    <3> QED BY <2>1, <3>2, <3>3 DEF Range
  <2>3. NewData(Sent(p, q, old, b))
    <3>1. /\ Sent(p, q, old, b).datagram.frame.ordering_index =
               old.send_ordering_index % IndexMod
          /\ Sent(p, q, old, b).datagram.frame.body = b
      BY <1>2, SentFields
    <3> QED BY <1>2, <3>1
  <2> QED BY <2>2, <2>3
<1>3. CASE Stays(p, q)
  BY <1>1, <1>3 DEF Stays
<1>4. CASE Left(p, q)
  <2>1. ASSUME NEW e \in News(p, q) PROVE NewData(e)
    <3>1. /\ q \in ConnectedTo(p) /\ IsConnection(conn)
          /\ e = Sent(p, q, conn, "DisconnectionNotification")
      BY <1>1, <1>4 DEF Left, ConnectedTo, Holds
    <3>2. Adds(p, q, conn.send_ordering_index, "DisconnectionNotification")
      BY <1>4, <3>1 DEF Adds
    <3> HIDE DEF NewData
    <3> QED BY <1>2, <3>1, <3>2
  <2> QED BY <1>1, <1>4, <2>1 DEF Left
<1>5. CASE Opened(p, q)
  <2>1. CASE new = NewConnection /\ News(p, q) = {}
    <3>1. Range(new.sent_datagrams) = {}
      BY <2>1, NewConnectionFields DEF Range
    <3> QED BY <1>1, <1>5, <2>1, <3>1 DEF Opened
  <2>2. CASE /\ p \in Client /\ connecting[p]
             /\ new = SendReliable(NewConnection, "ConnectionRequest")
             /\ News(p, q) \subseteq {Sent(p, q, NewConnection, "ConnectionRequest")}
    <3>1. Adds(p, q, 0, "ConnectionRequest")
      BY <1>5, <2>2 DEF Adds
    <3>2. /\ IsConnection(NewConnection) /\ NewConnection.send_ordering_index = 0
          /\ Range(NewConnection.sent_datagrams) = {}
      BY NewConnectionFields DEF Range
    <3>3. /\ \A f \in Range(new.sent_datagrams) : NewFrame(f)
          /\ NewData(Sent(p, q, NewConnection, "ConnectionRequest"))
      <4> HIDE DEF NewFrame, NewData, new
      <4> QED BY <1>2, <2>2, <3>1, <3>2
    <3>4. Holds(p, q)' /\ Recorded(p, q)' = Range(new.sent_datagrams)
      BY <1>1, <1>5 DEF Opened
    <3> HIDE DEF NewFrame, NewData, new
    <3> QED BY <2>2, <3>3, <3>4 DEF NewFrame, NewData
  <2> QED BY <1>5, <2>1, <2>2 DEF Opened
<1>6. CASE Sends(p, q)
  <2>1. /\ Holds(p, q) /\ Holds(p, q)'
        /\ new = SendReliable(conn, "GamePacket")
        /\ News(p, q) \subseteq {Sent(p, q, conn, "GamePacket")}
    BY <1>6 DEF Sends, ConnectedTo, Holds
  <2>2. Adds(p, q, conn.send_ordering_index, "GamePacket")
    BY <1>6 DEF Adds
  <2> HIDE DEF NewFrame, NewData, new, conn
  <2>3. /\ \A f \in Range(new.sent_datagrams) :
              f \in Range(conn.sent_datagrams) \/ NewFrame(f)
        /\ NewData(Sent(p, q, conn, "GamePacket"))
    BY <1>1, <1>2, <2>1, <2>2
  <2> QED BY <1>1, <2>1, <2>3 DEF NewFrame, NewData
<1>7. CASE Takes(p, q)
  <2>1. PICK d \in net : \E seen, run : TakesFrom(p, q, d, seen, run)
    BY <1>7 DEF Takes
  <2>2. PICK seen, run : TakesFrom(p, q, d, seen, run)
    BY <2>1
  <2> DEFINE N == Len(Due(d).ready)
  <2>3. /\ "datagram" \in DOMAIN d /\ Holds(p, q) /\ Holds(p, q)'
        /\ d.to = p /\ d.from = q /\ IsRun(d, seen, run)
        /\ Conn(d) = conn /\ new = run[N].conn /\ News(p, q) \subseteq run[N].out
    BY <2>2 DEF TakesFrom, Conn
  <2>8. N \in 0 .. N
    BY <2>3 DEF IsRun
  <2>4. \A j \in 1 .. N : \A i, b : Answers(d, run, j, i, b) => Adds(p, q, i, b)
    BY <2>2 DEF Adds
  <2>5. /\ \A n \in DOMAIN run[N].conn.sent_datagrams :
                    LET f == run[N].conn.sent_datagrams[n]
                    IN  \/ f \in Range(Conn(d).sent_datagrams)
                        \/ \E j \in 1 .. N :
                              Answers(d, run, j, f.ordering_index, f.body)
        /\ \A e \in run[N].out :
                    /\ "datagram" \in DOMAIN e
                    /\ \E j \in 1 .. N : \E i :
                          /\ Answers(d, run, j, i, e.datagram.frame.body)
                          /\ e.datagram.frame.ordering_index = i % IndexMod
    BY <2>3, <2>8, RunFrames
  <2>6. \A f \in Range(new.sent_datagrams) : OldFrame(f) \/ NewFrame(f)
    <3> SUFFICES ASSUME NEW n \in DOMAIN run[N].conn.sent_datagrams
                 PROVE  \/ OldFrame(run[N].conn.sent_datagrams[n])
                        \/ NewFrame(run[N].conn.sent_datagrams[n])
      BY <2>3 DEF Range
    <3> QED BY <1>1, <2>3, <2>4, <2>5
  <2>7. \A e \in News(p, q) : NewData(e)
    BY <2>3, <2>4, <2>5
  <2> HIDE DEF OldFrame, NewFrame, NewData, new
  <2> QED BY <1>1, <2>3, <2>6, <2>7 DEF OldFrame, NewFrame, NewData
<1>8. CASE IsAcked(p, q)
  <2>1. PICK ranges : /\ Holds(p, q) /\ Holds(p, q)' /\ News(p, q) = {}
                      /\ new = Acked(conn, ranges)
    BY <1>8 DEF IsAcked
  <2>2. /\ DOMAIN new.sent_datagrams \subseteq DOMAIN conn.sent_datagrams
        /\ \A n \in DOMAIN new.sent_datagrams :
              new.sent_datagrams[n] = conn.sent_datagrams[n]
    <3>1. IsConnection(conn)
      BY <1>1, <2>1
    <3> HIDE DEF conn, new
    <3> QED BY <2>1, <3>1, AckedFields
  <2> QED BY <1>1, <2>1, <2>2 DEF Range
<1>9. CASE Ticks(p, q)
  <2>1. PICK k \in Nat : /\ Holds(p, q) /\ Holds(p, q)'
                         /\ new = Maintained(conn, k)
                         /\ News(p, q) \subseteq Outbound(p, q, conn, k)
    BY <1>9 DEF Ticks
  <2>2. /\ DOMAIN new.sent_datagrams =
             (DOMAIN conn.sent_datagrams \ Overdue(conn, k)) \union DOMAIN Resent(conn, k)
        /\ \A n \in DOMAIN conn.sent_datagrams \ Overdue(conn, k) :
              new.sent_datagrams[n] = conn.sent_datagrams[n]
        /\ \A n \in DOMAIN Resent(conn, k) :
              /\ new.sent_datagrams[n] = Resent(conn, k)[n]
              /\ Resent(conn, k)[n] \in Range(conn.sent_datagrams)
    <3>1. Overdue(conn, k) \subseteq DOMAIN conn.sent_datagrams
      BY <1>1, <2>1, OverdueIsRecorded
    <3>2. IsConnection(conn)
      BY <1>1, <2>1
    <3>3. /\ DOMAIN new.sent_datagrams =
               (DOMAIN conn.sent_datagrams \ Overdue(conn, k)) \union DOMAIN Resent(conn, k)
          /\ \A n \in DOMAIN conn.sent_datagrams \ Overdue(conn, k) :
                new.sent_datagrams[n] = conn.sent_datagrams[n]
          /\ \A n \in DOMAIN Resent(conn, k) :
                /\ new.sent_datagrams[n] = Resent(conn, k)[n]
                /\ \E s \in Overdue(conn, k) : Resent(conn, k)[n] = conn.sent_datagrams[s]
      <4> HIDE DEF conn, new
      <4>1. MaintainedAs(conn, k, new)
        BY <2>1, <3>2, MaintainedFields
      <4> QED BY <4>1 DEF MaintainedAs
    <3> QED BY <3>1, <3>3 DEF Range
  <2>3. Range(new.sent_datagrams) \subseteq Range(conn.sent_datagrams)
    BY <2>2 DEF Range
  <2>4. ASSUME NEW e \in News(p, q), "datagram" \in DOMAIN e PROVE OldData(e)
    <3>1. PICK n \in DOMAIN Resent(conn, k) : e = Data(p, q, n, Resent(conn, k)[n])
      BY <2>1, <2>4 DEF Outbound, Ack
    <3>2. IsFrame(Resent(conn, k)[n]) /\ n \in Nat
      <4>1. Resent(conn, k)[n] \in Range(conn.sent_datagrams)
        BY <2>2
      <4>2. DOMAIN Resent(conn, k) =
              conn.send_sequence_number ..
                (conn.send_sequence_number + Cardinality(Overdue(conn, k)) - 1)
        <5>1. IsConnection(conn)
          BY <1>1, <2>1
        <5> HIDE DEF conn
        <5>2. MaintainedAs(conn, k, Maintained(conn, k))
          BY <5>1, MaintainedFields
        <5> QED BY <5>2 DEF MaintainedAs
      <4>3. conn.send_sequence_number \in Nat /\ Cardinality(Overdue(conn, k)) \in Nat
        BY <1>1, <2>1, OverdueIsRecorded DEF IsConnection
      <4> QED BY <1>1, <2>1, <4>1, <4>2, <4>3 DEF Range, IsConnection
    <3>3. /\ e.datagram.frame.ordering_index =
               Resent(conn, k)[n].ordering_index % IndexMod
          /\ e.datagram.frame.body = Resent(conn, k)[n].body
      BY <3>1, <3>2, DataFields
    <3> QED BY <1>1, <2>1, <2>2, <3>3
  <2> QED BY <1>1, <2>1, <2>3, <2>4
<1> QED BY <1>3, <1>4, <1>5, <1>6, <1>7, <1>8, <1>9 DEF Evolves

(* The step leaves state and channel as they are.                          *)
Keeps(p, q) ==
    /\ Holds(p, q) /\ Holds(p, q)' /\ StillOpen(p, q)
    /\ connections'[p][q].state = connections[p][q].state
    /\ connections'[p][q].channel = connections[p][q].channel
    /\ LET n == connections[p][q].send_ordering_index
       IN  \/ connections'[p][q].send_ordering_index = n
           \/ /\ connections[p][q].state = "Connected"
              /\ games < MaxGames /\ games' = games + 1
              /\ connections'[p][q].send_ordering_index = n + 1

LEMMA MostStepsKeep ==
    ASSUME TypeInv, NEW p \in Peer, NEW q \in Remote(p), Evolves(p, q)
    PROVE  Left(p, q) \/ Opened(p, q) \/ Takes(p, q) \/ Keeps(p, q)
<1> DEFINE conn == connections[p][q]
           new == connections'[p][q]
<1>1. Holds(p, q) => IsConnection(conn)
  BY DEF TypeInv, ConnectionsInv, Holds
<1>2. CASE Stays(p, q)
  BY <1>2 DEF Stays, Keeps
<1>3. CASE Sends(p, q)
  <2>1. /\ Holds(p, q) /\ Holds(p, q)' /\ StillOpen(p, q)
        /\ new = SendReliable(conn, "GamePacket") /\ conn.state = "Connected"
        /\ games < MaxGames /\ games' = games + 1
    BY <1>3 DEF Sends, ConnectedTo, Holds
  <2>2. IsConnection(conn)
    BY <1>1, <2>1
  <2>3. /\ new.state = conn.state /\ new.channel = conn.channel
        /\ new.send_ordering_index = conn.send_ordering_index + 1
    <3> HIDE DEF conn, new
    <3> QED BY <2>1, <2>2, SendReliableFields
  <2> QED BY <2>1, <2>3 DEF Keeps
<1>4. CASE IsAcked(p, q)
  <2>1. PICK ranges : /\ Holds(p, q) /\ Holds(p, q)' /\ StillOpen(p, q)
                      /\ new = Acked(conn, ranges)
    BY <1>4 DEF IsAcked
  <2>2. IsConnection(conn)
    BY <1>1, <2>1
  <2>3. /\ new.state = conn.state /\ new.channel = conn.channel
        /\ new.send_ordering_index = conn.send_ordering_index
    <3> HIDE DEF conn, new
    <3> QED BY <2>1, <2>2, AckedFields
  <2> QED BY <2>1, <2>3 DEF Keeps
<1>5. CASE Ticks(p, q)
  <2>1. PICK k \in Nat : /\ Holds(p, q) /\ Holds(p, q)' /\ StillOpen(p, q)
                         /\ new = Maintained(conn, k)
    BY <1>5 DEF Ticks
  <2>2. IsConnection(conn)
    BY <1>1, <2>1
  <2>3. /\ new.state = conn.state /\ new.channel = conn.channel
        /\ new.send_ordering_index = conn.send_ordering_index
    <3> HIDE DEF conn, new
    <3>1. MaintainedAs(conn, k, new)
      BY <2>1, <2>2, MaintainedFields
    <3> QED BY <3>1 DEF MaintainedAs
  <2> QED BY <2>1, <2>3 DEF Keeps
<1> QED BY <1>2, <1>3, <1>4, <1>5 DEF Evolves

(* What the channel hands up or holds back was held back before, or is the *)
(* message that has just come.                                             *)
CameFrom(d, i, b) ==
    \/ i \in DOMAIN Conn(d).channel.buffered /\ b = Conn(d).channel.buffered[i]
    \/ i = d.datagram.frame.ordering_index /\ b = d.datagram.frame.body

LEMMA DueCameFrom ==
    ASSUME TypeInv, NEW d \in net, "datagram" \in DOMAIN d, Holds(d.to, d.from)
    PROVE  LET e == Conn(d).channel.expected_index
               o == Due(d)
           IN  /\ e \in Nat /\ o.state.expected_index \in Nat
               /\ Len(o.ready) = o.state.expected_index - e
               /\ Len(o.ready) \in Nat
               /\ \A k \in 1 .. Len(o.ready) : CameFrom(d, e + k - 1, o.ready[k])
               /\ \A i \in DOMAIN o.state.buffered :
                     CameFrom(d, i, o.state.buffered[i])
<1> DEFINE c == Conn(d).channel
           e == c.expected_index
           o == Due(d)
           f == d.datagram.frame
           held == Put(c.buffered, f.ordering_index, f.body)
<1>1. /\ IsConnection(Conn(d)) /\ Len(o.ready) \in Nat
      /\ f.ordering_index \in Nat
  <2>1. d.to \in Peer /\ Len(o.ready) \in Nat
    BY TakenInIsHandling DEF Holds
  <2>2. f.ordering_index \in Nat
    BY DEF TypeInv, NetInv, IsDatagram, IsFrame
  <2> QED BY <2>1, <2>2 DEF TypeInv, ConnectionsInv, Conn, Holds
<1>2. /\ ChannelState(c) /\ e \notin DOMAIN c.buffered /\ e \in Nat
  BY <1>1 DEF IsConnection, ChannelState
<1>3. \A i \in DOMAIN held : CameFrom(d, i, held[i])
  BY DEF CameFrom, Put
<1>4. o = ProcessOrdered(c, f.ordering_index, f.body)
  BY DEF Due
<1> HIDE DEF c, o, f
<1>5. /\ ChannelState(o.state)
      /\ Len(o.ready) = o.state.expected_index - e
      /\ \A k \in 1 .. (o.state.expected_index - e) :
            e + k - 1 \in DOMAIN held /\ o.ready[k] = held[e + k - 1]
      /\ \A i \in DOMAIN o.state.buffered :
            \/ i \in DOMAIN held /\ o.state.buffered[i] = held[i]
            \/ i \in DOMAIN c.buffered /\ o.state.buffered[i] = c.buffered[i]
  BY <1>1, <1>2, <1>4, ProcessOrderedRun
<1> HIDE DEF held
<1>6. \A i \in DOMAIN c.buffered : CameFrom(d, i, c.buffered[i])
  BY DEF CameFrom, c
<1>7. o.state.expected_index \in Nat
  BY <1>5 DEF ChannelState
<1>8. \A k \in 1 .. Len(o.ready) : CameFrom(d, e + k - 1, o.ready[k])
  BY <1>3, <1>5
<1>9. \A i \in DOMAIN o.state.buffered : CameFrom(d, i, o.state.buffered[i])
  BY <1>3, <1>5, <1>6
<1> QED BY <1>1, <1>2, <1>5, <1>7, <1>8, <1>9 DEF o, c, e

-----------------------------------------------------------------------------
(***************************************************************************)
(* The order of the handshake.                                             *)
(***************************************************************************)
OneConnect == MaxConnects <= 1

(* c has been accepted, and begins nothing any more.                       *)
Past(c) ==
    /\ connects[c] >= 1
    /\ ~ connecting[c]
    /\ Holds(c, Server) => connections[c][Server].state # "Connecting"

(* c's confirmation exists somewhere, or has arrived.                      *)
Confirmed(c) ==
    \/ \E d \in net : /\ d.from = c /\ "datagram" \in DOMAIN d
                      /\ d.datagram.frame.body = "NewIncomingConnection"
    \/ \E f \in Recorded(c, Server) : f.body = "NewIncomingConnection"
    \/ /\ Holds(Server, c)
       /\ \/ connections[Server][c].state = "Connected"
          \/ LET buffered == connections[Server][c].channel.buffered
             IN  \E i \in DOMAIN buffered : buffered[i] = "NewIncomingConnection"

HandshakeInv ==
    \A c \in Client :
       /\ connecting[c] \/ Holds(c, Server) => connects[c] >= 1
       /\ Confirmed(c) => Past(c)

LEMMA RunStates ==
    ASSUME TypeInv, NEW d \in net, "datagram" \in DOMAIN d, Holds(d.to, d.from),
           NEW seen, NEW run, IsRun(d, seen, run)
    PROVE  \A k \in 0 .. Len(Due(d).ready) :
              /\ run[k].conn.state = "Connecting" => Conn(d).state = "Connecting"
              /\ d.to = Server /\ run[k].conn.state = "Connected" =>
                    \/ Conn(d).state = "Connected"
                    \/ \E j \in 1 .. k : Due(d).ready[j] = "NewIncomingConnection"
              /\ /\ d.to \in Client
                 /\ \E j \in 1 .. k : Due(d).ready[j] = "ConnectionRequestAccepted"
                 => ~ run[k].connecting /\ run[k].conn.state # "Connecting"
<1> DEFINE N == Len(Due(d).ready)
           Confirms(k) == \E j \in 1 .. k : Due(d).ready[j] = "NewIncomingConnection"
           Accepts(k) == \E j \in 1 .. k : Due(d).ready[j] = "ConnectionRequestAccepted"
           G == {k \in 0 .. N :
              /\ run[k].conn.state = "Connecting" => Conn(d).state = "Connecting"
              /\ d.to = Server /\ run[k].conn.state = "Connected" =>
                    Conn(d).state = "Connected" \/ Confirms(k)
              /\ d.to \in Client /\ Accepts(k) =>
                    ~ run[k].connecting /\ run[k].conn.state # "Connecting"}
<1>1. N \in Nat
  BY DEF IsRun
<1>2. 0 \in G
  <2>1. run[0].conn.state = Conn(d).state
    BY TakenInIsHandling DEF Holds, IsRun
  <2>2. ~ Accepts(0)
    OBVIOUS
  <2> QED BY <1>1, <2>1, <2>2
<1>3. ASSUME NEW k \in 1 .. N, k - 1 \in G PROVE k \in G
  <2> DEFINE s == run[k - 1]
             t == run[k]
             b == Due(d).ready[k]
  <2>1. /\ Handled(d.to, d.from, s, b, seen, t)
        /\ IsConnection(s.conn)
        /\ k \in 0 .. N /\ k - 1 \in 0 .. N
        /\ t.connecting \in BOOLEAN
    BY <1>1 DEF IsRun, IsHandling
  <2>2. /\ Confirms(k) <=> Confirms(k - 1) \/ b = "NewIncomingConnection"
        /\ Accepts(k) <=> Accepts(k - 1) \/ b = "ConnectionRequestAccepted"
    <3>1. \A j : j \in 1 .. k <=> j \in 1 .. (k - 1) \/ j = k
      BY <1>1
    <3> QED BY <3>1
  <2>3. /\ \A a : /\ IsConnection(SendReliable(s.conn, a))
                  /\ SendReliable(s.conn, a).state = s.conn.state
        /\ \A a, state : state \in {"Connected", "Disconnected"} =>
              /\ InState(s.conn, state).state = state
              /\ InState(SendReliable(s.conn, a), state).state = state
    <3>1. \A a : /\ IsConnection(SendReliable(s.conn, a))
                 /\ SendReliable(s.conn, a).state = s.conn.state
      BY <2>1, SendReliableFields
    <3> QED BY <2>1, <3>1, InStateFields
  <2>4. \/ t.conn.state = s.conn.state /\ t.connecting = s.connecting
           /\ ~ (d.to \in Client /\ b = "ConnectionRequestAccepted")
        \/ t.conn.state = "Disconnected" /\ t.connecting = s.connecting
           /\ b = "DisconnectionNotification"
        \/ t.conn.state = "Connected" /\ b = "NewIncomingConnection"
           /\ d.to = Server
        \/ t.conn.state = "Connected" /\ t.connecting = FALSE /\ d.to \in Client
    <3>1. d.to = Server => d.to \notin Client
      BY PeersApart
    <3> HIDE DEF s, t, b
    <3> QED BY <2>1, <2>3, <3>1 DEF Handled
  <2>5. d.to = Server => d.to \notin Client
    BY PeersApart
  <2> HIDE DEF Confirms, Accepts, b
  <2> QED BY <1>3, <2>1, <2>2, <2>4, <2>5
<1>4. \A k \in 0 .. N : k \in G
  <2> HIDE DEF N, G
  <2> QED BY <1>1, <1>2, <1>3, StepsInduction
<1> QED BY <1>4

LEMMA PastStays ==
    ASSUME TypeInv, OneConnect, NEW p \in Peer, Acts(p), NEW c \in Client, Past(c)
    PROVE  Past(c)'
<1>1. connects'[c] >= 1 /\ ~ connecting'[c]
  <2>1. connects[c] \in Nat /\ connects[c] >= 1 /\ ~ connecting[c]
    BY DEF Past, TypeInv, VariablesInv
  <2>2. Calls(c)
    BY DEF Acts
  <2> QED BY <2>1, <2>2, BoundsAssumption DEF Calls, OneConnect
<1>2. ASSUME Holds(c, Server)' PROVE connections'[c][Server].state # "Connecting"
  <2>1. c \in Peer /\ Server \in Remote(c)
    BY PeersApart
  <2>2. CASE c # p
    BY <1>2, <2>1, <2>2 DEF Acts, Holds, Past
  <2>3. CASE c = p
    <3>1. Evolves(c, Server)
      BY <2>1, <2>3 DEF Acts
    <3>2. CASE Left(c, Server)
      BY <1>2, <3>2 DEF Left
    <3>3. CASE Opened(c, Server)
      BY <3>3, PeersApart DEF Opened, Past
    <3>4. CASE Keeps(c, Server)
      BY <3>4 DEF Keeps, Past
    <3>5. CASE Takes(c, Server)
      <4>0. PICK d \in net : \E seen, run : TakesFrom(c, Server, d, seen, run)
        BY <3>5 DEF Takes
      <4>1. PICK seen, run : TakesFrom(c, Server, d, seen, run)
        BY <4>0
      <4> DEFINE N == Len(Due(d).ready)
      <4>2. /\ "datagram" \in DOMAIN d /\ Holds(d.to, d.from)
            /\ IsRun(d, seen, run)
            /\ Conn(d) = connections[c][Server]
            /\ connections'[c][Server] = run[N].conn
            /\ Holds(c, Server)
        BY <4>1 DEF TakesFrom, Conn
      <4>3. N \in 0 .. N
        BY <4>2 DEF IsRun
      <4>4. run[N].conn.state = "Connecting" => Conn(d).state = "Connecting"
        BY <4>2, <4>3, RunStates
      <4> QED BY <4>2, <4>4 DEF Past
    <3> QED BY <2>1, <3>1, <3>2, <3>3, <3>4, <3>5, MostStepsKeep
  <2> QED BY <2>2, <2>3
<1> QED BY <1>1, <1>2 DEF Past

LEMMA ConfirmedBefore ==
    ASSUME TypeInv, TypeInv', HandshakeInv, NEW p \in Peer, Acts(p),
           NEW c \in Client, Confirmed(c)'
    PROVE  Confirmed(c) \/ Past(c)'
<1>0. c \in Peer /\ Server \in Peer /\ Server \in Remote(c) /\ c \in Remote(Server)
      /\ c # Server
  BY PeersApart
<1>1. ASSUME NEW i, Adds(c, Server, i, "NewIncomingConnection")
      PROVE  Past(c)'
  <2>0. PICK d \in net : \E seen, run : \E k \in 1 .. Len(Due(d).ready) :
           /\ TakesFrom(c, Server, d, seen, run)
           /\ Answers(d, run, k, i, "NewIncomingConnection")
    BY <1>1 DEF Adds
  <2>1. PICK seen, run : \E k \in 1 .. Len(Due(d).ready) :
           /\ TakesFrom(c, Server, d, seen, run)
           /\ Answers(d, run, k, i, "NewIncomingConnection")
    BY <2>0
  <2> DEFINE N == Len(Due(d).ready)
  <2>2. PICK k \in 1 .. N :
           /\ TakesFrom(c, Server, d, seen, run)
           /\ Answers(d, run, k, i, "NewIncomingConnection")
    BY <2>1
  <2>3. /\ "datagram" \in DOMAIN d /\ Holds(d.to, d.from) /\ d.to = c
        /\ IsRun(d, seen, run) /\ Holds(c, Server)
        /\ connections'[c][Server] = run[N].conn
        /\ connecting'[c] = run[N].connecting
        /\ Due(d).ready[k] = "ConnectionRequestAccepted"
    BY <2>2 DEF TakesFrom, Answers
  <2>4. N \in 0 .. N
    BY <2>3 DEF IsRun
  <2>5. ~ run[N].connecting /\ run[N].conn.state # "Connecting"
    BY <2>3, <2>4, RunStates
  <2>6. connects'[c] >= 1
    <3>1. connects[c] >= 1 /\ connects[c] \in Nat
      BY <2>3 DEF HandshakeInv, TypeInv, VariablesInv
    <3>2. Calls(c)
      BY DEF Acts
    <3> QED BY <3>1, <3>2 DEF Calls
  <2> QED BY <2>3, <2>5, <2>6 DEF Past
<1>2. \/ p = c /\ Evolves(c, Server)
      \/ p # c /\ News(c, Server) = {} /\ connections'[c] = connections[c]
  BY <1>0 DEF Acts
<1>3. CASE \E d \in net' : /\ d.from = c /\ "datagram" \in DOMAIN d
                           /\ d.datagram.frame.body = "NewIncomingConnection"
  <2>1. PICK d \in net' : /\ d.from = c /\ "datagram" \in DOMAIN d
                          /\ d.datagram.frame.body = "NewIncomingConnection"
    BY <1>3
  <2>2. CASE d \in net
    BY <2>1, <2>2 DEF Confirmed
  <2>3. CASE d \notin net
    <3>1. d.to = Server /\ "offline" \notin DOMAIN d
      BY <1>0, <2>1, PeersApart DEF TypeInv, NetInv, IsDatagram
    <3>2. d \in News(c, Server)
      BY <2>1, <2>3, <3>1 DEF News
    <3>3. \/ \E f \in Recorded(c, Server) : d.datagram.frame.body = f.body
          \/ \E i : Adds(c, Server, i, d.datagram.frame.body)
      BY <1>0, <1>2, <2>1, <3>2, FramesEvolve
    <3> QED BY <1>1, <2>1, <3>3 DEF Confirmed
  <2> QED BY <2>2, <2>3
<1>4. CASE \E f \in Recorded(c, Server)' : f.body = "NewIncomingConnection"
  <2>1. PICK f \in Recorded(c, Server)' : f.body = "NewIncomingConnection"
    BY <1>4
  <2>2. CASE p # c
    <3>1. f \in Recorded(c, Server)
      BY <1>2, <2>1, <2>2 DEF Recorded, Holds
    <3> QED BY <2>1, <3>1 DEF Confirmed
  <2>3. CASE p = c
    <3>1. f \in Recorded(c, Server) \/ Adds(c, Server, f.ordering_index, f.body)
      BY <1>0, <1>2, <2>1, <2>3, FramesEvolve
    <3> QED BY <1>1, <2>1, <3>1 DEF Confirmed
  <2> QED BY <2>2, <2>3
<1>5. CASE /\ Holds(Server, c)'
           /\ \/ connections'[Server][c].state = "Connected"
              \/ LET buffered == connections'[Server][c].channel.buffered
                 IN  \E i \in DOMAIN buffered : buffered[i] = "NewIncomingConnection"
  <2>1. CASE p # Server
    BY <1>0, <1>5, <2>1 DEF Acts, Holds, Confirmed
  <2>2. CASE p = Server
    <3>1. Evolves(Server, c)
      BY <1>0, <2>2 DEF Acts
    <3>2. CASE Left(Server, c)
      BY <1>5, <3>2 DEF Left
    <3>3. CASE Opened(Server, c)
      BY <1>5, <3>3, NewConnectionFields, PeersApart DEF Opened
    <3>4. CASE Keeps(Server, c)
      BY <1>5, <3>4 DEF Keeps, Confirmed
    <3>5. CASE Takes(Server, c)
      <4>0. PICK d \in net : \E seen, run : TakesFrom(Server, c, d, seen, run)
        BY <3>5 DEF Takes
      <4>1. PICK seen, run : TakesFrom(Server, c, d, seen, run)
        BY <4>0
      <4> DEFINE N == Len(Due(d).ready)
                 e == Conn(d).channel.expected_index
      <4>2. /\ "datagram" \in DOMAIN d /\ Holds(d.to, d.from)
            /\ d.from = c /\ d.to = Server
            /\ IsRun(d, seen, run)
            /\ Conn(d) = connections[Server][c]
            /\ connections'[Server][c] = run[N].conn
            /\ Holds(Server, c)
        BY <4>1 DEF TakesFrom, Conn
      <4>3. N \in 0 .. N
        BY <4>2 DEF IsRun
      <4>4. \A i : CameFrom(d, i, "NewIncomingConnection") => Confirmed(c)
        BY <4>2 DEF CameFrom, Confirmed
      <4>5. /\ run[N].conn.channel = Due(d).state
            /\ \A k \in 1 .. N : CameFrom(d, e + k - 1, Due(d).ready[k])
            /\ \A i \in DOMAIN Due(d).state.buffered :
                  CameFrom(d, i, Due(d).state.buffered[i])
        BY <4>2, <4>3, RunFrames, DueCameFrom
      <4>6. CASE connections'[Server][c].state = "Connected"
        <5>1. \/ Conn(d).state = "Connected"
              \/ \E j \in 1 .. N : Due(d).ready[j] = "NewIncomingConnection"
          BY <4>2, <4>3, <4>6, RunStates
        <5> QED BY <4>2, <4>4, <4>5, <5>1 DEF Confirmed
      <4>7. CASE LET buffered == connections'[Server][c].channel.buffered
                 IN  \E i \in DOMAIN buffered : buffered[i] = "NewIncomingConnection"
        BY <4>2, <4>4, <4>5, <4>7
      <4> QED BY <1>5, <4>6, <4>7
    <3> QED BY <1>0, <3>1, <3>2, <3>3, <3>4, <3>5, MostStepsKeep
  <2> QED BY <2>1, <2>2
<1> QED BY <1>3, <1>4, <1>5 DEF Confirmed

LEMMA HandshakeStep ==
    ASSUME TypeInv, TypeInv', OneConnect, HandshakeInv, NEW p \in Peer, Acts(p)
    PROVE  HandshakeInv'
<1> SUFFICES ASSUME NEW c \in Client
             PROVE  /\ connecting'[c] \/ Holds(c, Server)' => connects'[c] >= 1
                    /\ Confirmed(c)' => Past(c)'
  BY DEF HandshakeInv
<1>0. c \in Peer /\ Server \in Remote(c)
  BY PeersApart
<1>1. Confirmed(c)' => Past(c)'
  BY ConfirmedBefore, PastStays DEF HandshakeInv
<1>2. Calls(c) /\ connects[c] \in Nat
  BY DEF Acts, TypeInv, VariablesInv
<1>3. ASSUME connecting'[c] PROVE connects'[c] >= 1
  BY <1>2, <1>3 DEF Calls, HandshakeInv
<1>4. ASSUME Holds(c, Server)' PROVE connects'[c] >= 1
  <2>1. Holds(c, Server) \/ connecting[c]
    <3>1. CASE p # c
      BY <1>0, <1>4, <3>1 DEF Acts, Holds
    <3>2. CASE p = c
      <4>1. Evolves(c, Server)
        BY <1>0, <3>2 DEF Acts
      <4> QED BY <1>0, <1>4, <4>1, MostStepsKeep, PeersApart
              DEF Left, Opened, Takes, TakesFrom, Keeps
    <3> QED BY <3>1, <3>2
  <2> QED BY <1>2, <2>1 DEF Calls, HandshakeInv
<1> QED BY <1>1, <1>3, <1>4

LEMMA AlwaysHandshake ==
    ASSUME OneConnect
    PROVE  Spec => []HandshakeInv
<1>1. Init => HandshakeInv
  <2> SUFFICES ASSUME Init, NEW c \in Client
               PROVE  /\ connecting[c] \/ Holds(c, Server) => connects[c] >= 1
                      /\ ~ Confirmed(c)
    BY DEF HandshakeInv
  <2>1. \A r \in Peer : DOMAIN connections[r] = {}
    BY DEF Init, EmptyMap
  <2>2. c \in Peer /\ Server \in Peer
    BY PeersApart
  <2>3. ~ Holds(c, Server) /\ ~ Holds(Server, c)
    BY <2>1, <2>2 DEF Holds
  <2> QED BY <2>3 DEF Init, Confirmed, Recorded
<1>2. TypeInv /\ TypeInv' /\ HandshakeInv /\ [Next]_vars => HandshakeInv'
  BY HandshakeStep, NextActs
<1> QED BY <1>1, <1>2, AlwaysTyped, PTL DEF Spec

(***************************************************************************)
(* The server does not take a client for connected that is still waiting   *)
(* to be accepted, if the client connects once: whatever the network does, *)
(* and whoever is shut down or crashes meanwhile.  (A client that connects *)
(* anew replaces its connection while the old confirmation may be on its   *)
(* way.)                                                                   *)
(***************************************************************************)
THEOREM HandshakeOrderHolds ==
    ASSUME OneConnect
    PROVE  Spec => []HandshakeOrder
<1>1. TypeInv /\ HandshakeInv => HandshakeOrder
  <2> SUFFICES ASSUME TypeInv, HandshakeInv, NEW c \in ConnectedTo(Server),
                      Server \in DOMAIN connections[c]
               PROVE  connections[c][Server].state # "Connecting"
    BY DEF HandshakeOrder
  <2>1. c \in Client /\ Confirmed(c)
    BY PeersApart DEF ConnectedTo, Confirmed, Holds, TypeInv, ConnectionsInv
  <2> QED BY <2>1 DEF HandshakeInv, Past, Holds
<1> QED BY <1>1, AlwaysHandshake, AlwaysTyped, PTL

-----------------------------------------------------------------------------
(***************************************************************************)
(* What the user is told.                                                  *)
(***************************************************************************)
NoWrap == MaxGames + 2 < IndexMod

(* Only the handshake's messages bear the first indices of p's stream.     *)
InPlace(p, i, b) ==
    /\ i \in Nat /\ i < IndexMod
    /\ p = Server => (i = 0 <=> b = "ConnectionRequestAccepted")
    /\ p \in Client => /\ i = 0 <=> b = "ConnectionRequest"
                       /\ i = 1 <=> b = "NewIncomingConnection"

Shown(q, opened) == ~ EventsMove => q \in opened

(* How far the connection of p with q is, when the messages below e have   *)
(* been handled and q is, or is not, among the open.                       *)
Stage(p, q, conn, opened, e) ==
    /\ p = Server => /\ e = 0 => conn.send_ordering_index = 0
                     /\ e >= 1 => conn.send_ordering_index >= 1
                     /\ e >= 2 => Shown(q, opened)
                     /\ conn.state = "Connected" => e >= 2
    /\ p \in Client => /\ e = 0 => conn.send_ordering_index = 1
                       /\ e >= 1 => conn.send_ordering_index >= 2 /\ Shown(q, opened)
                       /\ conn.state = "Connected" => e >= 1
    /\ conn.send_ordering_index <= 2 + games

FramesInPlace ==
    /\ \A p \in Peer : \A q \in Remote(p) : \A f \in Recorded(p, q) :
          InPlace(p, f.ordering_index, f.body)
    /\ \A d \in net : "datagram" \in DOMAIN d =>
          InPlace(d.from, d.datagram.frame.ordering_index, d.datagram.frame.body)

InStage(p, q) ==
    LET conn == connections[p][q]
    IN  /\ Stage(p, q, conn, open[p], conn.channel.expected_index)
        /\ \A i \in DOMAIN conn.channel.buffered :
              InPlace(q, i, conn.channel.buffered[i])

ConnectionsInStage ==
    \A p \in Peer : \A q \in Remote(p) : Holds(p, q) => InStage(p, q)

StageInv ==
    /\ games <= MaxGames
    /\ ~ EventsMove => ~ stray
    /\ FramesInPlace
    /\ ConnectionsInStage

LEMMA DueInPlace ==
    ASSUME TypeInv, StageInv, NEW d \in net, "datagram" \in DOMAIN d,
           Holds(d.to, d.from),
           NEW i, NEW b, CameFrom(d, i, b)
    PROVE  InPlace(d.from, i, b)
<1>1. d.to \in Peer /\ d.from \in Remote(d.to)
  BY TakenInIsHandling DEF Holds
<1> QED BY <1>1 DEF StageInv, FramesInPlace, ConnectionsInStage, InStage, CameFrom, Conn

LEMMA RunStages ==
    ASSUME TypeInv, StageInv,
           NEW d \in net, "datagram" \in DOMAIN d, Holds(d.to, d.from),
           NEW seen, NEW run, IsRun(d, seen, run)
    PROVE  \A k \in 0 .. Len(Due(d).ready) :
              /\ Stage(d.to, d.from, run[k].conn, run[k].open,
                       Conn(d).channel.expected_index + k)
              /\ ~ EventsMove => ~ run[k].stray
<1> DEFINE N == Len(Due(d).ready)
           p == d.to
           q == d.from
           e == Conn(d).channel.expected_index
           G == {k \in 0 .. N :
                   /\ Stage(p, q, run[k].conn, run[k].open, e + k)
                   /\ ~ EventsMove => ~ run[k].stray}
<1>1. /\ N \in Nat /\ e \in Nat /\ p \in Peer /\ q \in Remote(p)
      /\ \A k \in 1 .. N : CameFrom(d, e + k - 1, Due(d).ready[k])
  BY TakenInIsHandling, DueCameFrom DEF Holds
<1>2. ~ EventsMove => seen
  BY DEF IsRun
<1>3. games \in Nat
  BY DEF TypeInv, VariablesInv
<1>4. 0 \in G
  <2>1. /\ run[0].conn.state = Conn(d).state
        /\ run[0].conn.send_ordering_index = Conn(d).send_ordering_index
        /\ run[0] = TakenIn(d)
    BY TakenInIsHandling DEF Holds, IsRun
  <2>2. run[0].open = open[p] /\ run[0].stray = stray
    BY <2>1 DEF TakenIn
  <2>3. Stage(p, q, Conn(d), open[p], e)
    BY <1>1 DEF StageInv, ConnectionsInStage, InStage, Conn
  <2>4. ~ EventsMove => ~ stray
    BY DEF StageInv
  <2>5. ~ EventsMove => ~ run[0].stray
    BY <2>2, <2>4
  <2>6. Stage(p, q, run[0].conn, run[0].open, e + 0)
    BY <1>1, <2>1, <2>2, <2>3 DEF Stage
  <2> HIDE DEF p, q, e
  <2> QED BY <1>1, <2>5, <2>6
<1>5. ASSUME NEW k \in 1 .. N, k - 1 \in G PROVE k \in G
  <2> DEFINE s == run[k - 1]
             t == run[k]
             b == Due(d).ready[k]
             j == e + k - 1
  <2>1. /\ Handled(p, q, s, b, seen, t)
        /\ IsConnection(s.conn)
        /\ k \in 0 .. N /\ k - 1 \in 0 .. N
    <3>1. N \in Nat
      BY <1>1
    <3> QED BY <3>1 DEF IsRun, IsHandling
  <2>0. j \in Nat /\ e + k = j + 1 /\ e + (k - 1) = j
    <3> HIDE DEF e, N
    <3> QED BY <1>1
  <2>2. Stage(p, q, s.conn, s.open, j) /\ (~ EventsMove => ~ s.stray)
    BY <1>5, <2>0
  <2>3. InPlace(q, j, b)
    BY <1>1, DueInPlace
  <2>4. \A a : /\ IsConnection(SendReliable(s.conn, a))
               /\ SendReliable(s.conn, a).state = s.conn.state
               /\ SendReliable(s.conn, a).send_ordering_index =
                    s.conn.send_ordering_index + 1
    BY <2>1, SendReliableFields
  <2>5. \A c, state : IsConnection(c) /\ state \in {"Connected", "Disconnected"} =>
           /\ InState(c, state).state = state
           /\ InState(c, state).send_ordering_index = c.send_ordering_index
    BY InStateFields
  <2>6. s.conn.send_ordering_index \in Nat
    BY <2>1 DEF IsConnection
  <2> HIDE DEF j, s, t, b
  <2>7. Stage(p, q, t.conn, t.open, j + 1) /\ (~ EventsMove => ~ t.stray)
    <3>1. CASE p = Server
      <4>1. q \in Client /\ p \notin Client
        BY <1>1, <3>1, PeersApart
      <4>2. CASE /\ b = "DisconnectionNotification"
                 /\ t.conn = InState(s.conn, "Disconnected")
                 /\ t.open = s.open /\ t.stray = s.stray
        BY <1>3, <2>0, <2>1, <2>2, <2>3, <2>5, <2>6, <3>1, <4>1, <4>2 DEF Stage, Shown, InPlace
      <4>3. CASE /\ b = "GamePacket" /\ t.conn = s.conn /\ t.open = s.open
                 /\ t.stray = Strayed(q, s)
        <5>1. ~ EventsMove => q \in s.open
          BY <2>0, <2>2, <2>3, <3>1, <4>1, <4>3 DEF Stage, Shown, InPlace
        <5>2. ~ EventsMove => ~ Strayed(q, s)
          BY <2>2, <5>1 DEF Strayed
        <5>3. ~ EventsMove => ~ t.stray
          BY <4>3, <5>2
        <5> QED BY <1>3, <2>0, <2>2, <2>3, <2>6, <3>1, <4>1, <4>3, <5>3 DEF Stage, Shown, InPlace
      <4>4. CASE /\ b = "ConnectionRequest"
                 /\ t.conn = SendReliable(s.conn, "ConnectionRequestAccepted")
                 /\ t.open = s.open /\ t.stray = s.stray
        BY <1>3, <2>0, <2>2, <2>3, <2>4, <2>6, <3>1, <4>1, <4>4 DEF Stage, Shown, InPlace
      <4>5. CASE /\ b = "NewIncomingConnection"
                 /\ t.conn = InState(s.conn, "Connected")
                 /\ t.open = Told(q, s, seen) /\ t.stray = s.stray
        BY <1>2, <1>3, <2>0, <2>1, <2>2, <2>3, <2>5, <2>6, <3>1, <4>1, <4>5
           DEF Stage, Shown, InPlace, Told
      <4>6. CASE /\ b \notin {"ConnectionRequest", "NewIncomingConnection"}
                 /\ t = s
        BY <1>3, <2>0, <2>2, <2>3, <2>6, <3>1, <4>1, <4>6 DEF Stage, Shown, InPlace
      <4> QED BY <2>1, <3>1, <4>1, <4>2, <4>3, <4>4, <4>5, <4>6 DEF Handled
    <3>2. CASE p \in Client
      <4>1. q = Server /\ p # Server
        BY <1>1, <3>2, PeersApart
      <4>2. CASE /\ b = "DisconnectionNotification"
                 /\ t.conn = InState(s.conn, "Disconnected")
                 /\ t.open = s.open /\ t.stray = s.stray
        BY <1>3, <2>0, <2>1, <2>2, <2>3, <2>5, <2>6, <3>2, <4>1, <4>2 DEF Stage, Shown, InPlace
      <4>3. CASE /\ b = "GamePacket" /\ t.conn = s.conn /\ t.open = s.open
                 /\ t.stray = Strayed(q, s)
        <5>1. ~ EventsMove => q \in s.open
          BY <2>0, <2>2, <2>3, <3>2, <4>1, <4>3 DEF Stage, Shown, InPlace
        <5>2. ~ EventsMove => ~ Strayed(q, s)
          BY <2>2, <5>1 DEF Strayed
        <5>3. ~ EventsMove => ~ t.stray
          BY <4>3, <5>2
        <5> QED BY <1>3, <2>0, <2>2, <2>3, <2>6, <3>2, <4>1, <4>3, <5>3 DEF Stage, Shown, InPlace
      <4>4. CASE /\ b = "ConnectionRequestAccepted"
                 /\ t.conn = InState(SendReliable(s.conn, "NewIncomingConnection"),
                                     "Connected")
                 /\ t.open = Told(q, s, seen) /\ t.stray = s.stray
        BY <1>2, <1>3, <2>0, <2>2, <2>3, <2>4, <2>5, <2>6, <3>2, <4>1, <4>4
           DEF Stage, Shown, InPlace, Told
      <4>5. CASE b # "ConnectionRequestAccepted" /\ t = s
        BY <1>3, <2>0, <2>2, <2>3, <2>6, <3>2, <4>1, <4>5 DEF Stage, Shown, InPlace
      <4> QED BY <2>1, <3>2, <4>1, <4>2, <4>3, <4>4, <4>5 DEF Handled
    <3> QED BY <1>1, <3>1, <3>2, PeersApart
  <2> QED BY <2>0, <2>1, <2>7 DEF t
<1>6. \A k \in 0 .. N : k \in G
  <2> HIDE DEF N, G
  <2> QED BY <1>1, <1>4, <1>5, StepsInduction
<1> QED BY <1>6

LEMMA AddsInPlace ==
    ASSUME TypeInv, StageInv, NoWrap, NEW p \in Peer, NEW q \in Remote(p),
           NEW i, NEW b, Adds(p, q, i, b)
    PROVE  InPlace(p, i, b)
<1> DEFINE conn == connections[p][q]
           e == conn.channel.expected_index
           n == conn.send_ordering_index
<1>1. /\ p = Server \/ p \in Client
      /\ p = Server => p \notin Client
      /\ p = Server => q \in Client
      /\ p \in Client => q = Server /\ p # Server /\ q \notin Client
  BY PeersApart
<1>2. /\ games \in Nat /\ games <= MaxGames
      /\ MaxGames \in Nat /\ IndexMod \in Nat /\ MaxGames + 2 < IndexMod
  BY BoundsAssumption, ModuliAssumption
     DEF TypeInv, VariablesInv, StageInv, NoWrap
<1>3. Holds(p, q) => /\ Stage(p, q, conn, open[p], e)
                     /\ IsConnection(conn) /\ n \in Nat /\ e \in Nat
  BY DEF StageInv, ConnectionsInStage, InStage, TypeInv, ConnectionsInv, Holds, IsConnection,
         ChannelState
<1>4. CASE p \in Client /\ i = 0 /\ b = "ConnectionRequest"
  BY <1>1, <1>2, <1>4 DEF InPlace
<1>5. CASE /\ q \in ConnectedTo(p) /\ i = n
           /\ b \in {"GamePacket", "DisconnectionNotification"}
  <2>1. Holds(p, q) /\ conn.state = "Connected"
    BY <1>5 DEF ConnectedTo, Holds
  <2>2. /\ n \in Nat /\ n <= 2 + games
        /\ p = Server => n >= 1
        /\ p \in Client => n >= 2
    BY <1>2, <1>3, <2>1 DEF Stage, Shown
  <2> HIDE DEF n
  <2> QED BY <1>1, <1>2, <1>5, <2>2 DEF InPlace
<1>6. ASSUME NEW d \in net, NEW seen, NEW run, NEW k \in 1 .. Len(Due(d).ready),
             TakesFrom(p, q, d, seen, run), Answers(d, run, k, i, b)
      PROVE  InPlace(p, i, b)
  <2> DEFINE N == Len(Due(d).ready)
             s == run[k - 1].conn
             j == e + k - 1
  <2>1. /\ "datagram" \in DOMAIN d /\ Holds(d.to, d.from) /\ Holds(p, q)
        /\ d.to = p /\ d.from = q /\ IsRun(d, seen, run) /\ Conn(d) = conn
    BY <1>6 DEF TakesFrom, Conn
  <2>2. N \in Nat
    BY <2>1 DEF IsRun
  <2>3. j \in Nat /\ k - 1 \in 0 .. N /\ e + (k - 1) = j
    <3> HIDE DEF e, N
    <3> QED BY <1>3, <2>1, <2>2 DEF N
  <2>4. Stage(p, q, s, run[k - 1].open, j)
    BY <2>1, <2>3, RunStages
  <2>5. InPlace(q, j, Due(d).ready[k])
    BY <2>1, DueCameFrom, DueInPlace
  <2> HIDE DEF j, s
  <2>6. CASE /\ p = Server /\ Due(d).ready[k] = "ConnectionRequest"
             /\ b = "ConnectionRequestAccepted"
    <3>1. j = 0
      BY <1>1, <2>5, <2>6 DEF InPlace
    <3>2. i = 0
      BY <1>6, <2>4, <2>6, <3>1 DEF Stage, Shown, Answers, s
    <3> QED BY <1>1, <1>2, <2>6, <3>2 DEF InPlace
  <2>7. CASE /\ p \in Client /\ Due(d).ready[k] = "ConnectionRequestAccepted"
             /\ b = "NewIncomingConnection"
    <3>1. j = 0
      BY <1>1, <2>5, <2>7 DEF InPlace
    <3>2. i = 1
      BY <1>6, <2>4, <2>7, <3>1 DEF Stage, Shown, Answers, s
    <3> QED BY <1>1, <1>2, <2>7, <3>2 DEF InPlace
  <2> QED BY <1>6, <2>1, <2>6, <2>7 DEF Answers
<1> QED BY <1>4, <1>5, <1>6 DEF Adds, Sends

LEMMA SmallIndex ==
    ASSUME NEW p, NEW i, NEW b, InPlace(p, i, b)
    PROVE  i % IndexMod = i
  BY ModuliAssumption DEF InPlace

LEMMA FramesInPlaceStep ==
    ASSUME TypeInv, TypeInv', StageInv, NoWrap, NEW p \in Peer, Acts(p)
    PROVE  FramesInPlace'
<1>1. ASSUME NEW r \in Peer, NEW q \in Remote(r), NEW f \in Recorded(r, q)'
      PROVE  InPlace(r, f.ordering_index, f.body)
  <2>1. CASE r = p
    <3>1. f \in Recorded(r, q) \/ Adds(r, q, f.ordering_index, f.body)
      BY <2>1, FramesEvolve DEF Acts
    <3> QED BY <3>1, AddsInPlace DEF StageInv, FramesInPlace
  <2>2. CASE r # p
    <3>1. f \in Recorded(r, q)
      BY <2>2 DEF Acts, Recorded, Holds
    <3> QED BY <3>1 DEF StageInv, FramesInPlace
  <2> QED BY <2>1, <2>2
<1>2. ASSUME NEW d \in net', "datagram" \in DOMAIN d
      PROVE  InPlace(d.from, d.datagram.frame.ordering_index, d.datagram.frame.body)
  <2>1. CASE d \in net
    BY <1>2, <2>1 DEF StageInv, FramesInPlace
  <2>2. CASE d \notin net
    <3> DEFINE r == d.from
               q == d.to
    <3>1. r \in Peer /\ q \in Remote(r) /\ "offline" \notin DOMAIN d
      BY <1>2 DEF TypeInv, NetInv, IsDatagram
    <3>2. d \in News(r, q)
      BY <2>2, <3>1 DEF News
    <3>3. r = p
      BY <3>1, <3>2 DEF Acts
    <3>4. Evolves(r, q)
      BY <3>1, <3>3 DEF Acts
    <3>5. \/ \E f \in Recorded(r, q) :
                       /\ d.datagram.frame.ordering_index = f.ordering_index % IndexMod
                       /\ d.datagram.frame.body = f.body
          \/ \E i : /\ Adds(r, q, i, d.datagram.frame.body)
                    /\ d.datagram.frame.ordering_index = i % IndexMod
      BY <1>2, <3>1, <3>2, <3>4, FramesEvolve
    <3>6. PICK i : /\ InPlace(r, i, d.datagram.frame.body)
                   /\ d.datagram.frame.ordering_index = i % IndexMod
      BY <3>1, <3>5, AddsInPlace DEF StageInv, FramesInPlace
    <3> QED BY <3>6, SmallIndex
  <2> QED BY <2>1, <2>2
<1> QED BY <1>1, <1>2 DEF FramesInPlace

LEMMA ConnectionsInStageStep ==
    ASSUME TypeInv, StageInv, NEW p \in Peer, Acts(p)
    PROVE  ConnectionsInStage'
<1> SUFFICES ASSUME NEW r \in Peer, NEW q \in Remote(r), Holds(r, q)'
             PROVE  InStage(r, q)'
  BY DEF ConnectionsInStage
<1> DEFINE conn == connections[r][q]
           new == connections'[r][q]
           Buffers(c) == \A i \in DOMAIN c.channel.buffered :
                            InPlace(q, i, c.channel.buffered[i])
<1>0. ASSUME Buffers(new), NEW e, e = new.channel.expected_index,
             NEW opened, opened = open'[r],
             /\ r = Server => /\ e = 0 => new.send_ordering_index = 0
                              /\ e >= 1 => new.send_ordering_index >= 1
                              /\ e >= 2 => Shown(q, opened)
                              /\ new.state = "Connected" => e >= 2
             /\ r \in Client => /\ e = 0 => new.send_ordering_index = 1
                                /\ e >= 1 => new.send_ordering_index >= 2 /\ Shown(q, opened)
                                /\ new.state = "Connected" => e >= 1
             /\ new.send_ordering_index <= 2 + games'
      PROVE  InStage(r, q)'
  BY <1>0 DEF InStage, Stage
<1>1. /\ r = Server \/ r \in Client
      /\ r = Server => r \notin Client
      /\ games \in Nat /\ games' \in Nat /\ games' >= games
  BY PeersApart DEF Acts, TypeInv, VariablesInv
<1>2. Holds(r, q) => /\ Stage(r, q, conn, open[r], conn.channel.expected_index)
                     /\ Buffers(conn)
                     /\ IsConnection(conn)
                     /\ conn.send_ordering_index \in Nat
                     /\ conn.channel.expected_index \in Nat
  BY DEF StageInv, ConnectionsInStage, InStage, TypeInv, ConnectionsInv, Holds, IsConnection,
         ChannelState
<1>3. CASE r # p
  <2>1. Holds(r, q) /\ new = conn /\ open'[r] = open[r]
    BY <1>3 DEF Acts, Holds
  <2>2. Buffers(new)
    BY <1>2, <2>1
  <2> HIDE DEF new, Buffers
  <2> QED BY <1>0, <1>1, <1>2, <2>1, <2>2 DEF Stage, Shown
<1>4. CASE r = p
  <2>1. Evolves(r, q)
    BY <1>4 DEF Acts
  <2>2. CASE Left(r, q)
    BY <2>2 DEF Left
  <2>3. CASE Opened(r, q)
    <3>1. /\ IsConnection(NewConnection)
          /\ NewConnection.state = "Connecting"
          /\ NewConnection.send_ordering_index = 0
          /\ NewConnection.channel.expected_index = 0
          /\ DOMAIN NewConnection.channel.buffered = {}
      BY NewConnectionFields
    <3>2. LET first == SendReliable(NewConnection, "ConnectionRequest")
          IN  /\ first.state = "Connecting"
              /\ first.send_ordering_index = 1
              /\ first.channel.expected_index = 0
              /\ DOMAIN first.channel.buffered = {}
      BY <3>1, SendReliableFields
    <3>3. Buffers(new)
      BY <2>3, <3>1, <3>2 DEF Opened
    <3>4. /\ new.state = "Connecting"
          /\ r = Server => new.send_ordering_index = 0
          /\ r \in Client => new.send_ordering_index = 1
          /\ new.channel.expected_index = 0
      BY <1>1, <2>3, <3>1, <3>2 DEF Opened
    <3> DEFINE n == new.channel.expected_index
    <3>5. /\ n = 0 /\ ~ (n >= 1) /\ ~ (n >= 2)
          /\ new.state # "Connected"
          /\ r = Server => new.send_ordering_index = 0
          /\ r \in Client => new.send_ordering_index = 1
          /\ new.send_ordering_index <= 2 + games'
      <4> HIDE DEF new, Buffers
      <4> QED BY <1>1, <3>4
    <3> HIDE DEF new, Buffers
    <3> QED BY <1>0, <3>3, <3>5
  <2>4. CASE Keeps(r, q)
    <3>1. /\ Holds(r, q) /\ (q \in open'[r] <=> q \in open[r])
          /\ new.state = conn.state /\ new.channel = conn.channel
          /\ \/ new.send_ordering_index = conn.send_ordering_index
             \/ /\ games' = games + 1
                /\ new.send_ordering_index = conn.send_ordering_index + 1
                /\ conn.state = "Connected"
      BY <2>4 DEF Keeps, StillOpen
    <3>2. Buffers(new)
      BY <1>2, <3>1
    <3> HIDE DEF new, conn, Buffers
    <3> QED BY <1>0, <1>1, <1>2, <3>1, <3>2 DEF Stage, Shown
  <2>5. CASE Takes(r, q)
    <3>0. PICK d \in net : \E seen, run : TakesFrom(r, q, d, seen, run)
      BY <2>5 DEF Takes
    <3>1. PICK seen, run : TakesFrom(r, q, d, seen, run)
      BY <3>0
    <3> DEFINE N == Len(Due(d).ready)
               e == Conn(d).channel.expected_index
    <3>2. /\ "datagram" \in DOMAIN d /\ Holds(d.to, d.from)
          /\ d.to = r /\ d.from = q /\ IsRun(d, seen, run)
          /\ new = run[N].conn /\ open'[r] = run[N].open
      BY <3>1 DEF TakesFrom
    <3>3. /\ N \in 0 .. N /\ e \in Nat
          /\ Due(d).state.expected_index = e + N
      <4>1. /\ e \in Nat /\ N \in Nat /\ Due(d).state.expected_index \in Nat
            /\ N = Due(d).state.expected_index - e
        BY <3>2, DueCameFrom
      <4> HIDE DEF N, e
      <4> QED BY <4>1
    <3>4. new.channel = Due(d).state
      BY <3>2, <3>3, RunFrames
    <3>5. Stage(r, q, run[N].conn, run[N].open, e + N)
      BY <3>2, <3>3, RunStages
    <3>7. Buffers(new)
      <4>1. \A i \in DOMAIN Due(d).state.buffered :
               CameFrom(d, i, Due(d).state.buffered[i])
        BY <3>2, DueCameFrom
      <4> QED BY <3>2, <3>4, <4>1, DueInPlace
    <3>8. /\ Stage(r, q, new, open'[r], new.channel.expected_index)
          /\ games' = games
      BY <3>1, <3>2, <3>3, <3>4, <3>5 DEF TakesFrom
    <3> HIDE DEF new, Buffers
    <3> QED BY <1>0, <1>1, <3>7, <3>8 DEF Stage, Shown
  <2> QED BY <1>4, <2>1, <2>2, <2>3, <2>4, <2>5, MostStepsKeep
<1> QED BY <1>3, <1>4

LEMMA StageStep ==
    ASSUME TypeInv, TypeInv', StageInv, NoWrap, NEW p \in Peer, Acts(p)
    PROVE  StageInv'
<1>1. games' <= MaxGames
  BY BoundsAssumption DEF Acts, StageInv, TypeInv, VariablesInv
<1>2. ~ EventsMove => ~ stray'
  <2>1. CASE stray' = stray
    BY <2>1 DEF StageInv
  <2>2. CASE \E q \in Remote(p) : Takes(p, q)
    <3>1. PICK q \in Remote(p) : Takes(p, q)
      BY <2>2
    <3>0. PICK d \in net : \E seen, run : TakesFrom(p, q, d, seen, run)
      BY <3>1 DEF Takes
    <3>2. PICK seen, run : TakesFrom(p, q, d, seen, run)
      BY <3>0
    <3>3. /\ "datagram" \in DOMAIN d /\ Holds(d.to, d.from) /\ IsRun(d, seen, run)
          /\ stray' = run[Len(Due(d).ready)].stray
          /\ Len(Due(d).ready) \in Nat
      BY <3>2 DEF TakesFrom, IsRun
    <3>4. Len(Due(d).ready) \in 0 .. Len(Due(d).ready)
      BY <3>3
    <3>5. ~ EventsMove => ~ run[Len(Due(d).ready)].stray
      BY <3>3, <3>4, RunStages
    <3> QED BY <3>3, <3>5
  <2> QED BY <2>1, <2>2 DEF Acts
<1> QED BY <1>1, <1>2, FramesInPlaceStep, ConnectionsInStageStep DEF StageInv

LEMMA AlwaysInStage ==
    ASSUME NoWrap
    PROVE  Spec => []StageInv
<1>1. Init => StageInv
  <2> SUFFICES ASSUME Init PROVE StageInv
    OBVIOUS
  <2>1. \A r \in Peer : \A q : ~ Holds(r, q)
    BY DEF Init, EmptyMap, Holds
  <2>2. games <= MaxGames /\ stray = FALSE /\ net = {}
    BY BoundsAssumption DEF Init
  <2> QED BY <2>1, <2>2 DEF StageInv, FramesInPlace, ConnectionsInStage, Recorded
<1>2. TypeInv /\ TypeInv' /\ StageInv /\ [Next]_vars => StageInv'
  BY StageStep, NextActs
<1> QED BY <1>1, <1>2, AlwaysTyped, PTL DEF Spec

(***************************************************************************)
(* Where the event vectors of successive ticks lie in the same place, a    *)
(* game packet is reported only from a remote that is open: however the    *)
(* datagrams of sessions past and present overtake each other, the channel *)
(* hands the handshake up first.                                           *)
(***************************************************************************)
THEOREM GamePacketsOnlyWhileOpen ==
    ASSUME ~ EventsMove, NoWrap
    PROVE  Spec => []GamePacketsWhileOpen
<1>1. StageInv => GamePacketsWhileOpen
  BY DEF StageInv, GamePacketsWhileOpen
<1> QED BY <1>1, AlwaysInStage, PTL

(***************************************************************************)
(* ... and every connection that is established has been reported.         *)
(***************************************************************************)
THEOREM EveryConnectionReported ==
    ASSUME ~ EventsMove, NoWrap
    PROVE  Spec => []ReportsEveryConnection
<1>1. TypeInv /\ StageInv => ReportsEveryConnection
  <2> SUFFICES ASSUME TypeInv, StageInv, NEW p \in Peer, NEW q \in ConnectedTo(p)
               PROVE  q \in open[p]
    BY DEF ReportsEveryConnection
  <2>1. /\ q \in Remote(p) /\ Holds(p, q)
        /\ connections[p][q].state = "Connected"
        /\ IsConnection(connections[p][q])
    BY DEF ConnectedTo, TypeInv, ConnectionsInv, Holds
  <2>2. /\ Stage(p, q, connections[p][q], open[p],
                 connections[p][q].channel.expected_index)
        /\ connections[p][q].channel.expected_index \in Nat
    BY <2>1 DEF StageInv, ConnectionsInStage, InStage, IsConnection, ChannelState
  <2>3. p = Server \/ p \in Client
    BY PeersApart
  <2> QED BY <2>1, <2>2, <2>3 DEF Stage, Shown
<1> QED BY <1>1, AlwaysTyped, AlwaysInStage, PTL

-----------------------------------------------------------------------------
(***************************************************************************)
(* The streams of a client and the server.                                 *)
(***************************************************************************)
(* A client connects once, nobody stops, and of the offline messages only  *)
(* the last is delivered twice: a second request would have the server     *)
(* replace the connection it already has.                                  *)
OneSession ==
    /\ MaxConnects <= 1
    /\ MaxStops = 0
    /\ Duplicable \subseteq {"OpenConnectionReply2"}

(* No sequence number comes round again. *)
NoReuse == MaxDatagrams + MaxGames + 2 <= NumberMod

(* How far p's stream to q is, and what p has recorded of it.              *)
NextNumber(p, q) ==
    IF Holds(p, q) THEN connections[p][q].send_sequence_number ELSE 0

NextIndex(p, q) ==
    IF Holds(p, q) THEN connections[p][q].send_ordering_index ELSE 0

Numbers(p, q) ==
    IF Holds(p, q) THEN DOMAIN connections[p][q].sent_datagrams ELSE {}

Index(p, q, n) == connections[p][q].sent_datagrams[n].ordering_index

(* What q has of it.                                                       *)
Expected(q, p) ==
    IF Holds(q, p) THEN connections[q][p].channel.expected_index ELSE 0

Held(q, p) ==
    IF Holds(q, p) THEN DOMAIN connections[q][p].channel.buffered ELSE {}

Received(q, p) ==
    IF Holds(q, p) THEN connections[q][p].received_sequences ELSE {}

Has(q, p, i) == i < Expected(q, p) \/ i \in Held(q, p)

(* p handed the number n out, and q has what it may still stand for.       *)
Settled(p, q, n) ==
    /\ n \in Nat /\ n < NextNumber(p, q)
    /\ n \in Numbers(p, q) => Has(q, p, Index(p, q, n))

DataAligned(p, q) ==
    \A d \in net : "datagram" \in DOMAIN d /\ d.from = p /\ d.to = q =>
       LET n == d.datagram.sequence_number
           i == d.datagram.frame.ordering_index
       IN  /\ n < NextNumber(p, q)
           /\ i < NextIndex(p, q)
           /\ n \in Numbers(p, q) => Index(p, q, n) = i

ReceiptsAligned(p, q) ==
    /\ \A n \in Received(q, p) : Settled(p, q, n)
    /\ \A d \in net : "ack" \in DOMAIN d /\ d.from = q /\ d.to = p =>
          \A n \in SequenceNumbers(d.ack) : Settled(p, q, n)

ChannelAligned(p, q) ==
    /\ Expected(q, p) <= NextIndex(p, q)
    /\ \A i \in Held(q, p) : i < NextIndex(p, q)

(* Whatever p has sent, q has or p keeps.                                  *)
AllReach(p, q) ==
    /\ \A i \in 0 .. (NextIndex(p, q) - 1) :
          Has(q, p, i) \/ \E n \in Numbers(p, q) : Index(p, q, n) = i
    /\ \A n \in Numbers(p, q) : Index(p, q, n) < NextIndex(p, q)
    /\ NextNumber(p, q) <= MaxDatagrams + NextIndex(p, q)

Aligned(p, q) ==
    /\ DataAligned(p, q)
    /\ ReceiptsAligned(p, q)
    /\ ChannelAligned(p, q)
    /\ AllReach(p, q)

AlignedInv == \A p \in Peer : \A q \in Remote(p) : Aligned(p, q)

(* The offline handshake of c: its messages, each of which begets the next. *)
Token(c, id) ==
    IF id \in Requests THEN Offline(c, Server, id) ELSE Offline(Server, c, id)

Steps == {"OpenConnectionRequest1", "OpenConnectionReply1", "OpenConnectionRequest2"}

OnceInv(c) ==
    /\ connects[c] = 0 => /\ \A id \in Steps : Token(c, id) \notin net
                          /\ ~ Holds(Server, c)
    /\ \A id, other \in Steps :
          Token(c, id) \in net /\ Token(c, other) \in net => id = other
    /\ Holds(Server, c) => \A id \in Steps : Token(c, id) \notin net
    /\ Token(c, "OpenConnectionReply2") \in net \/ Holds(c, Server)
          => Holds(Server, c)

(* While c waits to be accepted, its connection is as it was made, and the *)
(* server has sent it no more than its answer.                             *)
WaitingInv(c) ==
    /\ connecting[c] /\ Holds(c, Server) =>
          /\ connections[c][Server].state = "Connecting"
          /\ NextNumber(c, Server) = 1
          /\ NextIndex(c, Server) = 1
          /\ Numbers(c, Server) = {0}
          /\ Index(c, Server, 0) = 0
          /\ Expected(c, Server) = 0
          /\ Held(c, Server) = {}
          /\ Received(c, Server) = {}
    /\ NextIndex(Server, c) >= 2 => Past(c)
    /\ \A d \in net : "ack" \in DOMAIN d /\ d.from = Server /\ d.to = c => Past(c)

(* Nobody says goodbye.                                                    *)
Farewell == "DisconnectionNotification"

NoFarewellInv ==
    /\ stops = 0 /\ crashes = 0
    /\ \A d \in net : "datagram" \in DOMAIN d => d.datagram.frame.body # Farewell
    /\ \A p \in Peer : \A q \in Remote(p) :
          /\ \A f \in Recorded(p, q) : f.body # Farewell
          /\ Holds(p, q) =>
                /\ connections[p][q].state # "Disconnected"
                /\ \A i \in DOMAIN connections[p][q].channel.buffered :
                      connections[p][q].channel.buffered[i] # Farewell

SessionInv ==
    /\ NoFarewellInv
    /\ \A c \in Client : OnceInv(c) /\ WaitingInv(c)
    /\ AlignedInv

LEMMA IncomingKeepsAll ==
    ASSUME TypeInv, NEW d \in net, NEW rest, ProcessIncoming(d, rest),
           NEW r \in Peer, NEW t \in Remote(r), Holds(r, t)
    PROVE  Holds(r, t)'
<1>1. d.to \in Peer /\ d.from \in Remote(d.to)
  BY PeersApart DEF TypeInv, NetInv, IsDatagram
<1>2. DOMAIN connections = Peer
  BY DEF TypeInv, ConnectionsInv
<1>3. CASE connections' = connections
  BY <1>3 DEF Holds
<1>4. ASSUME NEW p, NEW q, NEW conn,
             connections' = [connections EXCEPT ![p] = Put(@, q, conn)]
      PROVE  Holds(r, t)'
  BY <1>2, <1>4 DEF Holds, Put
<1>5. ASSUME NEW p, NEW q, NEW conn,
             connections' = [connections EXCEPT ![p][q] = conn]
      PROVE  Holds(r, t)'
  BY <1>2, <1>5 DEF Holds
<1>6. CASE ReceiveOffline(d, rest)
  BY <1>3, <1>4, <1>6
     DEF ReceiveOffline, ReceiveRequest1, ReceiveRequest2, ReceiveReply1, ReceiveReply2,
         OpenConnection
<1>7. CASE ReceiveData(d, rest)
  <2>1. PICK s : connections' = [connections EXCEPT ![d.to][d.from] = s.conn]
    BY <1>7 DEF ReceiveData
  <2> QED BY <1>5, <2>1
<1>8. CASE ReceiveAck(d, rest)
  <2>1. connections' = [connections EXCEPT ![d.to][d.from] =
                           Acked(connections[d.to][d.from], d.ack)]
    BY <1>8 DEF ReceiveAck, Acked
  <2> QED BY <1>5, <2>1
<1>9. CASE IgnoreStranger(d, rest)
  BY <1>3, <1>9 DEF IgnoreStranger
<1> QED BY <1>6, <1>7, <1>8, <1>9 DEF ProcessIncoming

(* A connection that is not ended from outside ends by a goodbye alone.    *)
LEMMA NobodyLeaves ==
    ASSUME TypeInv, OneSession, NoFarewellInv, [Next]_vars
    PROVE  /\ stops' = 0 /\ crashes' = 0
           /\ \A p \in Peer : \A q \in Remote(p) : Holds(p, q) => Holds(p, q)'
<1> DEFINE Kept == \A p \in Peer : \A q \in Remote(p) : Holds(p, q) => Holds(p, q)'
<1> SUFFICES stops' = 0 /\ crashes' = 0 /\ Kept
  OBVIOUS
<1>0. stops = 0 /\ crashes = 0 /\ DOMAIN connections = Peer
  BY DEF NoFarewellInv, TypeInv, ConnectionsInv
<1>1. ASSUME connections' = connections PROVE Kept
  BY <1>1 DEF Holds
<1>2. CASE \E c \in Client : Connect(c)
  <2>1. connections' = connections /\ stops' = stops /\ crashes' = crashes
    BY <1>2 DEF Connect
  <2> QED BY <1>0, <1>1, <2>1
<1>3. ASSUME NEW p \in Peer, NEW Q, SendGamePacket(p, Q)
      PROVE  stops' = 0 /\ crashes' = 0 /\ Kept
  <2>1. /\ connections' = [connections EXCEPT ![p] =
             [q \in DOMAIN @ |-> IF q \in Q THEN SendReliable(@[q], "GamePacket")
                                 ELSE @[q]]]
        /\ stops' = stops /\ crashes' = crashes
    BY <1>3 DEF SendGamePacket
  <2> QED BY <1>0, <2>1 DEF Holds
<1>4. ASSUME NEW p \in Peer, Shutdown(p) \/ Crash(p) PROVE FALSE
  BY <1>0, <1>4 DEF Shutdown, Crash, OneSession
<1>5. ASSUME NEW p \in Peer, Start(p) PROVE stops' = 0 /\ crashes' = 0 /\ Kept
  <2>1. connections' = connections /\ stops' = stops /\ crashes' = crashes
    BY <1>5 DEF Start, budgets
  <2> QED BY <1>0, <1>1, <2>1
<1>6. ASSUME NEW d \in net, NEW rest, ProcessIncoming(d, rest)
      PROVE  stops' = 0 /\ crashes' = 0 /\ Kept
  <2>1. stops' = stops /\ crashes' = crashes
    BY <1>6 DEF ProcessIncoming
  <2> QED BY <1>0, <1>6, <2>1, IncomingKeepsAll
<1>7. ASSUME NEW p \in Peer, NEW k \in Ages(p), EndTick(p, k)
      PROVE  stops' = 0 /\ crashes' = 0 /\ Kept
  <2>1. stops' = stops /\ crashes' = crashes
    BY <1>7 DEF EndTick, budgets
  <2>2. Ticked(p, k)
    BY <1>7, EndTickEffect
  <2>3. Gone(p) = {}
    BY DEF Gone, NoFarewellInv, Holds, TypeInv, ConnectionsInv
  <2>4. /\ DOMAIN connections'[p] = DOMAIN connections[p]
        /\ \A r \in Peer \ {p} : connections'[r] = connections[r]
    BY <1>0, <2>2, <2>3 DEF Ticked
  <2> QED BY <1>0, <2>1, <2>4 DEF Holds
<1>8. ASSUME NEW d \in net, Lose(d) \/ Unreachable(d)
      PROVE  stops' = 0 /\ crashes' = 0 /\ Kept
  <2>1. connections' = connections /\ stops' = stops /\ crashes' = crashes
    BY <1>8 DEF Lose, Unreachable, peers, budgets
  <2> QED BY <1>0, <1>1, <2>1
<1>9. CASE UNCHANGED vars
  <2>1. connections' = connections /\ stops' = stops /\ crashes' = crashes
    BY <1>9 DEF vars, peers, budgets
  <2> QED BY <1>0, <1>1, <2>1
<1> HIDE DEF Kept
<1>10. CASE \E p \in Peer : \E Q \in {{q} : q \in ConnectedTo(p)} \union {ConnectedTo(p)} :
                SendGamePacket(p, Q)
  BY <1>3, <1>10
<1>11. CASE \E p \in Peer : Shutdown(p) \/ Crash(p) \/ Start(p)
  BY <1>4, <1>5, <1>11
<1>12. CASE \E p \in Peer : Receive(p) \/ EndTickSome(p)
  BY <1>6, <1>7, <1>12 DEF Receive, EndTickSome
<1>13. CASE \E d \in net : Duplicate(d) \/ Lose(d) \/ Unreachable(d)
  BY <1>6, <1>8, <1>13 DEF Duplicate
<1>14. CASE Next
  BY <1>2, <1>10, <1>11, <1>12, <1>13, <1>14 DEF Next
<1> QED BY <1>9, <1>14

LEMMA RunStaysUp ==
    ASSUME TypeInv, NEW d \in net, "datagram" \in DOMAIN d, Holds(d.to, d.from),
           NEW seen, NEW run, IsRun(d, seen, run),
           Conn(d).state # "Disconnected",
           \A k \in 1 .. Len(Due(d).ready) : Due(d).ready[k] # Farewell
    PROVE  \A k \in 0 .. Len(Due(d).ready) : run[k].conn.state # "Disconnected"
<1> DEFINE N == Len(Due(d).ready)
           G == {k \in 0 .. N : run[k].conn.state # "Disconnected"}
<1>1. N \in Nat
  BY DEF IsRun
<1>2. 0 \in G
  <2>1. run[0].conn.state = Conn(d).state
    BY TakenInIsHandling DEF Holds, IsRun
  <2> QED BY <1>1, <2>1
<1>3. ASSUME NEW k \in 1 .. N, k - 1 \in G PROVE k \in G
  <2> DEFINE s == run[k - 1]
             t == run[k]
             b == Due(d).ready[k]
  <2>1. /\ Handled(d.to, d.from, s, b, seen, t)
        /\ IsConnection(s.conn)
        /\ k \in 0 .. N
        /\ b # "DisconnectionNotification"
        /\ s.conn.state # "Disconnected"
    BY <1>1, <1>3 DEF IsRun, IsHandling, Farewell
  <2>2. /\ \A a : /\ IsConnection(SendReliable(s.conn, a))
                  /\ SendReliable(s.conn, a).state = s.conn.state
        /\ \A a : /\ InState(s.conn, "Connected").state = "Connected"
                  /\ InState(SendReliable(s.conn, a), "Connected").state = "Connected"
    <3>1. \A a : /\ IsConnection(SendReliable(s.conn, a))
                 /\ SendReliable(s.conn, a).state = s.conn.state
      BY <2>1, SendReliableFields
    <3> QED BY <2>1, <3>1, InStateFields
  <2>3. t.conn.state # "Disconnected"
    <3> HIDE DEF s, t, b
    <3> QED BY <2>1, <2>2 DEF Handled
  <2> QED BY <2>1, <2>3
<1>4. \A k \in 0 .. N : k \in G
  <2> HIDE DEF N, G
  <2> QED BY <1>1, <1>2, <1>3, StepsInduction
<1> QED BY <1>4

LEMMA NoFarewellAdded ==
    ASSUME TypeInv, NEW p \in Peer, NEW q \in Remote(p), Holds(p, q) => Holds(p, q)',
           NEW i, NEW b, Adds(p, q, i, b)
    PROVE  b # Farewell
<1>1. ~ (Left(p, q) /\ q \in ConnectedTo(p))
  BY DEF Left, ConnectedTo, Holds
<1> QED BY <1>1 DEF Adds, Answers, Farewell

LEMMA NoFarewellStep ==
    ASSUME TypeInv, TypeInv', OneSession, NoFarewellInv, [Next]_vars,
           NEW p \in Peer, Acts(p)
    PROVE  NoFarewellInv'
<1>1. /\ stops' = 0 /\ crashes' = 0
      /\ \A r \in Peer : \A q \in Remote(r) : Holds(r, q) => Holds(r, q)'
  BY NobodyLeaves
<1>2. ASSUME NEW r \in Peer, NEW q \in Remote(r), NEW f \in Recorded(r, q)'
      PROVE  f.body # Farewell
  <2>1. CASE r = p
    <3>1. f \in Recorded(r, q) \/ Adds(r, q, f.ordering_index, f.body)
      BY <2>1, FramesEvolve DEF Acts
    <3> QED BY <1>1, <3>1, NoFarewellAdded DEF NoFarewellInv
  <2>2. CASE r # p
    <3>1. f \in Recorded(r, q)
      BY <2>2 DEF Acts, Recorded, Holds
    <3> QED BY <3>1 DEF NoFarewellInv
  <2> QED BY <2>1, <2>2
<1>3. ASSUME NEW d \in net', "datagram" \in DOMAIN d
      PROVE  d.datagram.frame.body # Farewell
  <2>1. CASE d \in net
    BY <1>3, <2>1 DEF NoFarewellInv
  <2>2. CASE d \notin net
    <3> DEFINE r == d.from
               q == d.to
    <3>1. r \in Peer /\ q \in Remote(r) /\ "offline" \notin DOMAIN d
      BY <1>3 DEF TypeInv, NetInv, IsDatagram
    <3>2. d \in News(r, q)
      BY <2>2, <3>1 DEF News
    <3>3. r = p
      BY <3>1, <3>2 DEF Acts
    <3>4. Evolves(r, q)
      BY <3>1, <3>3 DEF Acts
    <3>5. \/ \E f \in Recorded(r, q) : d.datagram.frame.body = f.body
          \/ \E i : Adds(r, q, i, d.datagram.frame.body)
      BY <1>3, <3>1, <3>2, <3>4, FramesEvolve
    <3> QED BY <1>1, <3>1, <3>5, NoFarewellAdded DEF NoFarewellInv
  <2> QED BY <2>1, <2>2
<1>4. ASSUME NEW r \in Peer, NEW q \in Remote(r), Holds(r, q)'
      PROVE  /\ connections'[r][q].state # "Disconnected"
             /\ \A i \in DOMAIN connections'[r][q].channel.buffered :
                   connections'[r][q].channel.buffered[i] # Farewell
  <2>1. CASE r # p
    BY <1>4, <2>1 DEF Acts, Holds, NoFarewellInv
  <2>2. CASE r = p
    <3>1. Evolves(r, q)
      BY <2>2 DEF Acts
    <3>2. CASE Left(r, q)
      BY <1>4, <3>2 DEF Left
    <3>3. CASE Opened(r, q)
      <4>1. /\ NewConnection.state = "Connecting"
            /\ NewConnection.channel.buffered = EmptyMap
            /\ SendReliable(NewConnection, "ConnectionRequest").state = "Connecting"
            /\ SendReliable(NewConnection, "ConnectionRequest").channel = NewConnection.channel
        BY NewConnectionFields, SendReliableFields DEF NewConnection
      <4> QED BY <3>3, <4>1 DEF Opened, EmptyMap
    <3>4. CASE Keeps(r, q)
      BY <3>4 DEF Keeps, NoFarewellInv
    <3>5. CASE Takes(r, q)
      <4>0. PICK d \in net : \E seen, run : TakesFrom(r, q, d, seen, run)
        BY <3>5 DEF Takes
      <4>1. PICK seen, run : TakesFrom(r, q, d, seen, run)
        BY <4>0
      <4> DEFINE N == Len(Due(d).ready)
                 e == Conn(d).channel.expected_index
      <4>2. /\ "datagram" \in DOMAIN d /\ Holds(d.to, d.from)
            /\ d.to = r /\ d.from = q
            /\ IsRun(d, seen, run)
            /\ Conn(d) = connections[r][q]
            /\ connections'[r][q] = run[N].conn
            /\ Holds(r, q)
        BY <4>1 DEF TakesFrom, Conn
      <4>3. N \in 0 .. N
        BY <4>2 DEF IsRun
      <4>4. \A i, b : CameFrom(d, i, b) => b # Farewell
        BY <4>2 DEF CameFrom, NoFarewellInv
      <4>5. /\ run[N].conn.channel = Due(d).state
            /\ \A k \in 1 .. N : Due(d).ready[k] # Farewell
            /\ \A i \in DOMAIN Due(d).state.buffered :
                  Due(d).state.buffered[i] # Farewell
        BY <4>2, <4>3, <4>4, RunFrames, DueCameFrom
      <4>6. Conn(d).state # "Disconnected"
        BY <4>2 DEF NoFarewellInv
      <4>7. run[N].conn.state # "Disconnected"
        BY <4>2, <4>3, <4>5, <4>6, RunStaysUp
      <4> QED BY <4>2, <4>5, <4>7
    <3> QED BY <3>1, <3>2, <3>3, <3>4, <3>5, MostStepsKeep
  <2> QED BY <2>1, <2>2
<1> QED BY <1>1, <1>2, <1>3, <1>4 DEF NoFarewellInv

(* What a step does to the offline handshake of c.                         *)
Names == Steps \union {"OpenConnectionReply2"}

Gains(c) == (Holds(Server, c)' /\ ~ Holds(Server, c)) \/ (Holds(c, Server)' /\ ~ Holds(c, Server))

Follows(c, id, next) ==
    /\ Token(c, id) \in net /\ Token(c, id) \notin net'
    /\ \A o \in Names : Token(c, o) \in net' => Token(c, o) \in net \/ o = next

Moves(c) ==
    \/ /\ \A o \in Names : Token(c, o) \in net' => Token(c, o) \in net
       /\ Holds(Server, c)' => Holds(Server, c)
       /\ Holds(c, Server)' =>
             Holds(c, Server) \/ Token(c, "OpenConnectionReply2") \in net
    \/ /\ connects[c] < MaxConnects /\ connects'[c] = connects[c] + 1
       /\ \A o \in Names : Token(c, o) \in net' =>
             Token(c, o) \in net \/ o = "OpenConnectionRequest1"
       /\ ~ Gains(c)
    \/ Follows(c, "OpenConnectionRequest1", "OpenConnectionReply1") /\ ~ Gains(c)
    \/ Follows(c, "OpenConnectionReply1", "OpenConnectionRequest2") /\ ~ Gains(c)
    \/ /\ Follows(c, "OpenConnectionRequest2", "OpenConnectionReply2")
       /\ Holds(Server, c)' /\ (Holds(c, Server)' => Holds(c, Server))

LEMMA TokenFields ==
    ASSUME NEW c \in Client
    PROVE  /\ Token(c, "OpenConnectionRequest1") = Offline(c, Server, "OpenConnectionRequest1")
           /\ Token(c, "OpenConnectionRequest2") = Offline(c, Server, "OpenConnectionRequest2")
           /\ Token(c, "OpenConnectionReply1") = Offline(Server, c, "OpenConnectionReply1")
           /\ Token(c, "OpenConnectionReply2") = Offline(Server, c, "OpenConnectionReply2")
           /\ \A b \in Client : \A id, o \in Names : Token(b, id) = Token(c, o) => b = c /\ id = o
           /\ \A o \in Names : DOMAIN Token(c, o) = {"from", "to", "offline"}
<1>1. \A b \in Client, id \in Names :
         /\ id \in Requests => Token(b, id) = [from |-> b, to |-> Server, offline |-> id]
         /\ id \notin Requests => Token(b, id) = [from |-> Server, to |-> b, offline |-> id]
  BY DEF Token, Offline
<1>2. ASSUME NEW b \in Client, NEW id \in Names, NEW o \in Names, Token(b, id) = Token(c, o)
      PROVE  b = c /\ id = o
  <2>1. /\ Token(b, id).offline = id /\ Token(c, o).offline = o
        /\ id \in Requests => Token(b, id).from = b
        /\ id \notin Requests => Token(b, id).to = b
        /\ o \in Requests => Token(c, o).from = c
        /\ o \notin Requests => Token(c, o).to = c
    BY <1>1
  <2> QED BY <1>2, <2>1
<1>3. \A o \in Names : DOMAIN Token(c, o) = {"from", "to", "offline"}
  BY <1>1
<1>4. /\ Token(c, "OpenConnectionRequest1") = Offline(c, Server, "OpenConnectionRequest1")
      /\ Token(c, "OpenConnectionRequest2") = Offline(c, Server, "OpenConnectionRequest2")
      /\ Token(c, "OpenConnectionReply1") = Offline(Server, c, "OpenConnectionReply1")
      /\ Token(c, "OpenConnectionReply2") = Offline(Server, c, "OpenConnectionReply2")
  BY DEF Token, Requests
<1> QED BY <1>2, <1>3, <1>4

(* Nothing offline is sent, and no connection is made.                     *)
LEMMA Unmoved ==
    ASSUME TypeInv, NEW c \in Client,
           \A e \in net' : e \in net \/ "offline" \notin DOMAIN e,
           \A r \in Peer : DOMAIN connections'[r] \subseteq DOMAIN connections[r]
    PROVE  Moves(c)
<1>1. c \in Peer /\ Server \in Peer
  BY PeersApart
<1>2. \A o \in Names : Token(c, o) \in net' => Token(c, o) \in net
  BY TokenFields
<1> QED BY <1>1, <1>2 DEF Moves, Holds

LEMMA OfflineMoves ==
    ASSUME TypeInv, NEW d \in net, NEW rest \in SUBSET net,
           d.offline # "OpenConnectionReply2" => d \notin rest,
           ReceiveOffline(d, rest), NEW c \in Client
    PROVE  Moves(c)
<1> DEFINE p == d.to
           q == d.from
<1>1. /\ "offline" \in DOMAIN d /\ d = Offline(q, p, d.offline)
      /\ p \in Peer /\ q \in Peer
      /\ \/ p = Server /\ q \in Client /\ d.offline \in Requests
         \/ q = Server /\ p \in Client /\ d.offline \in Replies
  BY PeersApart, OfflineFields DEF ReceiveOffline, TypeInv, NetInv, IsDatagram
<1>2. c \in Peer /\ Server \in Peer /\ c # Server /\ DOMAIN connections = Peer
  BY PeersApart DEF TypeInv, ConnectionsInv
<1>3. ASSUME connections' = connections, net' = rest PROVE Moves(c)
  BY <1>3, Unmoved
<1>4. CASE d.offline = "OpenConnectionRequest1" /\ ReceiveRequest1(q, rest)
  <2>1. /\ q \in Client /\ d = Token(q, "OpenConnectionRequest1") /\ d \notin rest
        /\ connections' = connections
        /\ net' \subseteq rest \union {Token(q, "OpenConnectionReply1")}
    BY <1>1, <1>4, TokenFields DEF ReceiveRequest1, Requests, Replies
  <2>2. CASE q = c
    <3>1. Follows(c, "OpenConnectionRequest1", "OpenConnectionReply1")
      BY <2>1, <2>2, TokenFields DEF Follows, Names, Steps
    <3> QED BY <2>1, <3>1 DEF Moves, Gains, Holds
  <2>3. CASE q # c
    <3>1. \A o \in Names : Token(c, o) \in net' => Token(c, o) \in net
      BY <2>1, <2>3, TokenFields DEF Names, Steps
    <3> QED BY <2>1, <3>1 DEF Moves, Holds
  <2> QED BY <2>2, <2>3
<1>5. CASE d.offline = "OpenConnectionReply1" /\ ReceiveReply1(p, rest)
  <2>1. /\ p \in Client /\ d = Token(p, "OpenConnectionReply1") /\ d \notin rest
        /\ connections' = connections
        /\ net' \subseteq rest \union {Token(p, "OpenConnectionRequest2")}
    BY <1>1, <1>5, TokenFields DEF ReceiveReply1, Requests, Replies
  <2>2. CASE p = c
    <3>1. Follows(c, "OpenConnectionReply1", "OpenConnectionRequest2")
      BY <2>1, <2>2, TokenFields DEF Follows, Names, Steps
    <3> QED BY <2>1, <3>1 DEF Moves, Gains, Holds
  <2>3. CASE p # c
    <3>1. \A o \in Names : Token(c, o) \in net' => Token(c, o) \in net
      BY <2>1, <2>3, TokenFields DEF Names, Steps
    <3> QED BY <2>1, <3>1 DEF Moves, Holds
  <2> QED BY <2>2, <2>3
<1>6. CASE d.offline = "OpenConnectionRequest2" /\ ReceiveRequest2(q, rest)
  <2>1. /\ q \in Client /\ d = Token(q, "OpenConnectionRequest2") /\ d \notin rest
        /\ connections' = [connections EXCEPT ![Server] = Put(@, q, NewConnection)]
        /\ net' = rest \union {Token(q, "OpenConnectionReply2")}
    BY <1>1, <1>6, TokenFields DEF ReceiveRequest2, Requests, Replies
  <2>2. /\ connections'[c] = connections[c]
        /\ DOMAIN connections'[Server] = DOMAIN connections[Server] \union {q}
    BY <1>2, <2>1 DEF Put
  <2>3. CASE q = c
    <3>1. Follows(c, "OpenConnectionRequest2", "OpenConnectionReply2")
      BY <2>1, <2>3, TokenFields DEF Follows, Names, Steps
    <3> QED BY <2>2, <2>3, <3>1 DEF Moves, Holds
  <2>4. CASE q # c
    <3>1. \A o \in Names : Token(c, o) \in net' => Token(c, o) \in net
      BY <2>1, <2>4, TokenFields DEF Names, Steps
    <3> QED BY <2>2, <2>4, <3>1 DEF Moves, Holds
  <2> QED BY <2>3, <2>4
<1>7. CASE d.offline = "OpenConnectionReply2" /\ OpenConnection(p, rest)
  <2> DEFINE sent == Sent(p, Server, NewConnection, "ConnectionRequest")
             conn == SendReliable(NewConnection, "ConnectionRequest")
  <2>1. /\ p \in Client /\ d = Token(p, "OpenConnectionReply2")
        /\ connections' = [connections EXCEPT ![p] = Put(@, Server, conn)]
        /\ net' = rest \union {sent}
    BY <1>1, <1>7, TokenFields DEF OpenConnection, Requests, Replies
  <2>2. DOMAIN sent = {"from", "to", "datagram"}
    BY NewConnectionFields, SentFields
  <2> HIDE DEF sent, conn
  <2>3. \A o \in Names : Token(c, o) \in net' => Token(c, o) \in net
    BY <2>1, <2>2, TokenFields
  <2>4. /\ connections'[Server] = connections[Server]
        /\ p # c => connections'[c] = connections[c]
    BY <1>2, <2>1, PeersApart
  <2> QED BY <2>1, <2>3, <2>4 DEF Moves, Holds
<1> QED BY <1>1, <1>3, <1>4, <1>5, <1>6, <1>7
        DEF ReceiveOffline, ReceiveReply2, Requests, Replies

LEMMA IncomingMoves ==
    ASSUME TypeInv, NEW d \in net, NEW rest \in SUBSET net,
           "offline" \in DOMAIN d /\ d.offline # "OpenConnectionReply2" => d \notin rest,
           ProcessIncoming(d, rest), NEW c \in Client
    PROVE  Moves(c)
<1>1. DOMAIN connections = Peer
  BY DEF TypeInv, ConnectionsInv
<1>2. CASE ReceiveOffline(d, rest)
  <2>1. "offline" \in DOMAIN d
    BY <1>2 DEF ReceiveOffline
  <2> QED BY <1>2, <2>1, OfflineMoves
<1>3. CASE ReceiveData(d, rest)
  <2>1. PICK seen, run : /\ IsRun(d, seen, run)
                         /\ Becomes(d, rest, run[Len(Due(d).ready)])
    BY <1>3, ReceiveDataRun
  <2> DEFINE s == run[Len(Due(d).ready)]
  <2>2. "datagram" \in DOMAIN d /\ Holds(d.to, d.from)
    BY <1>3 DEF ReceiveData, Holds
  <2>3. \A e \in s.out : "datagram" \in DOMAIN e
    <3>1. Len(Due(d).ready) \in 0 .. Len(Due(d).ready)
      BY <2>1 DEF IsRun
    <3> QED BY <2>1, <2>2, <3>1, RunFrames
  <2>4. /\ net' = rest \union s.out
        /\ connections' = [connections EXCEPT ![d.to][d.from] = s.conn]
    BY <2>1 DEF Becomes
  <2> HIDE DEF s
  <2>5. \A e \in net' : e \in net \/ "datagram" \in DOMAIN e
    BY <2>3, <2>4
  <2>6. \A o \in Names : "datagram" \notin DOMAIN Token(c, o)
    BY TokenFields
  <2>7. \A r \in Peer : DOMAIN connections'[r] = DOMAIN connections[r]
    BY <1>1, <2>4
  <2>8. c \in Peer /\ Server \in Peer
    BY PeersApart
  <2> QED BY <2>5, <2>6, <2>7, <2>8 DEF Moves, Holds
<1>4. CASE ReceiveAck(d, rest)
  <2>1. /\ connections' = [connections EXCEPT ![d.to][d.from] =
                              Acked(connections[d.to][d.from], d.ack)]
        /\ net' = rest
    BY <1>4 DEF ReceiveAck, Acked
  <2>2. \A r \in Peer : DOMAIN connections'[r] = DOMAIN connections[r]
    BY <1>1, <2>1
  <2> QED BY <2>1, <2>2, Unmoved
<1>5. CASE IgnoreStranger(d, rest)
  BY <1>5, Unmoved DEF IgnoreStranger
<1> QED BY <1>2, <1>3, <1>4, <1>5 DEF ProcessIncoming

LEMMA NextMoves ==
    ASSUME TypeInv, OneSession, NoFarewellInv, [Next]_vars, NEW c \in Client
    PROVE  Moves(c)
<1>0. /\ stops = 0 /\ crashes = 0 /\ DOMAIN connections = Peer
      /\ c \in Peer /\ Server \in Peer
  BY PeersApart DEF NoFarewellInv, TypeInv, ConnectionsInv
<1>1. ASSUME NEW b \in Client, Connect(b) PROVE Moves(c)
  <2>1. /\ net' = net \union {Token(b, "OpenConnectionRequest1")}
        /\ connections' = connections
        /\ connects[b] < MaxConnects /\ connects' = [connects EXCEPT ![b] = @ + 1]
    BY <1>1, TokenFields DEF Connect
  <2>2. CASE b = c
    <3>1. \A o \in Names : Token(c, o) \in net' =>
             Token(c, o) \in net \/ o = "OpenConnectionRequest1"
      BY <2>1, <2>2, TokenFields DEF Names, Steps
    <3>2. connects'[c] = connects[c] + 1
      BY <2>1, <2>2 DEF TypeInv, VariablesInv
    <3> QED BY <2>1, <2>2, <3>1, <3>2 DEF Moves, Gains, Holds
  <2>3. CASE b # c
    <3>1. \A o \in Names : Token(c, o) \in net' => Token(c, o) \in net
      BY <2>1, <2>3, TokenFields DEF Names, Steps
    <3> QED BY <2>1, <3>1 DEF Moves, Holds
  <2> QED BY <2>2, <2>3
<1>2. ASSUME NEW p \in Peer, NEW Q, SendGamePacket(p, Q) PROVE Moves(c)
  <2>1. /\ connections' = [connections EXCEPT ![p] =
             [q \in DOMAIN @ |-> IF q \in Q THEN SendReliable(@[q], "GamePacket")
                                 ELSE @[q]]]
        /\ net' = net \union {Sent(p, q, connections[p][q], "GamePacket") : q \in Q}
        /\ Q \subseteq DOMAIN connections[p]
    BY <1>2 DEF SendGamePacket, ConnectedTo
  <2>2. \A r \in Peer : DOMAIN connections'[r] = DOMAIN connections[r]
    BY <1>0, <2>1
  <2>3. \A q \in Q : DOMAIN Sent(p, q, connections[p][q], "GamePacket") =
                       {"from", "to", "datagram"}
    BY <2>1, SentFields DEF TypeInv, ConnectionsInv
  <2> QED BY <2>1, <2>2, <2>3, Unmoved
<1>3. ASSUME NEW p \in Peer, Shutdown(p) \/ Crash(p) PROVE FALSE
  BY <1>0, <1>3 DEF Shutdown, Crash, OneSession
<1>4. ASSUME NEW p \in Peer, Start(p) PROVE Moves(c)
  BY <1>4, Unmoved DEF Start
<1>5. ASSUME NEW p \in Peer, Receive(p) PROVE Moves(c)
  <2>1. PICK d \in net : ProcessIncoming(d, net \ {d})
    BY <1>5 DEF Receive
  <2>2. net \ {d} \in SUBSET net /\ d \notin net \ {d}
    OBVIOUS
  <2> QED BY <2>1, <2>2, IncomingMoves
<1>6. ASSUME NEW d \in net, Duplicate(d) PROVE Moves(c)
  <2>1. /\ ProcessIncoming(d, net) /\ net \in SUBSET net
        /\ "offline" \in DOMAIN d => d.offline = "OpenConnectionReply2"
    BY <1>6 DEF Duplicate, OneSession
  <2> QED BY <2>1, IncomingMoves
<1>7. ASSUME NEW p \in Peer, NEW k \in Ages(p), EndTick(p, k) PROVE Moves(c)
  <2>1. Ticked(p, k)
    BY <1>7, EndTickEffect
  <2>2. \A r \in Peer : DOMAIN connections'[r] \subseteq DOMAIN connections[r]
    BY <1>0, <2>1 DEF Ticked
  <2>3. \A q \in DOMAIN connections[p] :
           \A e \in Outbound(p, q, connections[p][q], k[q]) : "offline" \notin DOMAIN e
    BY DEF Outbound, Ack, Data
  <2>4. \A e \in net' : e \in net \/ "offline" \notin DOMAIN e
    BY <2>1, <2>3 DEF Ticked
  <2> QED BY <2>2, <2>4, Unmoved
<1>8. ASSUME NEW d \in net, Lose(d) \/ Unreachable(d) PROVE Moves(c)
  <2>1. connections' = connections /\ net' \subseteq net
    BY <1>8 DEF Lose, Unreachable, peers, budgets
  <2> QED BY <2>1, Unmoved
<1>9. CASE UNCHANGED vars
  <2>1. connections' = connections /\ net' = net
    BY <1>9 DEF vars, peers
  <2> QED BY <2>1, Unmoved
<1>10. CASE \E p \in Peer : \E Q \in {{q} : q \in ConnectedTo(p)} \union {ConnectedTo(p)} :
                SendGamePacket(p, Q)
  BY <1>2, <1>10
<1>11. CASE Next
  BY <1>1, <1>3, <1>4, <1>5, <1>6, <1>7, <1>8, <1>10, <1>11 DEF Next, EndTickSome
<1> QED BY <1>9, <1>11

LEMMA OnceStep ==
    ASSUME TypeInv, OneSession, HandshakeInv, NoFarewellInv, [Next]_vars,
           NEW p \in Peer, Acts(p), NEW c \in Client, OnceInv(c)
    PROVE  OnceInv(c)'
<1>1. /\ connects[c] \in Nat /\ connects'[c] >= connects[c]
      /\ Holds(c, Server) \/ connecting[c] => connects[c] >= 1
      /\ MaxConnects \in Nat /\ MaxConnects <= 1
  <2>1. connects[c] \in Nat /\ Calls(c)
    BY DEF Acts, TypeInv, VariablesInv
  <2> QED BY <2>1, BoundsAssumption DEF Calls, HandshakeInv, OneSession
<1>2. /\ Holds(Server, c) => Holds(Server, c)'
      /\ Server \in Peer /\ c \in Remote(Server)
  BY NobodyLeaves, PeersApart
<1> DEFINE In(id) == Token(c, id) \in net
           Out(id) == Token(c, id) \in net'
<1>3. /\ connects[c] = 0 => (\A id \in Steps : ~ In(id)) /\ ~ Holds(Server, c)
      /\ \A id, other \in Steps : In(id) /\ In(other) => id = other
      /\ Holds(Server, c) => \A id \in Steps : ~ In(id)
      /\ In("OpenConnectionReply2") \/ Holds(c, Server) => Holds(Server, c)
  BY DEF OnceInv
<1> DEFINE Goal ==
             /\ connects'[c] = 0 => (\A id \in Steps : ~ Out(id)) /\ ~ Holds(Server, c)'
             /\ \A id, other \in Steps : Out(id) /\ Out(other) => id = other
             /\ Holds(Server, c)' => \A id \in Steps : ~ Out(id)
             /\ Out("OpenConnectionReply2") \/ Holds(c, Server)' => Holds(Server, c)'
<1> SUFFICES Goal
  BY DEF OnceInv
<1>4. Steps \subseteq Names /\ "OpenConnectionReply2" \in Names
      /\ "OpenConnectionReply2" \notin Steps
  BY DEF Names, Steps
<1>5. CASE /\ \A o \in Names : Out(o) => In(o)
           /\ Holds(Server, c)' => Holds(Server, c)
           /\ Holds(c, Server)' => Holds(c, Server) \/ In("OpenConnectionReply2")
  <2> HIDE DEF In, Out
  <2> QED BY <1>1, <1>2, <1>3, <1>4, <1>5
<1>6. CASE /\ connects[c] < MaxConnects /\ connects'[c] = connects[c] + 1
           /\ \A o \in Names : Out(o) => In(o) \/ o = "OpenConnectionRequest1"
           /\ ~ Gains(c)
  <2>1. connects[c] = 0 /\ connects'[c] = 1
    BY <1>1, <1>6
  <2>2. ~ Holds(c, Server) /\ ~ Holds(c, Server)' /\ ~ Holds(Server, c)'
    BY <1>1, <1>3, <1>6, <2>1 DEF Gains
  <2>3. \A o \in Names : Out(o) => o = "OpenConnectionRequest1"
    <3> HIDE DEF In, Out
    <3> QED BY <1>3, <1>6, <2>1 DEF Names
  <2> HIDE DEF In, Out
  <2> QED BY <1>4, <2>1, <2>2, <2>3
<1>7. ASSUME NEW id \in Steps, NEW next \in Steps, In(id), ~ Out(id), ~ Gains(c),
             \A o \in Names : Out(o) => In(o) \/ o = next
      PROVE  Goal
  <2>1. ~ Holds(Server, c)' /\ ~ Holds(c, Server)' /\ connects'[c] # 0
    <3> HIDE DEF In, Out
    <3> QED BY <1>1, <1>3, <1>7 DEF Gains
  <2>2. \A o \in Names : Out(o) => o = next
    <3> HIDE DEF In, Out
    <3> QED BY <1>3, <1>7 DEF Names
  <2> HIDE DEF In, Out
  <2> QED BY <1>4, <2>1, <2>2
<1>8. CASE /\ In("OpenConnectionRequest2") /\ ~ Out("OpenConnectionRequest2")
           /\ \A o \in Names : Out(o) => In(o) \/ o = "OpenConnectionReply2"
           /\ Holds(Server, c)'
  <2>1. "OpenConnectionRequest2" \in Steps /\ connects'[c] # 0
    <3> HIDE DEF In, Out
    <3> QED BY <1>1, <1>3, <1>8 DEF Steps
  <2>2. \A o \in Steps : ~ Out(o)
    <3> HIDE DEF In, Out
    <3> QED BY <1>3, <1>4, <1>8, <2>1
  <2> HIDE DEF In, Out
  <2> QED BY <1>8, <2>1, <2>2
<1>9. {"OpenConnectionRequest1", "OpenConnectionReply1", "OpenConnectionRequest2"} \subseteq Steps
  BY DEF Steps
<1>10. Moves(c)
  BY NextMoves
<1>11. \A id, next : Follows(c, id, next) =>
          In(id) /\ ~ Out(id) /\ \A o \in Names : Out(o) => In(o) \/ o = next
  BY DEF Follows
<1>12. \/ /\ \A o \in Names : Out(o) => In(o)
          /\ Holds(Server, c)' => Holds(Server, c)
          /\ Holds(c, Server)' => Holds(c, Server) \/ In("OpenConnectionReply2")
       \/ /\ connects[c] < MaxConnects /\ connects'[c] = connects[c] + 1
          /\ \A o \in Names : Out(o) => In(o) \/ o = "OpenConnectionRequest1"
          /\ ~ Gains(c)
       \/ Follows(c, "OpenConnectionRequest1", "OpenConnectionReply1") /\ ~ Gains(c)
       \/ Follows(c, "OpenConnectionReply1", "OpenConnectionRequest2") /\ ~ Gains(c)
       \/ Follows(c, "OpenConnectionRequest2", "OpenConnectionReply2") /\ Holds(Server, c)'
  BY <1>10 DEF Moves
<1> HIDE DEF In, Out, Goal
<1> QED BY <1>5, <1>6, <1>7, <1>8, <1>9, <1>11, <1>12

(* Only a connection that is established acknowledges.                     *)
LEMMA AckNews ==
    ASSUME TypeInv, TypeInv', NEW p \in Peer, NEW q \in Remote(p), Evolves(p, q),
           NEW d \in News(p, q), "ack" \in DOMAIN d
    PROVE  /\ Ticks(p, q) /\ q \in ConnectedTo(p) /\ Holds(p, q)
           /\ d = Ack(p, q, connections[p][q].received_sequences)
<1>0. "datagram" \notin DOMAIN d
  BY DEF TypeInv, NetInv, IsDatagram, News
<1>1. \A conn, b : IsConnection(conn) => d # Sent(p, q, conn, b)
  BY <1>0, SentFields
<1>2. \A r : Holds(p, r) => IsConnection(connections[p][r])
  BY DEF TypeInv, ConnectionsInv, Holds
<1>3. IsConnection(NewConnection)
  BY NewConnectionFields
<1>4. ~ Stays(p, q) /\ ~ IsAcked(p, q)
  BY DEF Stays, IsAcked
<1>5. ~ Left(p, q) /\ ~ Sends(p, q) /\ ~ Opened(p, q)
  BY <1>1, <1>2, <1>3 DEF Left, Sends, Opened, ConnectedTo, Holds
<1>6. ~ Takes(p, q)
  <2> SUFFICES ASSUME NEW e \in net, NEW seen, NEW run, TakesFrom(p, q, e, seen, run)
               PROVE  FALSE
    BY DEF Takes
  <2>1. /\ "datagram" \in DOMAIN e /\ Holds(e.to, e.from) /\ IsRun(e, seen, run)
        /\ d \in run[Len(Due(e).ready)].out
    BY DEF TakesFrom
  <2>2. Len(Due(e).ready) \in 0 .. Len(Due(e).ready)
    BY <2>1 DEF IsRun
  <2>3. "datagram" \in DOMAIN d
    BY <2>1, <2>2, RunFrames
  <2> QED BY <1>0, <2>3
<1>7. Ticks(p, q)
  BY <1>4, <1>5, <1>6 DEF Evolves
<1>8. PICK k \in Nat : Holds(p, q) /\ d \in Outbound(p, q, connections[p][q], k)
  BY <1>7 DEF Ticks
<1>9. \A n, f : "ack" \notin DOMAIN Data(p, q, n, f)
  BY DEF Data
<1> QED BY <1>7, <1>8, <1>9 DEF Outbound, ConnectedTo, Holds

LEMMA ConnectedIsPast ==
    ASSUME HandshakeInv, NEW c \in Client, c \in ConnectedTo(Server)
    PROVE  Past(c)
  BY DEF HandshakeInv, Confirmed, ConnectedTo, Holds

(* The server answers once, and then waits.                                *)
LEMMA RunAnswersOnce ==
    ASSUME TypeInv, StageInv, NEW d \in net, "datagram" \in DOMAIN d,
           Holds(d.to, d.from), NEW seen, NEW run, IsRun(d, seen, run),
           d.to = Server, Conn(d).send_ordering_index <= 1
    PROVE  \A k \in 0 .. Len(Due(d).ready) : run[k].conn.send_ordering_index <= 1
<1> DEFINE N == Len(Due(d).ready)
           e == Conn(d).channel.expected_index
           G == {k \in 0 .. N : run[k].conn.send_ordering_index <= 1}
<1>1. /\ N \in Nat /\ e \in Nat
      /\ Server \notin Client /\ d.from \in Client
      /\ \A k \in 1 .. N : CameFrom(d, e + k - 1, Due(d).ready[k])
  BY TakenInIsHandling, DueCameFrom, PeersApart DEF Holds
<1>2. 0 \in G
  <2>1. run[0].conn.send_ordering_index = Conn(d).send_ordering_index
    BY TakenInIsHandling DEF Holds, IsRun
  <2> QED BY <1>1, <2>1
<1>3. ASSUME NEW k \in 1 .. N, k - 1 \in G PROVE k \in G
  <2> DEFINE s == run[k - 1]
             t == run[k]
             b == Due(d).ready[k]
             j == e + k - 1
  <2>1. /\ Handled(Server, d.from, s, b, seen, t)
        /\ IsConnection(s.conn)
        /\ k \in 0 .. N /\ k - 1 \in 0 .. N
    <3>1. N \in Nat
      BY <1>1
    <3> QED BY <3>1 DEF IsRun, IsHandling
  <2>2. j \in Nat /\ e + (k - 1) = j
    <3> HIDE DEF e, N
    <3> QED BY <1>1
  <2>3. Stage(Server, d.from, s.conn, s.open, j)
    BY <2>1, <2>2, RunStages
  <2>4. InPlace(d.from, j, b)
    BY <1>1, DueInPlace
  <2>5. /\ SendReliable(s.conn, "ConnectionRequestAccepted").send_ordering_index =
             s.conn.send_ordering_index + 1
        /\ \A state \in {"Connected", "Disconnected"} :
              InState(s.conn, state).send_ordering_index = s.conn.send_ordering_index
    BY <2>1, SendReliableFields, InStateFields
  <2>6. s.conn.send_ordering_index <= 1
    BY <1>3
  <2> HIDE DEF j, s, t, b
  <2>7. CASE b = "ConnectionRequest"
    <3>1. s.conn.send_ordering_index = 0
      BY <1>1, <2>3, <2>4, <2>7 DEF InPlace, Stage
    <3>2. t.conn.send_ordering_index <= 1
      BY <1>1, <2>1, <2>5, <2>7, <3>1 DEF Handled
    <3> QED BY <2>1, <3>2 DEF t
  <2>8. CASE b # "ConnectionRequest"
    <3>1. t.conn.send_ordering_index <= 1
      BY <1>1, <2>1, <2>5, <2>6, <2>8 DEF Handled
    <3> QED BY <2>1, <3>1 DEF t
  <2> QED BY <2>7, <2>8
<1>4. \A k \in 0 .. N : k \in G
  <2> HIDE DEF N, G
  <2> QED BY <1>1, <1>2, <1>3, StepsInduction
<1> QED BY <1>4

(* What the server has sent a client that waits.                           *)
LEMMA ServerWaits ==
    ASSUME TypeInv, TypeInv', OneConnect, HandshakeInv, StageInv,
           NEW p \in Peer, Acts(p), NEW c \in Client, WaitingInv(c)
    PROVE  /\ NextIndex(Server, c)' >= 2 => Past(c)'
           /\ \A d \in net' : "ack" \in DOMAIN d /\ d.from = Server /\ d.to = c => Past(c)'
<1>0. Server \in Peer /\ c \in Remote(Server) /\ Server \notin Client
  BY PeersApart
<1>1. Past(c) => Past(c)'
  BY PastStays
<1>2. ASSUME NEW d \in net', "ack" \in DOMAIN d, d.from = Server, d.to = c
      PROVE  Past(c)'
  <2>1. CASE d \in net
    BY <1>1, <1>2, <2>1 DEF WaitingInv
  <2>2. CASE d \notin net
    <3>1. "offline" \notin DOMAIN d
      BY <1>2 DEF TypeInv, NetInv, IsDatagram
    <3>2. d \in News(Server, c)
      BY <1>2, <2>2, <3>1 DEF News
    <3>3. Evolves(Server, c)
      BY <1>0, <3>2 DEF Acts
    <3>4. c \in ConnectedTo(Server)
      BY <1>0, <1>2, <3>2, <3>3, AckNews
    <3> QED BY <1>1, <3>4, ConnectedIsPast
  <2> QED BY <2>1, <2>2
<1>3. ASSUME NextIndex(Server, c)' >= 2 PROVE Past(c)'
  <2>1. CASE p # Server
    <3>1. NextIndex(Server, c)' = NextIndex(Server, c)
      BY <1>0, <2>1 DEF Acts, NextIndex, Holds
    <3> QED BY <1>1, <1>3, <3>1 DEF WaitingInv
  <2>2. CASE p = Server
    <3>1. Evolves(Server, c)
      BY <1>0, <2>2 DEF Acts
    <3>2. CASE Left(Server, c)
      BY <1>3, <3>2 DEF Left, NextIndex
    <3>3. CASE Opened(Server, c)
      <4>1. NextIndex(Server, c)' = 0
        BY <1>0, <3>3, NewConnectionFields DEF Opened, NextIndex
      <4> QED BY <1>3, <4>1
    <3>4. CASE Keeps(Server, c)
      <4>1. CASE connections[Server][c].state = "Connected"
        <5>1. c \in ConnectedTo(Server)
          BY <3>4, <4>1 DEF Keeps, ConnectedTo, Holds
        <5> QED BY <1>1, <5>1, ConnectedIsPast
      <4>2. CASE NextIndex(Server, c)' = NextIndex(Server, c)
        BY <1>1, <1>3, <4>2 DEF WaitingInv
      <4> QED BY <3>4, <4>1, <4>2 DEF Keeps, NextIndex
    <3>5. CASE Takes(Server, c)
      <4>0. PICK d \in net : \E seen, run : TakesFrom(Server, c, d, seen, run)
        BY <3>5 DEF Takes
      <4>1. PICK seen, run : TakesFrom(Server, c, d, seen, run)
        BY <4>0
      <4> DEFINE N == Len(Due(d).ready)
      <4>2. /\ "datagram" \in DOMAIN d /\ Holds(d.to, d.from)
            /\ d.to = Server
            /\ IsRun(d, seen, run)
            /\ Conn(d) = connections[Server][c]
            /\ connections'[Server][c] = run[N].conn
            /\ Holds(Server, c) /\ Holds(Server, c)'
        BY <4>1 DEF TakesFrom, Conn
      <4>3. N \in 0 .. N
        BY <4>2 DEF IsRun
      <4>4. CASE Conn(d).send_ordering_index <= 1
        <5>1. run[N].conn.send_ordering_index <= 1
          BY <4>2, <4>3, <4>4, RunAnswersOnce
        <5>2. NextIndex(Server, c)' = run[N].conn.send_ordering_index
          BY <4>2 DEF NextIndex
        <5>3. run[N].conn.send_ordering_index \in Nat
          BY <4>2, <4>3 DEF IsRun, IsHandling, IsConnection
        <5> HIDE DEF N
        <5> QED BY <1>3, <5>1, <5>2, <5>3
      <4>5. CASE Conn(d).send_ordering_index >= 2
        BY <1>1, <4>2, <4>5 DEF WaitingInv, NextIndex
      <4>6. Conn(d).send_ordering_index \in Nat
        BY <1>0, <4>2 DEF TypeInv, ConnectionsInv, IsConnection, Holds
      <4> QED BY <4>4, <4>5, <4>6
    <3> QED BY <1>0, <3>1, <3>2, <3>3, <3>4, <3>5, MostStepsKeep
  <2> QED BY <2>1, <2>2
<1> QED BY <1>2, <1>3

(* A client that waits has nothing but its request under way.              *)
LEMMA ClientWaits ==
    ASSUME TypeInv, TypeInv', OneConnect, HandshakeInv, StageInv, AlignedInv,
           NEW p \in Peer, Acts(p), NEW c \in Client, WaitingInv(c),
           connecting'[c], Holds(c, Server)'
    PROVE  /\ connections'[c][Server].state = "Connecting"
           /\ NextNumber(c, Server)' = 1
           /\ NextIndex(c, Server)' = 1
           /\ Numbers(c, Server)' = {0}
           /\ Index(c, Server, 0)' = 0
           /\ Expected(c, Server)' = 0
           /\ Held(c, Server)' = {}
           /\ Received(c, Server)' = {}
<1> DEFINE conn == connections[c][Server]
           new == connections'[c][Server]
           AsMade(x) == /\ x.state = "Connecting"
                        /\ x.send_sequence_number = 1
                        /\ x.send_ordering_index = 1
                        /\ DOMAIN x.sent_datagrams = {0}
                        /\ x.sent_datagrams[0].ordering_index = 0
                        /\ x.channel.expected_index = 0
                        /\ DOMAIN x.channel.buffered = {}
                        /\ x.received_sequences = {}
<1>0. c \in Peer /\ Server \in Peer /\ Server \in Remote(c) /\ c # Server
  BY PeersApart
<1> SUFFICES AsMade(new)
  BY DEF NextNumber, NextIndex, Numbers, Index, Expected, Held, Received
<1>1. connecting[c]
  <2>1. CASE connecting[c] = connecting'[c]
    BY <2>1
  <2>2. CASE connects[c] = 0
    <3>1. ~ Holds(c, Server)
      BY <2>2 DEF HandshakeInv
    <3>2. p = c
      BY <1>0, <3>1 DEF Acts, Holds
    <3>3. Opened(c, Server)
      BY <1>0, <3>1, <3>2 DEF Acts, Evolves, Stays, Left, Sends, Takes, TakesFrom,
                              IsAcked, Ticks, ConnectedTo, Holds
    <3> QED BY <1>0, <3>3 DEF Opened
  <2>3. Calls(c) /\ connects[c] \in Nat
    BY DEF Acts, TypeInv, VariablesInv
  <2> QED BY <2>1, <2>2, <2>3, BoundsAssumption DEF Calls, OneConnect
<1>2. Holds(c, Server) => AsMade(conn) /\ IsConnection(conn)
  BY <1>0, <1>1 DEF WaitingInv, NextNumber, NextIndex, Numbers, Index, Expected, Held, Received,
              TypeInv, ConnectionsInv, Holds
<1>3. CASE p # c
  <2>1. Holds(c, Server) /\ new = conn
    BY <1>0, <1>3 DEF Acts, Holds
  <2> QED BY <1>2, <2>1
<1>4. CASE p = c
  <2>1. Evolves(c, Server)
    BY <1>0, <1>4 DEF Acts
  <2>2. CASE Stays(c, Server)
    BY <1>2, <2>2 DEF Stays
  <2>3. CASE Left(c, Server)
    BY <2>3 DEF Left
  <2>4. CASE Opened(c, Server)
    <3>1. new = SendReliable(NewConnection, "ConnectionRequest")
      BY <1>0, <2>4 DEF Opened
    <3>2. /\ NextFrame(NewConnection, "ConnectionRequest").ordering_index = 0
      BY NewConnectionFields, NextFrameFields DEF IsConnection
    <3>3. AsMade(SendReliable(NewConnection, "ConnectionRequest"))
      BY <3>2, NewConnectionFields, SendReliableFields
    <3> QED BY <3>1, <3>3
  <2>5. CASE Sends(c, Server)
    BY <1>2, <2>5 DEF Sends, ConnectedTo, Holds
  <2>6. CASE Takes(c, Server)
    <3>0. PICK d \in net : \E seen, run : TakesFrom(c, Server, d, seen, run)
      BY <2>6 DEF Takes
    <3>1. PICK seen, run : TakesFrom(c, Server, d, seen, run)
      BY <3>0
    <3> DEFINE N == Len(Due(d).ready)
    <3>2. /\ "datagram" \in DOMAIN d /\ Holds(d.to, d.from)
          /\ d.to = c /\ d.from = Server
          /\ IsRun(d, seen, run)
          /\ Conn(d) = conn
          /\ connecting'[c] = run[N].connecting
          /\ Holds(c, Server)
      BY <3>1 DEF TakesFrom, Conn
    <3>3. N \in 0 .. N /\ N \in Nat
      BY <3>2 DEF IsRun
    <3>4. AsMade(conn) /\ IsConnection(conn)
      BY <1>2, <3>2
    <3>5. d.datagram.frame.ordering_index = 0
      <4>1. ~ Past(c)
        BY <1>1 DEF Past
      <4>2. ~ (NextIndex(Server, c) >= 2)
        BY <4>1 DEF WaitingInv
      <4>3. d.datagram.frame.ordering_index < NextIndex(Server, c)
        BY <1>0, <3>2, PeersApart DEF AlignedInv, Aligned, DataAligned
      <4>4. d.datagram.frame.ordering_index \in Nat
        BY <3>2 DEF TypeInv, NetInv, IsDatagram, IsFrame
      <4>5. NextIndex(Server, c) \in Nat
        BY <1>0 DEF TypeInv, ConnectionsInv, IsConnection, NextIndex, Holds
      <4> QED BY <4>2, <4>3, <4>4, <4>5
    <3>6. N >= 1
      <4> DEFINE x == conn.channel
                 o == ProcessOrdered(x, 0, d.datagram.frame.body)
                 held == Put(x.buffered, 0, d.datagram.frame.body)
      <4>1. ChannelState(x) /\ x.expected_index = 0 /\ x.expected_index \notin DOMAIN x.buffered
        BY <3>4 DEF IsConnection
      <4>2. 0 \in DOMAIN held
        BY DEF Put
      <4>3. Due(d) = o
        BY <3>2, <3>5 DEF Due
      <4> HIDE DEF x
      <4>4. /\ o.state.expected_index \notin DOMAIN o.state.buffered
            /\ 0 < o.state.expected_index \/ 0 \in DOMAIN o.state.buffered
            /\ Len(o.ready) = o.state.expected_index - 0
            /\ ChannelState(o.state)
        BY <4>1, <4>2, ProcessOrderedRun
      <4> HIDE DEF o
      <4>5. o.state.expected_index \in Nat
        BY <4>4 DEF ChannelState
      <4> QED BY <4>3, <4>4, <4>5
    <3>7. Due(d).ready[1] = "ConnectionRequestAccepted"
      <4>1. CameFrom(d, 0 + 1 - 1, Due(d).ready[1])
        <5>1. 1 \in 1 .. N
          BY <3>3, <3>6
        <5> QED BY <3>2, <3>4, <5>1, DueCameFrom
      <4>2. InPlace(Server, 0 + 1 - 1, Due(d).ready[1])
        BY <3>2, <4>1, DueInPlace
      <4> QED BY <4>2 DEF InPlace
    <3>8. \E j \in 1 .. N : Due(d).ready[j] = "ConnectionRequestAccepted"
      <4>1. 1 \in 1 .. N
        BY <3>3, <3>6
      <4> QED BY <3>7, <4>1
    <3>9. ~ run[N].connecting
      BY <3>2, <3>3, <3>8, RunStates
    <3> QED BY <3>2, <3>9
  <2>7. CASE IsAcked(c, Server)
    <3>1. PICK d \in net : d.to = c /\ d.from = Server /\ "ack" \in DOMAIN d
      BY <2>7 DEF IsAcked
    <3>2. Past(c)
      BY <3>1 DEF WaitingInv
    <3> QED BY <1>1, <3>2 DEF Past
  <2>8. CASE Ticks(c, Server)
    <3>1. PICK k \in Nat : Holds(c, Server) /\ new = Maintained(conn, k)
      BY <2>8 DEF Ticks
    <3>2. AsMade(conn) /\ IsConnection(conn)
      BY <1>2, <3>1
    <3>3. Overdue(conn, k) = {}
      BY <3>2, OverdueIsRecorded
    <3>4. IsConnection(conn) /\ new = Maintained(conn, k)
      BY <3>1, <3>2
    <3> HIDE DEF conn, new
    <3>5. /\ new.state = conn.state
          /\ new.send_sequence_number = conn.send_sequence_number
          /\ new.send_ordering_index = conn.send_ordering_index
          /\ DOMAIN new.sent_datagrams = DOMAIN conn.sent_datagrams
          /\ \A m \in DOMAIN conn.sent_datagrams :
                new.sent_datagrams[m] = conn.sent_datagrams[m]
          /\ conn.state # "Connected" => new.received_sequences = conn.received_sequences
          /\ new.channel = conn.channel
      BY <3>3, <3>4, MaintainedIdly
    <3> QED BY <3>2, <3>5
  <2> QED BY <2>1, <2>2, <2>3, <2>4, <2>5, <2>6, <2>7, <2>8 DEF Evolves
<1> QED BY <1>3, <1>4

LEMMA WaitingStep ==
    ASSUME TypeInv, TypeInv', OneConnect, HandshakeInv, StageInv, AlignedInv,
           NEW p \in Peer, Acts(p), NEW c \in Client, WaitingInv(c)
    PROVE  WaitingInv(c)'
  BY ServerWaits, ClientWaits DEF WaitingInv

(* What p's step may do to its stream to q ...                             *)
Grows(p, q) ==
    /\ NextNumber(p, q)' >= NextNumber(p, q)
    /\ NextIndex(p, q)' >= NextIndex(p, q)
    /\ NextNumber(p, q)' <= MaxDatagrams + NextIndex(p, q)'
    /\ \A n \in Numbers(p, q)' :
          /\ Index(p, q, n)' < NextIndex(p, q)'
          /\ \/ n \in Numbers(p, q) /\ Index(p, q, n)' = Index(p, q, n)
             \/ n >= NextNumber(p, q)
    /\ \A n \in Numbers(p, q) :
          \/ Has(q, p, Index(p, q, n))
          \/ \E m \in Numbers(p, q)' : Index(p, q, m)' = Index(p, q, n)
    /\ \A i \in NextIndex(p, q) .. (NextIndex(p, q)' - 1) :
          \E m \in Numbers(p, q)' : Index(p, q, m)' = i
    /\ \A d \in News(p, q) : "datagram" \in DOMAIN d =>
          LET n == d.datagram.sequence_number
              i == d.datagram.frame.ordering_index
          IN  /\ n < NextNumber(p, q)' /\ i < NextIndex(p, q)'
              /\ n \in Numbers(p, q)' => Index(p, q, n)' = i

SameStream(p, q) ==
    /\ NextNumber(p, q)' = NextNumber(p, q)
    /\ NextIndex(p, q)' = NextIndex(p, q)
    /\ Numbers(p, q)' = Numbers(p, q)
    /\ \A n \in Numbers(p, q) : Index(p, q, n)' = Index(p, q, n)
    /\ \A d \in News(p, q) : "datagram" \notin DOMAIN d

(* ... and q's to what it has of it.                                       *)
Gathers(q, p) ==
    /\ \A i \in Nat : Has(q, p, i) => Has(q, p, i)'
    /\ Expected(q, p)' <= NextIndex(p, q)
    /\ \A i \in Held(q, p)' : i < NextIndex(p, q)
    /\ \A n \in Received(q, p)' :
          \/ n \in Received(q, p)
          \/ \E d \in net : /\ "datagram" \in DOMAIN d /\ d.from = p /\ d.to = q
                            /\ n = d.datagram.sequence_number
                            /\ Has(q, p, d.datagram.frame.ordering_index)'
    /\ \A d \in News(q, p) : "ack" \in DOMAIN d =>
          SequenceNumbers(d.ack) \subseteq Received(q, p)

SameChannel(q, p) ==
    /\ Expected(q, p)' = Expected(q, p)
    /\ Held(q, p)' = Held(q, p)
    /\ Received(q, p)' = Received(q, p)
    /\ \A d \in News(q, p) : "ack" \notin DOMAIN d

LEMMA StreamTypes ==
    ASSUME TypeInv, NEW p \in Peer, NEW q \in Remote(p)
    PROVE  /\ NextNumber(p, q) \in Nat /\ NextIndex(p, q) \in Nat
           /\ \A n \in Numbers(p, q) : /\ n \in Nat /\ n < NextNumber(p, q)
                                       /\ Index(p, q, n) \in Nat
           /\ Expected(p, q) \in Nat
           /\ Held(p, q) \subseteq Nat
           /\ Received(p, q) \subseteq Nat /\ IsFiniteSet(Received(p, q))
<1>1. CASE ~ Holds(p, q)
  BY <1>1, FS_EmptySet DEF NextNumber, NextIndex, Numbers, Expected, Held, Received
<1>2. CASE Holds(p, q)
  <2>1. IsConnection(connections[p][q])
    BY <1>2 DEF TypeInv, ConnectionsInv, Holds
  <2> QED BY <1>2, <2>1
          DEF NextNumber, NextIndex, Numbers, Index, Expected, Held, Received,
              IsConnection, IsFrame, ChannelState
<1> QED BY <1>1, <1>2

LEMMA DataInFlight ==
    ASSUME TypeInv, NEW d \in net, "datagram" \in DOMAIN d
    PROVE  /\ d.datagram.sequence_number \in Nat
           /\ d.datagram.frame.ordering_index \in Nat
           /\ "offline" \notin DOMAIN d
  BY DEF TypeInv, NetInv, IsDatagram, IsFrame

LEMMA AlignedGrows ==
    ASSUME TypeInv, TypeInv', NEW p \in Peer, NEW q \in Remote(p), q \in Peer,
           p \in Remote(q), Aligned(p, q), Grows(p, q), SameChannel(q, p)
    PROVE  Aligned(p, q)'
<1> DEFINE num == NextNumber(p, q)
           ord == NextIndex(p, q)
           tab == Numbers(p, q)
           idx(n) == Index(p, q, n)
           num2 == NextNumber(p, q)'
           ord2 == NextIndex(p, q)'
           tab2 == Numbers(p, q)'
           idx2(n) == Index(p, q, n)'
           has(i) == Has(q, p, i)
<1>1. /\ num \in Nat /\ ord \in Nat
      /\ \A n \in tab : n \in Nat /\ n < num /\ idx(n) \in Nat
  BY StreamTypes
<1>2. num2 \in Nat /\ ord2 \in Nat
  BY DEF NextNumber, NextIndex, TypeInv, ConnectionsInv, IsConnection, Holds
<1>3. /\ num2 >= num /\ ord2 >= ord /\ num2 <= MaxDatagrams + ord2
      /\ \A n \in tab2 : idx2(n) < ord2 /\ ((n \in tab /\ idx2(n) = idx(n)) \/ n >= num)
      /\ \A n \in tab : has(idx(n)) \/ \E m \in tab2 : idx2(m) = idx(n)
      /\ \A i \in ord .. (ord2 - 1) : \E m \in tab2 : idx2(m) = i
  BY DEF Grows
<1>4. \A i : Has(q, p, i)' <=> has(i)
  BY DEF SameChannel, Has
<1>5. DataAligned(p, q)'
  <2> SUFFICES ASSUME NEW d \in net', "datagram" \in DOMAIN d, d.from = p, d.to = q,
                      NEW n, NEW i, n = d.datagram.sequence_number,
                      i = d.datagram.frame.ordering_index
               PROVE  n < num2 /\ i < ord2 /\ (n \in tab2 => idx2(n) = i)
    BY DEF DataAligned
  <2>1. CASE d \in net
    <3>1. n < num /\ i < ord /\ (n \in tab => idx(n) = i)
      BY <2>1 DEF Aligned, DataAligned
    <3>2. n \in Nat /\ i \in Nat
      BY <2>1, DataInFlight
    <3> HIDE DEF num, ord, tab, idx, num2, ord2, tab2, idx2, has
    <3> QED BY <1>1, <1>2, <1>3, <3>1, <3>2
  <2>2. CASE d \notin net
    <3>1. "offline" \notin DOMAIN d
      BY DEF TypeInv, NetInv, IsDatagram
    <3>2. d \in News(p, q)
      BY <2>2, <3>1 DEF News
    <3> QED BY <3>2 DEF Grows
  <2> QED BY <2>1, <2>2
<1>6. \A n : Settled(p, q, n) => Settled(p, q, n)'
  <2> SUFFICES ASSUME NEW n \in Nat, n < num, n \in tab => has(idx(n))
               PROVE  n < num2 /\ (n \in tab2 => has(idx2(n)))
    BY <1>4 DEF Settled
  <2> HIDE DEF num, ord, tab, idx, num2, ord2, tab2, idx2, has
  <2> QED BY <1>1, <1>2, <1>3
<1>7. ReceiptsAligned(p, q)'
  <2>1. ASSUME NEW n \in Received(q, p)' PROVE Settled(p, q, n)'
    <3>1. n \in Received(q, p)
      BY DEF SameChannel
    <3> QED BY <1>6, <3>1 DEF Aligned, ReceiptsAligned
  <2>2. ASSUME NEW d \in net', "ack" \in DOMAIN d, d.from = q, d.to = p,
               NEW n \in SequenceNumbers(d.ack)
        PROVE  Settled(p, q, n)'
    <3>1. "offline" \notin DOMAIN d
      BY <2>2 DEF TypeInv, NetInv, IsDatagram
    <3>2. d \in net
      BY <2>2, <3>1 DEF SameChannel, News
    <3> QED BY <1>6, <2>2, <3>2 DEF Aligned, ReceiptsAligned
  <2> QED BY <2>1, <2>2 DEF ReceiptsAligned
<1>8. ChannelAligned(p, q)'
  <2>1. Expected(q, p) \in Nat /\ Held(q, p) \subseteq Nat
    BY StreamTypes
  <2>2. Expected(q, p) <= ord /\ \A i \in Held(q, p) : i < ord
    BY DEF Aligned, ChannelAligned
  <2>3. Expected(q, p) <= ord2 /\ \A i \in Held(q, p) : i < ord2
    <3> HIDE DEF ord, ord2
    <3> QED BY <1>1, <1>2, <1>3, <2>1, <2>2
  <2> QED BY <2>3 DEF ChannelAligned, SameChannel
<1>9. AllReach(p, q)'
  <2>1. \A i \in 0 .. (ord - 1) : has(i) \/ \E n \in tab : idx(n) = i
    BY DEF Aligned, AllReach
  <2>2. ASSUME NEW i \in 0 .. (ord2 - 1) PROVE has(i) \/ \E n \in tab2 : idx2(n) = i
    <3> HIDE DEF num, ord, tab, idx, num2, ord2, tab2, idx2, has
    <3>1. CASE i < ord
      BY <1>1, <1>2, <1>3, <2>1, <3>1
    <3>2. CASE i >= ord
      BY <1>1, <1>2, <1>3, <3>2
    <3> QED BY <1>1, <1>2, <3>1, <3>2
  <2> QED BY <1>3, <1>4, <2>2 DEF AllReach
<1> QED BY <1>5, <1>7, <1>8, <1>9 DEF Aligned

LEMMA AlignedGathers ==
    ASSUME TypeInv, TypeInv', NEW p \in Peer, NEW q \in Remote(p), q \in Peer,
           p \in Remote(q), Aligned(p, q), Gathers(q, p), SameStream(p, q)
    PROVE  Aligned(p, q)'
<1>1. \A n \in Numbers(p, q) : Index(p, q, n) \in Nat
  BY StreamTypes
<1>2. DataAligned(p, q)'
  <2> SUFFICES ASSUME NEW d \in net', "datagram" \in DOMAIN d, d.from = p, d.to = q
               PROVE  LET n == d.datagram.sequence_number
                          i == d.datagram.frame.ordering_index
                      IN  /\ n < NextNumber(p, q)
                          /\ i < NextIndex(p, q)
                          /\ n \in Numbers(p, q) => Index(p, q, n) = i
    BY DEF DataAligned, SameStream
  <2>1. "offline" \notin DOMAIN d
    BY DEF TypeInv, NetInv, IsDatagram
  <2>2. d \in net
    BY <2>1 DEF SameStream, News
  <2> QED BY <2>2 DEF Aligned, DataAligned
<1>3. \A n : Settled(p, q, n) => Settled(p, q, n)'
  BY <1>1 DEF Settled, SameStream, Gathers
<1>4. ReceiptsAligned(p, q)'
  <2>1. ASSUME NEW n \in Received(q, p)' PROVE Settled(p, q, n)'
    <3>1. CASE n \in Received(q, p)
      BY <1>3, <3>1 DEF Aligned, ReceiptsAligned
    <3>2. ASSUME NEW d \in net, "datagram" \in DOMAIN d, d.from = p, d.to = q,
                 n = d.datagram.sequence_number,
                 Has(q, p, d.datagram.frame.ordering_index)'
          PROVE  Settled(p, q, n)'
      BY <3>2, DataInFlight DEF Aligned, DataAligned, Settled, SameStream
    <3> QED BY <3>1, <3>2 DEF Gathers
  <2>2. ASSUME NEW d \in net', "ack" \in DOMAIN d, d.from = q, d.to = p,
               NEW n \in SequenceNumbers(d.ack)
        PROVE  Settled(p, q, n)'
    <3>1. CASE d \in net
      BY <1>3, <2>2, <3>1 DEF Aligned, ReceiptsAligned
    <3>2. CASE d \notin net
      <4>1. "offline" \notin DOMAIN d
        BY <2>2 DEF TypeInv, NetInv, IsDatagram
      <4>2. d \in News(q, p)
        BY <2>2, <3>2, <4>1 DEF News
      <4>3. n \in Received(q, p)
        BY <2>2, <4>2 DEF Gathers
      <4> QED BY <1>3, <4>3 DEF Aligned, ReceiptsAligned
    <3> QED BY <3>1, <3>2
  <2> QED BY <2>1, <2>2 DEF ReceiptsAligned
<1>5. ChannelAligned(p, q)'
  BY DEF ChannelAligned, Gathers, SameStream
<1>6. AllReach(p, q)'
  <2>1. \A i \in 0 .. (NextIndex(p, q) - 1) :
           Has(q, p, i)' \/ \E n \in Numbers(p, q) : Index(p, q, n) = i
    BY DEF Aligned, AllReach, Gathers
  <2>2. /\ \A n \in Numbers(p, q) : Index(p, q, n) < NextIndex(p, q)
        /\ NextNumber(p, q) <= MaxDatagrams + NextIndex(p, q)
    BY DEF Aligned, AllReach
  <2> QED BY <2>1, <2>2 DEF AllReach, SameStream
<1> QED BY <1>2, <1>4, <1>5, <1>6 DEF Aligned

(* The connection new is conn after some messages, which went out: each    *)
(* took the next number and the next index.                                *)
IndexOf(conn, n) == conn.send_ordering_index + (n - conn.send_sequence_number)

Added(conn, new) == conn.send_sequence_number .. (new.send_sequence_number - 1)

Appends(conn, new, out) ==
    /\ new.send_sequence_number >= conn.send_sequence_number
    /\ new.send_ordering_index = IndexOf(conn, new.send_sequence_number)
    /\ DOMAIN new.sent_datagrams = DOMAIN conn.sent_datagrams \union Added(conn, new)
    /\ \A n \in DOMAIN conn.sent_datagrams :
          new.sent_datagrams[n] = conn.sent_datagrams[n]
    /\ \A n \in Added(conn, new) :
          new.sent_datagrams[n].ordering_index = IndexOf(conn, n)
    /\ \A e \in out :
          /\ "datagram" \in DOMAIN e
          /\ \E n \in Added(conn, new) :
                /\ e.datagram.sequence_number = n % NumberMod
                /\ e.datagram.frame.ordering_index = IndexOf(conn, n) % IndexMod

LEMMA AppendsNone ==
    ASSUME NEW conn, IsConnection(conn), NEW new,
           new.send_sequence_number = conn.send_sequence_number,
           new.send_ordering_index = conn.send_ordering_index,
           new.sent_datagrams = conn.sent_datagrams
    PROVE  Appends(conn, new, {})
<1>1. conn.send_sequence_number \in Nat /\ conn.send_ordering_index \in Nat
  BY DEF IsConnection
<1>2. IndexOf(conn, conn.send_sequence_number) = conn.send_ordering_index
  BY <1>1 DEF IndexOf
<1>3. Added(conn, new) = {}
  BY <1>1 DEF Added
<1> QED BY <1>1, <1>2, <1>3 DEF Appends

LEMMA AppendsOne ==
    ASSUME NEW conn, IsConnection(conn), NEW s, IsConnection(s), NEW out,
           Appends(conn, s, out), NEW b, NEW p, NEW q, NEW t,
           t.send_sequence_number = SendReliable(s, b).send_sequence_number,
           t.send_ordering_index = SendReliable(s, b).send_ordering_index,
           t.sent_datagrams = SendReliable(s, b).sent_datagrams
    PROVE  Appends(conn, t, out \union {Sent(p, q, s, b)})
<1> DEFINE m == s.send_sequence_number
           a == conn.send_sequence_number
           i == conn.send_ordering_index
<1>1. /\ m \in Nat /\ a \in Nat /\ i \in Nat
      /\ s.send_ordering_index \in Nat
  BY DEF IsConnection
<1>2. /\ t.send_sequence_number = m + 1
      /\ t.send_ordering_index = s.send_ordering_index + 1
      /\ DOMAIN t.sent_datagrams = DOMAIN s.sent_datagrams \union {m}
      /\ t.sent_datagrams[m] = NextFrame(s, b)
      /\ \A k \in DOMAIN s.sent_datagrams : t.sent_datagrams[k] = s.sent_datagrams[k]
  BY SendReliableFields
<1>3. NextFrame(s, b).ordering_index = s.send_ordering_index
  BY <1>1, NextFrameFields
<1>4. m >= a /\ s.send_ordering_index = IndexOf(conn, m)
  BY DEF Appends
<1>5. Added(conn, t) = Added(conn, s) \union {m}
  BY <1>1, <1>2, <1>4 DEF Added
<1>6. t.send_ordering_index = IndexOf(conn, m + 1)
  BY <1>1, <1>2, <1>4 DEF IndexOf
<1>7. DOMAIN t.sent_datagrams = DOMAIN conn.sent_datagrams \union Added(conn, t)
  BY <1>2, <1>5 DEF Appends
<1>8. \A n \in DOMAIN conn.sent_datagrams : t.sent_datagrams[n] = conn.sent_datagrams[n]
  BY <1>2 DEF Appends
<1>9. ASSUME NEW n \in Added(conn, t)
      PROVE  t.sent_datagrams[n].ordering_index = IndexOf(conn, n)
  <2>1. CASE n = m
    BY <1>2, <1>3, <1>4, <2>1
  <2>2. CASE n \in Added(conn, s)
    BY <1>2, <2>2 DEF Appends
  <2> QED BY <1>5, <1>9, <2>1, <2>2
<1>10. ASSUME NEW e \in out \union {Sent(p, q, s, b)}
       PROVE  /\ "datagram" \in DOMAIN e
              /\ \E n \in Added(conn, t) :
                    /\ e.datagram.sequence_number = n % NumberMod
                    /\ e.datagram.frame.ordering_index = IndexOf(conn, n) % IndexMod
  <2>1. CASE e \in out
    BY <1>5, <2>1 DEF Appends
  <2>2. CASE e = Sent(p, q, s, b)
    <3>1. /\ "datagram" \in DOMAIN e
          /\ e.datagram.sequence_number = m % NumberMod
          /\ e.datagram.frame.ordering_index = IndexOf(conn, m) % IndexMod
      BY <1>4, <2>2, SentFields
    <3> QED BY <1>5, <3>1
  <2> QED BY <1>10, <2>1, <2>2
<1>11. t.send_sequence_number >= a
  BY <1>1, <1>2, <1>4
<1> HIDE DEF m, a, i
<1> QED BY <1>2, <1>6, <1>7, <1>8, <1>9, <1>10, <1>11 DEF Appends, m, a

LEMMA AppendsSame ==
    ASSUME NEW conn, NEW s, NEW out, Appends(conn, s, out), NEW t,
           t.send_sequence_number = s.send_sequence_number,
           t.send_ordering_index = s.send_ordering_index,
           t.sent_datagrams = s.sent_datagrams
    PROVE  Appends(conn, t, out)
  BY DEF Appends, Added

(* The handlers of a datagram's messages only append to the stream, and    *)
(* leave alone what the datagram itself has left.                          *)
LEMMA RunAppends ==
    ASSUME TypeInv, NEW d \in net, "datagram" \in DOMAIN d, Holds(d.to, d.from),
           NEW seen, NEW run, IsRun(d, seen, run)
    PROVE  \A k \in 0 .. Len(Due(d).ready) :
              /\ Appends(Conn(d), run[k].conn, run[k].out)
              /\ run[k].conn.channel = Due(d).state
              /\ run[k].conn.received_sequences =
                    Conn(d).received_sequences \union {d.datagram.sequence_number}
<1> DEFINE N == Len(Due(d).ready)
           seqs == Conn(d).received_sequences \union {d.datagram.sequence_number}
           G == {k \in 0 .. N : /\ Appends(Conn(d), run[k].conn, run[k].out)
                                /\ run[k].conn.channel = Due(d).state
                                /\ run[k].conn.received_sequences = seqs}
<1>1. N \in Nat
  BY DEF IsRun
<1>0. IsConnection(Conn(d))
  <2>1. d.to \in Peer
    BY TakenInIsHandling DEF Holds
  <2> QED BY <2>1 DEF TypeInv, ConnectionsInv, Conn, Holds
<1>2. 0 \in G
  <2>1. run[0].out = {} /\ run[0] = TakenIn(d)
    BY DEF IsRun, TakenIn
  <2>2. /\ TakenIn(d).conn.channel = Due(d).state
        /\ TakenIn(d).conn.received_sequences = seqs
        /\ TakenIn(d).conn.send_sequence_number = Conn(d).send_sequence_number
        /\ TakenIn(d).conn.send_ordering_index = Conn(d).send_ordering_index
        /\ TakenIn(d).conn.sent_datagrams = Conn(d).sent_datagrams
    BY TakenInIsHandling DEF Holds
  <2>3. Appends(Conn(d), TakenIn(d).conn, {})
    BY <1>0, <2>2, AppendsNone
  <2>4. Appends(Conn(d), run[0].conn, run[0].out)
    BY <2>1, <2>3
  <2>5. run[0].conn.channel = Due(d).state /\ run[0].conn.received_sequences = seqs
    BY <2>1, <2>2
  <2>6. 0 \in 0 .. N
    BY <1>1
  <2> HIDE DEF seqs, N
  <2> QED BY <2>4, <2>5, <2>6
<1>3. ASSUME NEW k \in 1 .. N, k - 1 \in G PROVE k \in G
  <2> DEFINE s == run[k - 1]
             t == run[k]
             SameOf(x, y) == /\ x.channel = y.channel
                             /\ x.received_sequences = y.received_sequences
                             /\ x.send_sequence_number = y.send_sequence_number
                             /\ x.send_ordering_index = y.send_ordering_index
                             /\ x.sent_datagrams = y.sent_datagrams
  <2>1. /\ Handled(d.to, d.from, s, Due(d).ready[k], seen, t)
        /\ IsConnection(s.conn)
        /\ k \in 0 .. N /\ k - 1 \in 0 .. N
    BY <1>1 DEF IsRun, IsHandling
  <2>2. /\ s.conn.channel = Due(d).state
        /\ s.conn.received_sequences = seqs
        /\ Appends(Conn(d), s.conn, s.out)
    BY <1>3
  <2>4. ASSUME SameOf(t.conn, s.conn), t.out = s.out
        PROVE  k \in G
    <3>1. Appends(Conn(d), t.conn, s.out)
      BY <2>2, <2>4, AppendsSame
    <3> QED BY <2>1, <2>2, <2>4, <3>1
  <2>5. ASSUME NEW b, NEW p, NEW q, SameOf(t.conn, SendReliable(s.conn, b)),
               t.out = s.out \union {Sent(p, q, s.conn, b)}
        PROVE  k \in G
    <3>1. /\ SendReliable(s.conn, b).channel = s.conn.channel
          /\ SendReliable(s.conn, b).received_sequences = s.conn.received_sequences
      BY <2>1, SendReliableFields
    <3>2. Appends(Conn(d), t.conn, s.out \union {Sent(p, q, s.conn, b)})
      BY <1>0, <2>1, <2>2, <2>5, AppendsOne
    <3>3. t.conn.channel = Due(d).state /\ t.conn.received_sequences = seqs
      BY <2>2, <2>5, <3>1
    <3> HIDE DEF s, t, seqs
    <3> QED BY <2>1, <2>5, <3>2, <3>3 DEF t
  <2>6. ASSUME NEW state \in {"Connected", "Disconnected"},
               t.conn = InState(s.conn, state), t.out = s.out
        PROVE  k \in G
    <3>1. SameOf(t.conn, s.conn)
      BY <2>1, <2>6, InStateFields
    <3> QED BY <2>4, <2>6, <3>1
  <2>7. CASE t.conn = s.conn /\ t.out = s.out
    BY <2>4, <2>7
  <2>8. CASE /\ t.conn = SendReliable(s.conn, "ConnectionRequestAccepted")
             /\ t.out = s.out \union
                  {Sent(Server, d.from, s.conn, "ConnectionRequestAccepted")}
    BY <2>5, <2>8
  <2>9. CASE /\ t.conn = InState(SendReliable(s.conn, "NewIncomingConnection"),
                                 "Connected")
             /\ t.out = s.out \union
                  {Sent(d.to, d.from, s.conn, "NewIncomingConnection")}
    <3> DEFINE u == SendReliable(s.conn, "NewIncomingConnection")
    <3>2. IsConnection(u)
      BY <2>1, SendReliableFields
    <3>3. SameOf(t.conn, u)
      <4> HIDE DEF u
      <4> QED BY <2>9, <3>2, InStateFields DEF u
    <3> QED BY <2>5, <2>9, <3>3
  <2> QED
    <3> HIDE DEF G
    <3> QED BY <2>1, <2>6, <2>7, <2>8, <2>9 DEF Handled
<1>4. \A k \in 0 .. N : k \in G
  <2> HIDE DEF N, G
  <2> QED BY <1>1, <1>2, <1>3, StepsInduction
<1> QED BY <1>4

-----------------------------------------------------------------------------
(***************************************************************************)
(* What the steps of the sender do to a stream.                            *)
(***************************************************************************)
LEMMA SmallNumbers ==
    ASSUME NoWrap, NoReuse, NEW num \in Nat, NEW ord \in Nat,
           ord <= MaxGames + 2, num <= MaxDatagrams + ord
    PROVE  /\ \A n \in Nat : n < num => n % NumberMod = n
           /\ \A i \in Nat : i < ord => i % IndexMod = i
<1>1. /\ NumberMod \in Nat /\ IndexMod \in Nat
      /\ MaxGames \in Nat /\ MaxDatagrams \in Nat
  BY ModuliAssumption, BoundsAssumption
<1>2. num <= NumberMod /\ ord <= IndexMod
  BY <1>1 DEF NoWrap, NoReuse
<1> QED BY <1>1, <1>2

LEMMA IndexBound ==
    ASSUME TypeInv', StageInv', NEW p \in Peer, NEW q \in Remote(p)
    PROVE  /\ NextIndex(p, q)' \in Nat /\ NextNumber(p, q)' \in Nat
           /\ NextIndex(p, q)' <= MaxGames + 2
<1>1. /\ games' \in Nat /\ games' <= MaxGames /\ MaxGames \in Nat
  BY BoundsAssumption DEF TypeInv, VariablesInv, StageInv
<1>2. CASE ~ Holds(p, q)'
  BY <1>1, <1>2 DEF NextIndex, NextNumber
<1>3. CASE Holds(p, q)'
  <2>1. IsConnection(connections'[p][q])
    BY <1>3 DEF TypeInv, ConnectionsInv, Holds
  <2>2. connections'[p][q].send_ordering_index <= 2 + games'
    BY <1>3 DEF StageInv, ConnectionsInStage, InStage, Stage
  <2> QED BY <1>1, <1>3, <2>1, <2>2 DEF NextIndex, NextNumber, IsConnection
<1> QED BY <1>2, <1>3

(* p's stream to q is as far as conn. *)
FarAs(p, q, conn) ==
    /\ IsConnection(conn)
    /\ NextNumber(p, q) = conn.send_sequence_number
    /\ NextIndex(p, q) = conn.send_ordering_index
    /\ Numbers(p, q) = DOMAIN conn.sent_datagrams
    /\ \A n \in Numbers(p, q) : Index(p, q, n) = conn.sent_datagrams[n].ordering_index

LEMMA HeldFar ==
    ASSUME TypeInv, NEW p \in Peer, NEW q, Holds(p, q)
    PROVE  FarAs(p, q, connections[p][q])
<1>1. IsConnection(connections[p][q])
  BY DEF TypeInv, ConnectionsInv, Holds
<1> QED BY <1>1 DEF FarAs, NextNumber, NextIndex, Numbers, Index

LEMMA NewFar ==
    ASSUME NEW p, NEW q, ~ Holds(p, q)
    PROVE  FarAs(p, q, NewConnection)
  BY NewConnectionFields DEF FarAs, NextNumber, NextIndex, Numbers

LEMMA AppendsGrows ==
    ASSUME TypeInv, TypeInv', StageInv', NoWrap, NoReuse,
           NEW p \in Peer, NEW q \in Remote(p), Aligned(p, q),
           NEW conn, FarAs(p, q, conn), Holds(p, q)',
           NEW out, Appends(conn, connections'[p][q], out), News(p, q) \subseteq out
    PROVE  Grows(p, q)
<1> DEFINE num == NextNumber(p, q)
           ord == NextIndex(p, q)
           tab == Numbers(p, q)
           idx(n) == Index(p, q, n)
           num2 == NextNumber(p, q)'
           ord2 == NextIndex(p, q)'
           tab2 == Numbers(p, q)'
           idx2(n) == Index(p, q, n)'
           added == num .. (num2 - 1)
           sent(n) == ord + (n - num)
<1>1. /\ num \in Nat /\ ord \in Nat
      /\ \A n \in tab : n \in Nat /\ n < num /\ idx(n) \in Nat
  BY StreamTypes
<1>2. num2 \in Nat /\ ord2 \in Nat /\ ord2 <= MaxGames + 2
  BY IndexBound
<1>3. /\ \A n \in tab : idx(n) < ord
      /\ num <= MaxDatagrams + ord
  BY DEF Aligned, AllReach
<1>4. /\ num2 >= num
      /\ ord2 = sent(num2)
      /\ tab2 = tab \union added
      /\ \A n \in tab : idx2(n) = idx(n)
      /\ \A n \in added : idx2(n) = sent(n)
  <2> DEFINE new == connections'[p][q]
  <2>1. /\ num2 = new.send_sequence_number
        /\ ord2 = new.send_ordering_index
        /\ tab2 = DOMAIN new.sent_datagrams
        /\ \A n : idx2(n) = new.sent_datagrams[n].ordering_index
    BY DEF NextNumber, NextIndex, Numbers, Index
  <2>2. /\ num = conn.send_sequence_number
        /\ ord = conn.send_ordering_index
        /\ tab = DOMAIN conn.sent_datagrams
        /\ \A n \in tab : idx(n) = conn.sent_datagrams[n].ordering_index
    BY DEF FarAs
  <2>3. Appends(conn, new, out)
    OBVIOUS
  <2> HIDE DEF new, num, ord, tab, idx, num2, ord2, tab2, idx2
  <2> QED BY <2>1, <2>2, <2>3 DEF Appends, Added, IndexOf
<1>5. /\ \A e \in out : /\ "datagram" \in DOMAIN e
                        /\ \E n \in added :
                              /\ e.datagram.sequence_number = n % NumberMod
                              /\ e.datagram.frame.ordering_index = sent(n) % IndexMod
  <2>1. Added(conn, connections'[p][q]) = added
    BY DEF Added, FarAs, NextNumber
  <2>2. \A n : IndexOf(conn, n) = sent(n)
    BY DEF IndexOf, FarAs
  <2> HIDE DEF added, sent
  <2> QED BY <2>1, <2>2 DEF Appends
<1> HIDE DEF num, ord, tab, idx, num2, ord2, tab2, idx2
<1>6. num2 <= MaxDatagrams + ord2
  BY <1>1, <1>2, <1>3, <1>4, BoundsAssumption
<1>7. /\ \A n \in Nat : n < num2 => n % NumberMod = n
      /\ \A i \in Nat : i < ord2 => i % IndexMod = i
  BY <1>2, <1>6, SmallNumbers
<1>8. \A n \in added : /\ n \in Nat /\ sent(n) \in Nat /\ n < num2 /\ sent(n) < ord2
                       /\ n >= num /\ n \in tab2
  BY <1>1, <1>2, <1>4
<1>9. ord2 >= ord
  BY <1>1, <1>2, <1>4
<1>10. ASSUME NEW n \in tab2
       PROVE  idx2(n) < ord2 /\ ((n \in tab /\ idx2(n) = idx(n)) \/ n >= num)
  <2>1. CASE n \in tab
    BY <1>1, <1>2, <1>3, <1>4, <1>9, <2>1
  <2>2. CASE n \in added
    BY <1>4, <1>8, <2>2
  <2> HIDE DEF added
  <2> QED BY <1>4, <1>10, <2>1, <2>2
<1>11. \A n \in tab : \E m \in tab2 : idx2(m) = idx(n)
  BY <1>4
<1>12. ASSUME NEW i \in ord .. (ord2 - 1)
       PROVE  \E m \in tab2 : idx2(m) = i
  <2>1. num + (i - ord) \in added
    BY <1>1, <1>2, <1>4
  <2>2. sent(num + (i - ord)) = i
    BY <1>1, <1>2
  <2> QED BY <1>4, <1>8, <2>1, <2>2
<1>13. ASSUME NEW d \in News(p, q), "datagram" \in DOMAIN d,
              NEW n, NEW i, n = d.datagram.sequence_number,
              i = d.datagram.frame.ordering_index
       PROVE  n < num2 /\ i < ord2 /\ (n \in tab2 => idx2(n) = i)
  <2>1. PICK m \in added : n = m % NumberMod /\ i = sent(m) % IndexMod
    BY <1>5, <1>13
  <2>2. n = m /\ i = sent(m)
    <3> HIDE DEF added, sent
    <3> QED BY <1>7, <1>8, <2>1
  <2> HIDE DEF added, sent
  <2> QED BY <1>4, <1>8, <2>2
<1>14. \A d \in News(p, q) : "datagram" \in DOMAIN d =>
         /\ d.datagram.sequence_number < num2
         /\ d.datagram.frame.ordering_index < ord2
         /\ d.datagram.sequence_number \in tab2 =>
               idx2(d.datagram.sequence_number) = d.datagram.frame.ordering_index
  BY <1>13
<1> QED BY <1>4, <1>6, <1>9, <1>10, <1>11, <1>12, <1>14
        DEF Grows, num, ord, tab, idx, num2, ord2, tab2, idx2

LEMMA StaysGrows ==
    ASSUME TypeInv, NEW p \in Peer, NEW q \in Remote(p), Aligned(p, q),
           Stays(p, q) \/ (Left(p, q) /\ ~ Holds(p, q))
    PROVE  Grows(p, q)
<1>1. /\ NextNumber(p, q)' = NextNumber(p, q)
      /\ NextIndex(p, q)' = NextIndex(p, q)
      /\ Numbers(p, q)' = Numbers(p, q)
      /\ \A n \in Numbers(p, q) : Index(p, q, n)' = Index(p, q, n)
      /\ News(p, q) = {}
  <2>1. CASE Stays(p, q)
    BY <2>1 DEF Stays, NextNumber, NextIndex, Numbers, Index
  <2>2. CASE Left(p, q) /\ ~ Holds(p, q)
    <3>1. News(p, q) = {}
      BY <2>2 DEF Left, ConnectedTo, Holds
    <3> QED BY <2>2, <3>1 DEF Left, NextNumber, NextIndex, Numbers
  <2> QED BY <2>1, <2>2
<1>2. /\ NextNumber(p, q) \in Nat /\ NextIndex(p, q) \in Nat
      /\ NextNumber(p, q) <= MaxDatagrams + NextIndex(p, q)
      /\ \A n \in Numbers(p, q) : Index(p, q, n) < NextIndex(p, q)
  BY StreamTypes DEF Aligned, AllReach
<1> QED BY <1>1, <1>2 DEF Grows

LEMMA SendsGrows ==
    ASSUME TypeInv, TypeInv', StageInv', NoWrap, NoReuse,
           NEW p \in Peer, NEW q \in Remote(p), Aligned(p, q), Sends(p, q)
    PROVE  Grows(p, q)
<1> DEFINE conn == connections[p][q]
           out == {} \union {Sent(p, q, conn, "GamePacket")}
<1>1. /\ Holds(p, q) /\ Holds(p, q)'
      /\ connections'[p][q] = SendReliable(conn, "GamePacket")
      /\ News(p, q) \subseteq out
  BY DEF Sends, ConnectedTo, Holds
<1>2. FarAs(p, q, conn) /\ IsConnection(conn)
  BY <1>1, HeldFar DEF FarAs
<1>3. Appends(conn, conn, {})
  BY <1>2, AppendsNone
<1>4. Appends(conn, SendReliable(conn, "GamePacket"), out)
  BY <1>2, <1>3, AppendsOne
<1>5. Appends(conn, connections'[p][q], out)
  BY <1>1, <1>4
<1> HIDE DEF conn, out
<1> QED BY <1>1, <1>2, <1>5, AppendsGrows

LEMMA TakesGrows ==
    ASSUME TypeInv, TypeInv', StageInv', NoWrap, NoReuse,
           NEW p \in Peer, NEW q \in Remote(p), Aligned(p, q), Takes(p, q)
    PROVE  Grows(p, q)
<1>1. PICK d \in net : \E seen, run : TakesFrom(p, q, d, seen, run)
  BY DEF Takes
<1>2. PICK seen, run : TakesFrom(p, q, d, seen, run)
  BY <1>1
<1> DEFINE conn == connections[p][q]
           N == Len(Due(d).ready)
           out == run[N].out
<1>3. /\ d.to = p /\ d.from = q /\ "datagram" \in DOMAIN d
      /\ Holds(p, q) /\ Holds(p, q)' /\ IsRun(d, seen, run) /\ N \in Nat
      /\ connections'[p][q] = run[N].conn
      /\ News(p, q) \subseteq out
  BY <1>2 DEF TakesFrom, IsRun
<1>4. FarAs(p, q, conn)
  BY <1>3, HeldFar
<1>5. Appends(Conn(d), run[N].conn, out)
  <2>1. N \in 0 .. N
    BY <1>3
  <2> QED BY <1>3, <2>1, RunAppends
<1>6. Appends(conn, connections'[p][q], out)
  BY <1>3, <1>5 DEF Conn
<1> HIDE DEF conn, out
<1> QED BY <1>3, <1>4, <1>6, AppendsGrows

LEMMA IsAckedGrows ==
    ASSUME TypeInv, TypeInv', NEW p \in Peer, NEW q \in Remote(p), Aligned(p, q),
           IsAcked(p, q)
    PROVE  Grows(p, q)
<1> DEFINE conn == connections[p][q]
<1>1. PICK d \in net :
         /\ d.to = p /\ d.from = q /\ "ack" \in DOMAIN d
         /\ Holds(p, q) /\ Holds(p, q)'
         /\ connections'[p][q] = Acked(conn, d.ack)
         /\ News(p, q) = {}
  BY DEF IsAcked
<1>2. FarAs(p, q, conn)
  BY <1>1, HeldFar
<1>3. /\ NextNumber(p, q)' = NextNumber(p, q)
      /\ NextIndex(p, q)' = NextIndex(p, q)
      /\ Numbers(p, q)' = Numbers(p, q) \ SequenceNumbers(d.ack)
      /\ \A n \in Numbers(p, q)' : Index(p, q, n)' = Index(p, q, n)
  BY <1>1, <1>2, AckedFields DEF FarAs, NextNumber, NextIndex, Numbers, Index
<1>4. \A n \in SequenceNumbers(d.ack) : Settled(p, q, n)
  BY <1>1 DEF Aligned, ReceiptsAligned
<1>5. \A n \in Numbers(p, q) :
         \/ Has(q, p, Index(p, q, n))
         \/ \E m \in Numbers(p, q)' : Index(p, q, m)' = Index(p, q, n)
  BY <1>3, <1>4 DEF Settled
<1>6. /\ NextNumber(p, q) \in Nat /\ NextIndex(p, q) \in Nat
      /\ NextNumber(p, q) <= MaxDatagrams + NextIndex(p, q)
      /\ \A n \in Numbers(p, q) : Index(p, q, n) < NextIndex(p, q)
  BY StreamTypes DEF Aligned, AllReach
<1> HIDE DEF conn
<1> QED BY <1>1, <1>3, <1>5, <1>6 DEF Grows

LEMMA TicksGrows ==
    ASSUME TypeInv, TypeInv', StageInv', NoWrap, NoReuse,
           NEW p \in Peer, NEW q \in Remote(p), Aligned(p, q), Ticks(p, q)
    PROVE  Grows(p, q)
<1> DEFINE conn == connections[p][q]
           num == NextNumber(p, q)
           ord == NextIndex(p, q)
           tab == Numbers(p, q)
           idx(n) == Index(p, q, n)
           num2 == NextNumber(p, q)'
           ord2 == NextIndex(p, q)'
           tab2 == Numbers(p, q)'
           idx2(n) == Index(p, q, n)'
<1>1. PICK k \in Nat :
         /\ Holds(p, q) /\ Holds(p, q)'
         /\ connections'[p][q] = Maintained(conn, k)
         /\ News(p, q) \subseteq Outbound(p, q, conn, k)
         /\ Overdue(conn, k) # {} =>
               conn.send_sequence_number + Cardinality(Overdue(conn, k)) <= MaxDatagrams
  BY DEF Ticks
<1> DEFINE T == Overdue(conn, k)
           resent == Resent(conn, k)
           card == Cardinality(T)
<1>2. FarAs(p, q, conn) /\ IsConnection(conn)
  BY <1>1, HeldFar DEF FarAs
<1>3. /\ num \in Nat /\ ord \in Nat
      /\ \A n \in tab : n \in Nat /\ n < num /\ idx(n) \in Nat
  BY StreamTypes
<1>4. /\ \A n \in tab : idx(n) < ord
      /\ num <= MaxDatagrams + ord
  BY DEF Aligned, AllReach
<1>5. /\ T \subseteq tab /\ card \in Nat
      /\ T = {} => card = 0
  <2>1. T \subseteq DOMAIN conn.sent_datagrams /\ card \in Nat
    BY <1>2, OverdueIsRecorded
  <2> HIDE DEF T
  <2> QED BY <1>2, <2>1, FS_EmptySet DEF FarAs
<1>6. /\ num2 = num + card /\ ord2 = ord
      /\ DOMAIN resent = num .. (num + card - 1)
      /\ tab2 = (tab \ T) \union DOMAIN resent
  <2> DEFINE new == connections'[p][q]
  <2>0. new = Maintained(conn, k)
    BY <1>1
  <2>1. /\ new.send_sequence_number = conn.send_sequence_number + card
        /\ new.send_ordering_index = conn.send_ordering_index
        /\ DOMAIN resent = conn.send_sequence_number .. (conn.send_sequence_number + card - 1)
        /\ DOMAIN new.sent_datagrams =
              (DOMAIN conn.sent_datagrams \ T) \union DOMAIN resent
    <3> HIDE DEF new, conn
    <3>1. MaintainedAs(conn, k, new)
      BY <1>2, <2>0, MaintainedFields
    <3> QED BY <3>1 DEF MaintainedAs
  <2> HIDE DEF card, T, resent, conn
  <2> QED BY <1>1, <1>2, <2>1 DEF FarAs, NextNumber, NextIndex, Numbers, new
<1>7. /\ \A m \in tab \ T : idx2(m) = idx(m)
      /\ \A m \in DOMAIN resent : /\ idx2(m) = resent[m].ordering_index
                                  /\ \E s \in T : resent[m] = conn.sent_datagrams[s]
      /\ \A s \in T : \E m \in DOMAIN resent : resent[m] = conn.sent_datagrams[s]
  <2> DEFINE new == connections'[p][q]
  <2>0. new = Maintained(conn, k)
    BY <1>1
  <2>1. /\ \A m \in DOMAIN conn.sent_datagrams \ T :
              new.sent_datagrams[m] = conn.sent_datagrams[m]
        /\ \A m \in DOMAIN resent :
              /\ new.sent_datagrams[m] = resent[m]
              /\ \E s \in T : resent[m] = conn.sent_datagrams[s]
        /\ \A s \in T : \E m \in DOMAIN resent : resent[m] = conn.sent_datagrams[s]
    <3> HIDE DEF new, conn
    <3>1. MaintainedAs(conn, k, new)
      BY <1>2, <2>0, MaintainedFields
    <3> QED BY <3>1 DEF MaintainedAs
  <2> HIDE DEF card, T, resent, conn
  <2> QED BY <1>2, <2>1 DEF FarAs, Index, conn, new
<1>8. /\ \A m \in DOMAIN resent : \E s \in T : idx2(m) = idx(s)
      /\ \A s \in T : \E m \in DOMAIN resent : idx2(m) = idx(s)
  <2>1. \A s \in T : idx(s) = conn.sent_datagrams[s].ordering_index
    BY <1>2, <1>5 DEF FarAs
  <2> HIDE DEF card, T, resent, conn, idx, idx2
  <2> QED BY <1>7, <2>1
<1>9. \A m \in DOMAIN resent : /\ m \in Nat /\ m >= num /\ m < num2 /\ m \in tab2
                               /\ idx2(m) \in Nat /\ idx2(m) < ord
  <2> HIDE DEF card, T, resent, conn, idx, idx2, num, ord, tab, num2, ord2, tab2
  <2>1. \A m \in DOMAIN resent : m \in Nat /\ m >= num /\ m < num2 /\ m \in tab2
    BY <1>3, <1>5, <1>6
  <2>2. \A s \in T : idx(s) \in Nat /\ idx(s) < ord
    BY <1>3, <1>4, <1>5
  <2> QED BY <1>8, <2>1, <2>2
<1>10. num2 <= MaxDatagrams + ord2
  <2>1. T # {} => num + card <= MaxDatagrams
    BY <1>1, <1>2 DEF FarAs
  <2> HIDE DEF card, T, resent, conn, idx, idx2, num, ord, tab, num2, ord2, tab2
  <2> QED BY <1>3, <1>4, <1>5, <1>6, <2>1, BoundsAssumption
<1>11. /\ \A n \in Nat : n < num2 => n % NumberMod = n
       /\ \A i \in Nat : i < ord2 => i % IndexMod = i
  <2>1. num2 \in Nat /\ ord2 \in Nat /\ ord2 <= MaxGames + 2
    BY IndexBound
  <2> HIDE DEF num2, ord2
  <2> QED BY <1>10, <2>1, SmallNumbers
<1>12. ASSUME NEW d \in News(p, q), "datagram" \in DOMAIN d
       PROVE  /\ d.datagram.sequence_number < num2
              /\ d.datagram.frame.ordering_index < ord2
              /\ d.datagram.sequence_number \in tab2 =>
                    idx2(d.datagram.sequence_number) = d.datagram.frame.ordering_index
  <2>1. PICK m \in DOMAIN resent : d = Data(p, q, m, resent[m])
    BY <1>1, <1>12 DEF Outbound, Ack
  <2>2. IsFrame(resent[m])
    BY <1>2, <1>5, <1>7, <2>1 DEF FarAs, IsConnection
  <2>3. /\ d.datagram.sequence_number = m % NumberMod
        /\ d.datagram.frame.ordering_index = resent[m].ordering_index % IndexMod
    BY <1>9, <2>1, <2>2, DataFields
  <2>4. idx2(m) = resent[m].ordering_index
    BY <1>7
  <2> HIDE DEF card, T, resent, conn, idx, idx2, num, ord, tab, num2, ord2, tab2
  <2> QED BY <1>6, <1>9, <1>11, <2>1, <2>3, <2>4
<1>13. ASSUME NEW n \in tab2
       PROVE  idx2(n) < ord2 /\ ((n \in tab /\ idx2(n) = idx(n)) \/ n >= num)
  <2> HIDE DEF card, T, resent, conn, idx, idx2, num, ord, tab, num2, ord2, tab2
  <2>1. CASE n \in tab \ T
    BY <1>3, <1>4, <1>6, <1>7, <2>1
  <2>2. CASE n \in DOMAIN resent
    BY <1>6, <1>9, <2>2
  <2> QED BY <1>6, <1>13, <2>1, <2>2
<1>14. ASSUME NEW n \in tab PROVE \E m \in tab2 : idx2(m) = idx(n)
  <2> HIDE DEF card, T, resent, conn, idx, idx2, num, ord, tab, num2, ord2, tab2
  <2>1. CASE n \in T
    BY <1>6, <1>8, <2>1
  <2>2. CASE n \notin T
    BY <1>6, <1>7, <1>14, <2>2
  <2> QED BY <2>1, <2>2
<1> HIDE DEF card, T, resent, conn, idx, idx2, num, ord, tab, num2, ord2, tab2
<1>15. num2 >= num /\ ord2 >= ord /\ ord .. (ord2 - 1) = {}
  BY <1>3, <1>5, <1>6
<1> QED BY <1>10, <1>12, <1>13, <1>14, <1>15
        DEF Grows, idx, idx2, num, ord, tab, num2, ord2, tab2

LEMMA OpenedGrows ==
    ASSUME TypeInv, TypeInv', StageInv', NoWrap, NoReuse,
           NEW p \in Peer, NEW q \in Remote(p), Aligned(p, q),
           \A c \in Client : OnceInv(c) /\ WaitingInv(c),
           Opened(p, q)
    PROVE  Grows(p, q)
<1> DEFINE request == "ConnectionRequest"
           first == SendReliable(NewConnection, request)
           out == {} \union {Sent(p, q, NewConnection, request)}
<1>0. Holds(p, q)' /\ IsConnection(NewConnection)
  BY NewConnectionFields DEF Opened
<1>1. Appends(NewConnection, NewConnection, {})
  BY <1>0, AppendsNone
<1>2. CASE /\ p = Server
           /\ Offline(q, Server, "OpenConnectionRequest2") \in net
           /\ connections'[p][q] = NewConnection
           /\ News(p, q) = {}
  <2>1. q \in Client
    BY <1>2, PeersApart DEF Remote
  <2>2. Token(q, "OpenConnectionRequest2") \in net
    BY <1>2, <2>1, TokenFields
  <2>3. ~ Holds(p, q)
    BY <1>2, <2>1, <2>2 DEF OnceInv, Steps
  <2>4. FarAs(p, q, NewConnection)
    BY <2>3, NewFar
  <2>5. Appends(NewConnection, connections'[p][q], {}) /\ News(p, q) \subseteq {}
    BY <1>1, <1>2
  <2> QED BY <1>0, <2>4, <2>5, AppendsGrows
<1>3. CASE /\ p \in Client /\ connecting[p]
           /\ connections'[p][q] = first
           /\ News(p, q) \subseteq out
  <2>0. q = Server
    BY <1>3, PeersApart DEF Remote
  <2>1. CASE ~ Holds(p, q)
    <3>1. FarAs(p, q, NewConnection)
      BY <2>1, NewFar
    <3>2. Appends(NewConnection, first, out)
      BY <1>0, <1>1, AppendsOne
    <3>3. Appends(NewConnection, connections'[p][q], out)
      BY <1>3, <3>2
    <3> HIDE DEF out, first
    <3> QED BY <1>0, <1>3, <3>1, <3>3, AppendsGrows
  <2>2. CASE Holds(p, q)
    <3>1. /\ NextNumber(p, q) = 1 /\ NextIndex(p, q) = 1
          /\ Numbers(p, q) = {0} /\ Index(p, q, 0) = 0
      BY <1>3, <2>0, <2>2 DEF WaitingInv
    <3>2. /\ first.send_sequence_number = 1 /\ first.send_ordering_index = 1
          /\ DOMAIN first.sent_datagrams = {0}
          /\ first.sent_datagrams[0] = NextFrame(NewConnection, request)
      BY <1>0, NewConnectionFields, SendReliableFields
    <3>3. NextFrame(NewConnection, request).ordering_index = 0
      BY NewConnectionFields, NextFrameFields
    <3>4. /\ NextNumber(p, q)' = 1 /\ NextIndex(p, q)' = 1
          /\ Numbers(p, q)' = {0} /\ Index(p, q, 0)' = 0
      <4> HIDE DEF first
      <4> QED BY <1>0, <1>3, <3>2, <3>3 DEF NextNumber, NextIndex, Numbers, Index
    <3>5. \A d \in News(p, q) : /\ d.datagram.sequence_number = 0
                                /\ d.datagram.frame.ordering_index = 0
      <4>1. /\ Sent(p, q, NewConnection, request).datagram.sequence_number = 0 % NumberMod
            /\ Sent(p, q, NewConnection, request).datagram.frame.ordering_index =
                  0 % IndexMod
        BY <1>0, NewConnectionFields, SentFields
      <4>2. 0 % NumberMod = 0 /\ 0 % IndexMod = 0
        BY ModuliAssumption
      <4> QED BY <1>3, <4>1, <4>2
    <3>6. MaxDatagrams \in Nat
      BY BoundsAssumption
    <3> QED BY <3>1, <3>4, <3>5, <3>6 DEF Grows
  <2> QED BY <2>1, <2>2
<1> QED BY <1>2, <1>3 DEF Opened

LEMMA EvolvesGrows ==
    ASSUME TypeInv, TypeInv', StageInv', NoWrap, NoReuse,
           NEW p \in Peer, NEW q \in Remote(p), Aligned(p, q),
           \A c \in Client : OnceInv(c) /\ WaitingInv(c),
           Holds(p, q) => Holds(p, q)', Evolves(p, q)
    PROVE  Grows(p, q)
<1>1. Left(p, q) => ~ Holds(p, q)
  BY DEF Left
<1> QED BY <1>1, StaysGrows, SendsGrows, TakesGrows, IsAckedGrows, TicksGrows,
           OpenedGrows DEF Evolves

-----------------------------------------------------------------------------
(***************************************************************************)
(* ... and those of the receiver: p acts, q sends the stream.              *)
(***************************************************************************)
LEMMA AckNamesReceived ==
    ASSUME TypeInv, TypeInv', NEW p \in Peer, NEW q \in Remote(p), Evolves(p, q),
           NEW d \in News(p, q), "ack" \in DOMAIN d
    PROVE  SequenceNumbers(d.ack) \subseteq Received(p, q)
<1>1. /\ Holds(p, q)
      /\ d = Ack(p, q, connections[p][q].received_sequences)
  BY AckNews
<1>2. Received(p, q) = connections[p][q].received_sequences
  BY <1>1 DEF Received
<1>3. Received(p, q) \subseteq Nat /\ IsFiniteSet(Received(p, q))
  BY StreamTypes
<1>4. d.ack = BuildAck(Received(p, q))
  BY <1>1, <1>2 DEF Ack
<1> QED BY <1>3, <1>4, AckNamesWhatWasReceived

LEMMA QuietGathers ==
    ASSUME TypeInv, TypeInv', NEW p \in Peer, NEW q \in Remote(p), Evolves(p, q),
           Aligned(q, p),
           Expected(p, q)' = Expected(p, q), Held(p, q)' = Held(p, q),
           Received(p, q)' \subseteq Received(p, q)
    PROVE  Gathers(p, q)
<1>1. \A i : Has(p, q, i)' <=> Has(p, q, i)
  BY DEF Has
<1>2. Expected(p, q) <= NextIndex(q, p) /\ \A i \in Held(p, q) : i < NextIndex(q, p)
  BY DEF Aligned, ChannelAligned
<1> QED BY <1>1, <1>2, AckNamesReceived DEF Gathers

LEMMA OpenedGathers ==
    ASSUME TypeInv, TypeInv', NEW p \in Peer, NEW q \in Remote(p), Evolves(p, q),
           Aligned(q, p), \A c \in Client : OnceInv(c) /\ WaitingInv(c),
           Opened(p, q)
    PROVE  Gathers(p, q)
<1>1. Expected(p, q) = 0 /\ Held(p, q) = {}
  <2>1. CASE ~ Holds(p, q)
    BY <2>1 DEF Expected, Held
  <2>2. CASE /\ p = Server
             /\ Offline(q, Server, "OpenConnectionRequest2") \in net
    <3>1. q \in Client
      BY <2>2, PeersApart DEF Remote
    <3>2. Token(q, "OpenConnectionRequest2") \in net
      BY <2>2, <3>1, TokenFields
    <3> QED BY <2>1, <2>2, <3>1, <3>2 DEF OnceInv, Steps
  <2>3. CASE p \in Client /\ connecting[p] /\ Holds(p, q)
    <3>1. q = Server
      BY <2>3, PeersApart DEF Remote
    <3> QED BY <2>3, <3>1 DEF WaitingInv
  <2> QED BY <2>1, <2>2, <2>3 DEF Opened
<1>2. Expected(p, q)' = 0 /\ Held(p, q)' = {} /\ Received(p, q)' = {}
  <2>1. Holds(p, q)'
    BY DEF Opened
  <2>2. /\ connections'[p][q].channel = NewConnection.channel
        /\ connections'[p][q].received_sequences = NewConnection.received_sequences
    BY NewConnectionFields, SendReliableFields DEF Opened
  <2> QED BY <2>1, <2>2, NewConnectionFields DEF Expected, Held, Received
<1> QED BY <1>1, <1>2, QuietGathers

LEMMA TakesGathers ==
    ASSUME TypeInv, TypeInv', NEW p \in Peer, NEW q \in Remote(p), Evolves(p, q),
           Aligned(q, p), Takes(p, q)
    PROVE  Gathers(p, q)
<1>1. PICK d \in net : \E seen, run : TakesFrom(p, q, d, seen, run)
  BY DEF Takes
<1>2. PICK seen, run : TakesFrom(p, q, d, seen, run)
  BY <1>1
<1> DEFINE N == Len(Due(d).ready)
           index == d.datagram.frame.ordering_index
           number == d.datagram.sequence_number
           c == connections[p][q].channel
           o == Due(d)
           ord == NextIndex(q, p)
           held == Put(c.buffered, index, d.datagram.frame.body)
<1>3. /\ d.to = p /\ d.from = q /\ "datagram" \in DOMAIN d
      /\ Holds(p, q) /\ Holds(p, q)' /\ IsRun(d, seen, run) /\ N \in Nat
      /\ connections'[p][q] = run[N].conn
  BY <1>2 DEF TakesFrom, IsRun
<1>4. /\ connections'[p][q].channel = o.state
      /\ connections'[p][q].received_sequences =
            connections[p][q].received_sequences \union {number}
  <2>1. N \in 0 .. N
    BY <1>3
  <2>2. /\ run[N].conn.channel = Due(d).state
        /\ run[N].conn.received_sequences =
              Conn(d).received_sequences \union {d.datagram.sequence_number}
    BY <1>3, <2>1, RunAppends
  <2> QED BY <1>3, <2>2 DEF Conn
<1>5. /\ Expected(p, q) = c.expected_index /\ Held(p, q) = DOMAIN c.buffered
      /\ Expected(p, q)' = o.state.expected_index
      /\ Held(p, q)' = DOMAIN o.state.buffered
      /\ Received(p, q)' = Received(p, q) \union {number}
  BY <1>3, <1>4 DEF Expected, Held, Received
<1>6. /\ index \in Nat /\ index < ord
      /\ ord \in Nat
  <2>1. q \in Peer /\ p \in Remote(q)
    BY PeersApart DEF Remote
  <2> QED BY <1>3, <2>1, DataInFlight, StreamTypes DEF Aligned, DataAligned
<1>7. /\ c.expected_index \in Nat /\ c.expected_index <= ord
      /\ \A i \in DOMAIN c.buffered : i \in Nat /\ i < ord
  <2>1. Expected(p, q) \in Nat /\ Held(p, q) \subseteq Nat
    BY StreamTypes
  <2>2. Expected(p, q) <= ord /\ \A i \in Held(p, q) : i < ord
    BY DEF Aligned, ChannelAligned
  <2> QED BY <1>5, <2>1, <2>2
<1>8. ChannelState(c) /\ c.expected_index \notin DOMAIN c.buffered
  BY <1>3 DEF TypeInv, ConnectionsInv, Holds, IsConnection
<1>9. o = ProcessOrdered(c, index, d.datagram.frame.body)
  BY <1>3 DEF Due, Conn
<1>10. DOMAIN held = DOMAIN c.buffered \union {index}
  BY DEF Put
<1> HIDE DEF o, c, index
<1>11. /\ ChannelState(o.state)
       /\ o.state.expected_index >= c.expected_index
       /\ \A k \in 1 .. (o.state.expected_index - c.expected_index) :
             c.expected_index + k - 1 \in DOMAIN held
       /\ \A k \in DOMAIN o.state.buffered :
             k \in DOMAIN held \/ k \in DOMAIN c.buffered
       /\ \A k \in DOMAIN held :
             k < o.state.expected_index \/ k \in DOMAIN o.state.buffered
  BY <1>6, <1>8, <1>9, ProcessOrderedRun
<1> DEFINE n == o.state.expected_index
           e == c.expected_index
<1>12. n \in Nat
  BY <1>11 DEF ChannelState
<1> HIDE DEF held, n, e, ord, number
<1>13. n >= e /\ e \in Nat /\ e <= ord
  BY <1>7, <1>11 DEF n, e
<1>14. \A i \in DOMAIN held : i \in Nat /\ i < ord
  BY <1>6, <1>7, <1>10
<1>15. n <= ord
  <2>1. CASE n = e
    BY <1>13, <2>1
  <2>2. CASE n > e
    <3>1. n - e \in 1 .. (n - e)
      BY <1>12, <1>13, <2>2
    <3>2. e + (n - e) - 1 \in DOMAIN held
      BY <1>11, <3>1 DEF n, e
    <3>3. e + (n - e) - 1 = n - 1
      BY <1>12, <1>13
    <3> QED BY <1>6, <1>12, <1>14, <3>2, <3>3
  <2> QED BY <1>12, <1>13, <2>1, <2>2
<1>16. \A k \in DOMAIN held : k < n \/ k \in DOMAIN o.state.buffered
  BY <1>11 DEF n
<1>17. /\ Expected(p, q)' = n /\ Expected(p, q) = e
       /\ Held(p, q)' = DOMAIN o.state.buffered /\ Held(p, q) = DOMAIN c.buffered
  BY <1>5 DEF n, e
<1>18. \A i \in Nat : Has(p, q, i) => Has(p, q, i)'
  BY <1>10, <1>12, <1>13, <1>16, <1>17 DEF Has
<1>19. Has(p, q, index)'
  BY <1>10, <1>16, <1>17 DEF Has
<1>20. \A i \in Held(p, q)' : i < NextIndex(q, p)
  BY <1>11, <1>14, <1>7, <1>17 DEF ord
<1>21. Expected(p, q)' <= NextIndex(q, p)
  BY <1>15, <1>17 DEF ord
<1>22. \A x \in Received(p, q)' :
          \/ x \in Received(p, q)
          \/ \E f \in net : /\ "datagram" \in DOMAIN f /\ f.from = q /\ f.to = p
                            /\ x = f.datagram.sequence_number
                            /\ Has(p, q, f.datagram.frame.ordering_index)'
  BY <1>3, <1>5, <1>19 DEF number, index
<1> QED BY <1>18, <1>20, <1>21, <1>22, AckNamesReceived DEF Gathers

LEMMA EvolvesGathers ==
    ASSUME TypeInv, TypeInv', NEW p \in Peer, NEW q \in Remote(p), Evolves(p, q),
           Aligned(q, p), \A c \in Client : OnceInv(c) /\ WaitingInv(c),
           Holds(p, q) => Holds(p, q)'
    PROVE  Gathers(p, q)
<1> DEFINE conn == connections[p][q]
           new == connections'[p][q]
<1>1. ASSUME Holds(p, q), Holds(p, q)', new.channel = conn.channel,
             new.received_sequences \subseteq conn.received_sequences
      PROVE  Gathers(p, q)
  <2>1. /\ Expected(p, q)' = Expected(p, q) /\ Held(p, q)' = Held(p, q)
        /\ Received(p, q)' \subseteq Received(p, q)
    BY <1>1 DEF Expected, Held, Received
  <2> QED BY <2>1, QuietGathers
<1>2. Holds(p, q) => IsConnection(conn)
  BY DEF TypeInv, ConnectionsInv, Holds
<1>3. CASE Stays(p, q)
  BY <1>1, <1>3 DEF Stays
<1>4. CASE Left(p, q)
  <2>1. ~ Holds(p, q) /\ ~ Holds(p, q)'
    BY <1>4 DEF Left
  <2>2. /\ Expected(p, q)' = Expected(p, q) /\ Held(p, q)' = Held(p, q)
        /\ Received(p, q)' \subseteq Received(p, q)
    BY <2>1 DEF Expected, Held, Received
  <2> QED BY <2>2, QuietGathers
<1>5. CASE Sends(p, q)
  <2>1. /\ Holds(p, q) /\ Holds(p, q)' /\ new = SendReliable(conn, "GamePacket")
    BY <1>5 DEF Sends, ConnectedTo, Holds
  <2>2. new.channel = conn.channel /\ new.received_sequences = conn.received_sequences
    <3> HIDE DEF new, conn
    <3> QED BY <1>2, <2>1, SendReliableFields
  <2> QED BY <1>1, <2>1, <2>2
<1>6. CASE IsAcked(p, q)
  <2>1. PICK d \in net : /\ Holds(p, q) /\ Holds(p, q)'
                         /\ new = Acked(conn, d.ack)
    BY <1>6 DEF IsAcked
  <2>2. new.channel = conn.channel /\ new.received_sequences = conn.received_sequences
    <3> HIDE DEF new, conn
    <3> QED BY <1>2, <2>1, AckedFields
  <2> QED BY <1>1, <2>1, <2>2
<1>7. CASE Ticks(p, q)
  <2>1. PICK k \in Nat : /\ Holds(p, q) /\ Holds(p, q)'
                         /\ new = Maintained(conn, k)
    BY <1>7 DEF Ticks
  <2>2. /\ new.channel = conn.channel
        /\ new.received_sequences \subseteq conn.received_sequences
    <3> HIDE DEF new, conn
    <3>1. /\ new.channel = conn.channel
          /\ new.received_sequences =
                IF conn.state = "Connected" THEN {} ELSE conn.received_sequences
      <4>1. MaintainedAs(conn, k, new)
        BY <1>2, <2>1, MaintainedFields
      <4> QED BY <4>1 DEF MaintainedAs
    <3> QED BY <3>1
  <2> QED BY <1>1, <2>1, <2>2
<1> QED BY <1>3, <1>4, <1>5, <1>6, <1>7, OpenedGathers, TakesGathers DEF Evolves

-----------------------------------------------------------------------------
(***************************************************************************)
(* Both streams stay aligned through every step.                           *)
(***************************************************************************)
LEMMA IdleSame ==
    ASSUME NEW p \in Peer, Acts(p), NEW r \in Peer \ {p}, NEW t \in Remote(r)
    PROVE  SameStream(r, t) /\ SameChannel(r, t)
<1>1. connections'[r] = connections[r] /\ News(r, t) = {}
  BY DEF Acts
<1>2. Holds(r, t)' <=> Holds(r, t)
  BY <1>1 DEF Holds
<1> QED BY <1>1, <1>2
        DEF SameStream, SameChannel, NextNumber, NextIndex, Numbers, Index,
            Expected, Held, Received

LEMMA IdleGathers ==
    ASSUME NEW p, NEW q, Aligned(p, q), SameChannel(q, p)
    PROVE  Gathers(q, p)
<1>1. \A i : Has(q, p, i)' <=> Has(q, p, i)
  BY DEF Has, SameChannel
<1>2. Expected(q, p) <= NextIndex(p, q) /\ \A i \in Held(q, p) : i < NextIndex(p, q)
  BY DEF Aligned, ChannelAligned
<1> QED BY <1>1, <1>2 DEF Gathers, SameChannel

LEMMA AlignedStep ==
    ASSUME TypeInv, TypeInv', StageInv', NoWrap, NoReuse,
           \A c \in Client : OnceInv(c) /\ WaitingInv(c), AlignedInv,
           NEW p \in Peer, Acts(p),
           \A r \in Peer : \A t \in Remote(r) : Holds(r, t) => Holds(r, t)'
    PROVE  AlignedInv'
<1> SUFFICES ASSUME NEW r \in Peer, NEW t \in Remote(r)
             PROVE  Aligned(r, t)'
  BY DEF AlignedInv
<1>1. t \in Peer /\ r \in Remote(t) /\ t # r
  BY PeersApart DEF Remote
<1>2. Aligned(r, t) /\ Aligned(t, r)
  BY <1>1 DEF AlignedInv
<1>3. CASE r = p
  <2>1. Evolves(r, t)
    BY <1>3 DEF Acts
  <2>2. Grows(r, t)
    BY <1>2, <2>1, EvolvesGrows
  <2>3. SameChannel(t, r)
    BY <1>1, <1>3, IdleSame
  <2> QED BY <1>1, <1>2, <2>2, <2>3, AlignedGrows
<1>4. CASE r # p
  <2>1. SameStream(r, t)
    BY <1>4, IdleSame
  <2>2. Gathers(t, r)
    <3>1. CASE t = p
      <4>1. Evolves(t, r)
        BY <1>1, <3>1 DEF Acts
      <4> QED BY <1>1, <1>2, <4>1, EvolvesGathers
    <3>2. CASE t # p
      <4>1. SameChannel(t, r)
        BY <1>1, <3>2, IdleSame
      <4> QED BY <1>2, <4>1, IdleGathers
    <3> QED BY <3>1, <3>2
  <2> QED BY <1>1, <1>2, <2>1, <2>2, AlignedGathers
<1> QED BY <1>3, <1>4

LEMMA SessionStep ==
    ASSUME TypeInv, TypeInv', HandshakeInv, StageInv, StageInv',
           OneSession, NoWrap, NoReuse, SessionInv, [Next]_vars
    PROVE  SessionInv'
<1>1. PICK p \in Peer : Acts(p)
  BY NextActs
<1>2. OneConnect
  BY DEF OneSession, OneConnect
<1>3. /\ NoFarewellInv /\ AlignedInv
      /\ \A c \in Client : OnceInv(c) /\ WaitingInv(c)
  BY DEF SessionInv
<1>4. NoFarewellInv'
  BY <1>1, <1>3, NoFarewellStep
<1>5. \A c \in Client : OnceInv(c)'
  BY <1>1, <1>3, OnceStep
<1>6. \A c \in Client : WaitingInv(c)'
  BY <1>1, <1>2, <1>3, WaitingStep
<1>7. AlignedInv'
  BY <1>1, <1>3, NobodyLeaves, AlignedStep
<1> QED BY <1>4, <1>5, <1>6, <1>7 DEF SessionInv

LEMMA SessionInit ==
    ASSUME Init, OneSession
    PROVE  SessionInv
<1>1. \A p, q \in Peer : ~ Holds(p, q)
  BY DEF Init, EmptyMap, Holds
<1>2. net = {} /\ stops = 0 /\ crashes = 0 /\ \A c \in Client : ~ connecting[c]
  BY DEF Init
<1>3. \A p \in Peer : \A q \in Remote(p) : q \in Peer
  BY PeersApart DEF Remote
<1>4. NoFarewellInv
  BY <1>1, <1>2, <1>3 DEF NoFarewellInv, Recorded
<1>5. ASSUME NEW c \in Client PROVE OnceInv(c) /\ WaitingInv(c)
  <2>1. ~ Holds(c, Server) /\ ~ Holds(Server, c)
    BY <1>1, PeersApart
  <2>2. NextIndex(Server, c) = 0
    BY <2>1 DEF NextIndex
  <2> QED BY <1>2, <2>1, <2>2 DEF OnceInv, WaitingInv
<1>6. ASSUME NEW p \in Peer, NEW q \in Remote(p) PROVE Aligned(p, q)
  <2>1. ~ Holds(p, q) /\ ~ Holds(q, p)
    BY <1>1, <1>3
  <2>2. /\ NextNumber(p, q) = 0 /\ NextIndex(p, q) = 0 /\ Numbers(p, q) = {}
        /\ Expected(q, p) = 0 /\ Held(q, p) = {} /\ Received(q, p) = {}
    BY <2>1 DEF NextNumber, NextIndex, Numbers, Expected, Held, Received
  <2> QED BY <1>2, <2>2, BoundsAssumption
          DEF Aligned, DataAligned, ReceiptsAligned, ChannelAligned, AllReach
<1> QED BY <1>4, <1>5, <1>6 DEF SessionInv, AlignedInv

LEMMA SessionAligns ==
    ASSUME TypeInv, SessionInv
    PROVE  StreamsAligned
<1> SUFFICES ASSUME NEW c \in ConnectedTo(Server), Server \in ConnectedTo(c),
                    NEW p \in {c, Server}, NEW q \in {c, Server}, p # q
             PROVE  LET next == connections[p][q].send_ordering_index
                    IN  /\ connections[q][p].channel.expected_index <= next
                        /\ \A i \in 0 .. (next - 1) : Reaches(p, q, i)
  BY DEF StreamsAligned
<1>1. c \in Client
  BY PeersApart DEF ConnectedTo, TypeInv, ConnectionsInv, Remote
<1>2. /\ p \in Peer /\ q \in Peer /\ q \in Remote(p) /\ p \in Remote(q)
      /\ Holds(p, q) /\ Holds(q, p)
  BY <1>1, PeersApart DEF Remote, ConnectedTo, Holds
<1>3. Aligned(p, q)
  BY <1>2 DEF SessionInv, AlignedInv
<1>4. /\ NextIndex(p, q) = connections[p][q].send_ordering_index
      /\ Expected(q, p) = connections[q][p].channel.expected_index
  BY <1>2 DEF NextIndex, Expected
<1>5. Expected(q, p) <= NextIndex(p, q)
  BY <1>3 DEF Aligned, ChannelAligned
<1>6. ASSUME NEW i \in 0 .. (NextIndex(p, q) - 1) PROVE Reaches(p, q, i)
  <2>1. Has(q, p, i) \/ \E n \in Numbers(p, q) : Index(p, q, n) = i
    BY <1>3 DEF Aligned, AllReach
  <2>2. CASE Has(q, p, i)
    BY <1>2, <2>2 DEF Has, Expected, Held, Reaches
  <2>3. ASSUME NEW n \in Numbers(p, q), Index(p, q, n) = i PROVE Reaches(p, q, i)
    <3>1. /\ n \in DOMAIN connections[p][q].sent_datagrams
          /\ connections[p][q].sent_datagrams[n].ordering_index = i
      BY <1>2, <2>3 DEF Numbers, Index
    <3> QED BY <3>1 DEF Reaches, Range
  <2> QED BY <2>1, <2>2, <2>3
<1> QED BY <1>4, <1>5, <1>6

(***************************************************************************)
(* While nobody stops, a client connects once and the network duplicates   *)
(* no request, the two ends of every connection speak of the same stream:  *)
(* what one has sent, the other has or will be sent again, however         *)
(* datagrams and acknowledgements are lost, overtaken or repeated and      *)
(* however resends renumber them, as long as neither sequence numbers nor  *)
(* ordering indices are used twice.                                        *)
(***************************************************************************)
THEOREM StreamsStayAligned ==
    ASSUME OneSession, NoWrap, NoReuse
    PROVE  Spec => []StreamsAligned
<1>1. Init => SessionInv
  BY SessionInit
<1>2. TypeInv /\ TypeInv' /\ HandshakeInv /\ StageInv /\ StageInv'
         /\ SessionInv /\ [Next]_vars => SessionInv'
  BY SessionStep
<1>3. TypeInv /\ SessionInv => StreamsAligned
  BY SessionAligns
<1>4. Spec => []HandshakeInv
  <2>1. OneConnect
    BY DEF OneSession, OneConnect
  <2> QED BY <2>1, AlwaysHandshake
<1>5. Spec => []StageInv
  BY AlwaysInStage
<1> QED BY <1>1, <1>2, <1>3, <1>4, <1>5, AlwaysTyped, PTL DEF Spec
=============================================================================
