----------------------------- MODULE RakNetPeer -----------------------------
(***************************************************************************)
(* RakNetPeer: a server and its clients, from the offline handshake to the *)
(* disconnection, over a network that loses, duplicates and reorders.      *)
(*                                                                         *)
(* A tick receives what the socket holds, one datagram after the other,    *)
(* then maintains every connection and removes the disconnected ones.  It  *)
(* is modelled by one Receive per datagram and one EndTick; the user calls *)
(* connect, sendGamePacket, shutdown and start between two ticks.          *)
(*                                                                         *)
(* Peers stand for their addresses, messages for their MessageId.  Pings   *)
(* are left out (ReliableChannel has them), and all messages fit one       *)
(* datagram.                                                               *)
(***************************************************************************)
EXTENDS ReliabilityLayer

CONSTANTS
    Server,         \* the peer in server mode
    Client,         \* the peers in client mode
    MaxConnections, \* max_connections_
    EventsMove,     \* may the event vector of a tick lie where the last did not?
    Duplicable,     \* the offline messages the network may duplicate
    MaxConnects,    \* bound on the calls of connect, per client
    MaxGames,       \* bound on the calls of sendGamePacket, over all peers
    MaxDatagrams,   \* bound on the numbers a resend may reach
    MaxStops,       \* bound on the calls of shutdown and crashes together
    MaxCrashes,     \* bound on crashes
    MaxLosses,      \* bound on what the network loses
    MaxDuplicates   \* bound on what it delivers twice

Peer == Client \union {Server}

ASSUME ServerAssumption == Server \notin Client
ASSUME MaxConnectionsAssumption == MaxConnections \in Nat
ASSUME EventsMoveAssumption == EventsMove \in BOOLEAN
ASSUME BoundsAssumption ==
    /\ MaxConnects \in Nat /\ MaxGames \in Nat /\ MaxDatagrams \in Nat
    /\ MaxStops \in Nat /\ MaxCrashes \in Nat
    /\ MaxLosses \in Nat /\ MaxDuplicates \in Nat

VARIABLES
    running,        \* running_: the socket is bound
    connecting,     \* connecting_, of a client
    connections,    \* connections_: remote peer |-> connection
    receiving,      \* is the peer in the receive loop of tick?
    net,            \* datagrams in flight
    open,           \* remotes the user was told are connected, and not gone
    stray,          \* was a game packet reported from a remote not open?
    connects, games, stops, crashes, losses, duplicates

budgets == <<connects, games, stops, crashes, losses, duplicates>>
peers == <<running, connecting, connections, receiving, open, stray>>
vars == <<peers, net, budgets>>

-----------------------------------------------------------------------------
(* A connection as the handlers of OpenConnectionRequest2 and Reply2 make  *)
(* it.  fresh: it was made in the tick that still runs.                    *)
NewConnection ==
    [state |-> "Connecting", send_sequence_number |-> 0,
     send_ordering_index |-> 0, sent_datagrams |-> EmptyMap,
     received_sequences |-> {},
     channel |-> [expected_index |-> 0, buffered |-> EmptyMap], fresh |-> TRUE]

Offline(p, q, id) == [from |-> p, to |-> q, offline |-> id]
Data(p, q, n, frame) == [from |-> p, to |-> q, datagram |-> Encode(n, frame)]
Ack(p, q, numbers) == [from |-> p, to |-> q, ack |-> BuildAck(numbers)]

(* sendReliable on channel 0, with the recording its callers do: the       *)
(* connection afterwards and what goes on the wire.                        *)
NextFrame(conn, body) == WholeFrame(0, conn.send_ordering_index, body)

SendReliable(conn, body) ==
    [conn EXCEPT !.send_sequence_number = @ + 1,
                 !.send_ordering_index = @ + 1,
                 !.sent_datagrams =
                    Put(@, conn.send_sequence_number, NextFrame(conn, body))]

Sent(p, q, conn, body) ==
    Data(p, q, conn.send_sequence_number, NextFrame(conn, body))

ConnectedTo(p) ==
    {q \in DOMAIN connections[p] : connections[p][q].state = "Connected"}

Init ==
    /\ running = [p \in Peer |-> TRUE]
    /\ connecting = [c \in Client |-> FALSE]
    /\ connections = [p \in Peer |-> EmptyMap]
    /\ receiving = [p \in Peer |-> FALSE]
    /\ net = {}
    /\ open = [p \in Peer |-> {}]
    /\ stray = FALSE
    /\ connects = [c \in Client |-> 0]
    /\ games = 0 /\ stops = 0 /\ crashes = 0 /\ losses = 0 /\ duplicates = 0

-----------------------------------------------------------------------------
(* The calls of the user.                                                  *)
Connect(c) ==
    /\ running[c] /\ ~ receiving[c]
    /\ connects[c] < MaxConnects
    /\ connects' = [connects EXCEPT ![c] = @ + 1]
    /\ connecting' = [connecting EXCEPT ![c] = TRUE]
    /\ net' = net \union {Offline(c, Server, "OpenConnectionRequest1")}
    /\ UNCHANGED <<running, connections, receiving, open, stray,
                   games, stops, crashes, losses, duplicates>>

(* sendGamePacket to one connected remote, or broadcastGamePacket to all.  *)
SendGamePacket(p, Q) ==
    /\ running[p] /\ ~ receiving[p]
    /\ games < MaxGames
    /\ Q # {} /\ Q \subseteq ConnectedTo(p)
    /\ games' = games + 1
    /\ connections' = [connections EXCEPT ![p] =
          [q \in DOMAIN @ |-> IF q \in Q THEN SendReliable(@[q], "GamePacket")
                              ELSE @[q]]]
    /\ net' = net \union {Sent(p, q, connections[p][q], "GamePacket") : q \in Q}
    /\ UNCHANGED <<running, connecting, receiving, open, stray,
                   connects, stops, crashes, losses, duplicates>>

(* What ends with a peer's session or process. *)
Stop(p) ==
    /\ running[p]
    /\ running' = [running EXCEPT ![p] = FALSE]
    /\ connections' = [connections EXCEPT ![p] = EmptyMap]
    /\ receiving' = [receiving EXCEPT ![p] = FALSE]
    /\ open' = [open EXCEPT ![p] = {}]
    /\ UNCHANGED <<stray, connects, games, losses, duplicates>>

(* shutdown tells the connected remotes, once. *)
Shutdown(p) ==
    /\ stops + crashes < MaxStops
    /\ stops' = stops + 1
    /\ ~ receiving[p]
    /\ Stop(p)
    /\ net' = net \union {Sent(p, q, connections[p][q], "DisconnectionNotification")
                             : q \in ConnectedTo(p)}
    /\ UNCHANGED <<connecting, crashes>>

(* The process dies. *)
Crash(p) ==
    /\ crashes < MaxCrashes /\ stops + crashes < MaxStops
    /\ crashes' = crashes + 1
    /\ Stop(p)
    /\ connecting' = [c \in Client |-> c # p /\ connecting[c]]
    /\ UNCHANGED <<net, stops>>

(* start, after a shutdown or in a new process on the same port. *)
Start(p) ==
    /\ ~ running[p]
    /\ running' = [running EXCEPT ![p] = TRUE]
    /\ UNCHANGED <<connecting, connections, receiving, open, stray, net, budgets>>

-----------------------------------------------------------------------------
(* processOfflineMessage.  rest is what stays in flight.  The refusal of a *)
(* full server (NoFreeIncomingConnections) is left out: no peer handles it. *)
ReceiveRequest1(q, rest) ==
    /\ net' = IF Cardinality(DOMAIN connections[Server]) >= MaxConnections
                THEN rest
                ELSE rest \union {Offline(Server, q, "OpenConnectionReply1")}
    /\ UNCHANGED connections

ReceiveRequest2(q, rest) ==
    /\ connections' = [connections EXCEPT ![Server] = Put(@, q, NewConnection)]
    /\ net' = rest \union {Offline(Server, q, "OpenConnectionReply2")}

ReceiveReply1(c, rest) ==
    /\ net' = IF connecting[c]
                THEN rest \union {Offline(c, Server, "OpenConnectionRequest2")}
                ELSE rest
    /\ UNCHANGED connections

OpenConnection(c, rest) ==
    /\ connections' = [connections EXCEPT ![c] =
          Put(@, Server, SendReliable(NewConnection, "ConnectionRequest"))]
    /\ net' = rest \union {Sent(c, Server, NewConnection, "ConnectionRequest")}

(* Mutant: a late reply is not ignored. *)
ReceiveReply2Always(c, rest) == OpenConnection(c, rest)

ReceiveReply2(c, rest) ==
    \/ connecting[c] /\ OpenConnection(c, rest)
    \/ ~ connecting[c] /\ net' = rest /\ UNCHANGED connections

ReceiveOffline(d, rest) ==
    /\ "offline" \in DOMAIN d
    /\ \/ d.offline = "OpenConnectionRequest1" /\ ReceiveRequest1(d.from, rest)
       \/ d.offline = "OpenConnectionRequest2" /\ ReceiveRequest2(d.from, rest)
       \/ d.offline = "OpenConnectionReply1" /\ ReceiveReply1(d.to, rest)
       \/ d.offline = "OpenConnectionReply2" /\ ReceiveReply2(d.to, rest)
    /\ UNCHANGED <<connecting, open, stray>>

(* handleReceivedMessage, and the handlers the peer installs for what it   *)
(* does not handle.  s holds what a message changes: the connection conn   *)
(* between p and q, p's connecting, open and stray, and what p sends, out; *)
(* seen tells if a Connected event reaches the user.                       *)
Reply(p, q, s, body) ==
    [s EXCEPT !.conn = SendReliable(@, body),
              !.out = @ \union {Sent(p, q, s.conn, body)}]

(* Mutant: an event made after the tick of the connection is never seen.   *)
ConnectedWhileFresh(q, s, seen) ==
    [s EXCEPT !.conn.state = "Connected",
              !.open = IF s.conn.fresh THEN @ \union {q} ELSE @]

Connected(q, s, seen) ==
    [s EXCEPT !.conn.state = "Connected",
              !.open = IF seen THEN @ \union {q} ELSE @]

(* Mutant: the server takes the request for a connection. *)
HandleConnectionRequestEarly(q, s) ==
    [Reply(Server, q, s, "ConnectionRequestAccepted") EXCEPT
        !.conn.state = "Connected"]

HandleConnectionRequest(q, s) ==
    Reply(Server, q, s, "ConnectionRequestAccepted")

(* Mutant: the client does not confirm. *)
HandleAcceptedSilently(c, q, s, seen) ==
    Connected(q, [s EXCEPT !.connecting = FALSE], seen)

HandleAccepted(c, q, s, seen) ==
    Connected(q, [Reply(c, q, s, "NewIncomingConnection") EXCEPT
                     !.connecting = FALSE], seen)

HandleMessage(p, q, s, body, seen) ==
    CASE body = "DisconnectionNotification" ->
            [s EXCEPT !.conn.state = "Disconnected"]
      [] body = "GamePacket" ->
            [s EXCEPT !.stray = @ \/ q \notin s.open]
      [] body = "ConnectionRequest" /\ p = Server ->
            HandleConnectionRequest(q, s)
      [] body = "NewIncomingConnection" /\ p = Server ->
            Connected(q, s, seen)
      [] body = "ConnectionRequestAccepted" /\ p \in Client ->
            HandleAccepted(p, q, s, seen)
      [] OTHER -> s

(* The messages a datagram made due, one after the other.                  *)
HandleMessages(p, q, s, bodies, seen) ==
    LET after[k \in 0 .. Len(bodies)] ==
          IF k = 0 THEN s ELSE HandleMessage(p, q, after[k - 1], bodies[k], seen)
    IN  after[Len(bodies)]

(* processReceivedDatagram on data, with every message it makes due.  The  *)
(* handlers keep a reference to the event vector of the tick that made the *)
(* connection: later on it dangles, and a Connected event is seen only if  *)
(* the vector of the current tick happens to lie in the same place.        *)
ReceiveData(d, rest) ==
    /\ "datagram" \in DOMAIN d
    /\ d.from \in DOMAIN connections[d.to]
    /\ LET p == d.to
           q == d.from
           frame == d.datagram.frame
           conn == connections[p][q]
           o == ProcessOrdered(conn.channel, frame.ordering_index, frame.body)
           before == [conn |-> [conn EXCEPT
                                  !.channel = o.state,
                                  !.received_sequences =
                                     @ \union {d.datagram.sequence_number}],
                      connecting |-> p \in Client /\ connecting[p],
                      open |-> open[p], stray |-> stray, out |-> {}]
       IN  \E seen \in {TRUE, conn.fresh \/ ~ EventsMove} :
             LET s == HandleMessages(p, q, before, o.ready, seen)
             IN  /\ net' = rest \union s.out
                 /\ connections' = [connections EXCEPT ![p][q] = s.conn]
                 /\ connecting' = [c \in Client |-> IF c = p THEN s.connecting
                                                    ELSE connecting[c]]
                 /\ open' = [open EXCEPT ![p] = s.open]
                 /\ stray' = s.stray

(* ... and on an ACK. *)
ReceiveAck(d, rest) ==
    /\ "ack" \in DOMAIN d
    /\ d.from \in DOMAIN connections[d.to]
    /\ connections' = [connections EXCEPT ![d.to][d.from].sent_datagrams =
                          ProcessAck(@, d.ack)]
    /\ net' = rest
    /\ UNCHANGED <<connecting, open, stray>>

(* A datagram of a remote without a connection. *)
IgnoreStranger(d, rest) ==
    /\ "offline" \notin DOMAIN d
    /\ d.from \notin DOMAIN connections[d.to]
    /\ net' = rest
    /\ UNCHANGED <<connecting, connections, open, stray>>

(* One round of the receive loop. *)
ProcessIncoming(d, rest) ==
    /\ running[d.to]
    /\ receiving' = [receiving EXCEPT ![d.to] = TRUE]
    /\ \/ ReceiveOffline(d, rest)
       \/ ReceiveData(d, rest)
       \/ ReceiveAck(d, rest)
       \/ IgnoreStranger(d, rest)
    /\ UNCHANGED <<running, connects, games, stops, crashes, losses>>

Receive(p) ==
    \E d \in net :
        /\ d.to = p
        /\ ProcessIncoming(d, net \ {d})
        /\ UNCHANGED duplicates

(* The rest of tick.  The connected ones send their ACK and resend what is *)
(* overdue, below some number (see ReliableChannel); the disconnected ones *)
(* are reported and removed.                                               *)
Overdue(conn, k) ==
    IF conn.state = "Connected"
      THEN {n \in DOMAIN conn.sent_datagrams : n < k} ELSE {}

Resent(conn, k) ==
    Renumbered(conn.sent_datagrams, Overdue(conn, k), conn.send_sequence_number)

Maintained(conn, k) ==
    IF conn.state = "Connected"
      THEN [conn EXCEPT
              !.received_sequences = {},
              !.sent_datagrams = Merge(Remove(@, Overdue(conn, k)), Resent(conn, k)),
              !.send_sequence_number = @ + Cardinality(Overdue(conn, k)),
              !.fresh = FALSE]
      ELSE [conn EXCEPT !.fresh = FALSE]

Outbound(p, q, conn, k) ==
    (IF conn.state = "Connected" /\ conn.received_sequences # {}
       THEN {Ack(p, q, conn.received_sequences)} ELSE {})
    \union {Data(p, q, n, Resent(conn, k)[n]) : n \in DOMAIN Resent(conn, k)}

(* Mutant: the disconnected connections are removed without a word. *)
CleanUpSilently(p, gone) == open[p]

CleanUp(p, gone) == open[p] \ gone

EndTick(p, k) ==
    LET table == connections[p]
        gone == {q \in DOMAIN table : table[q].state = "Disconnected"}
    IN  /\ running[p]
        /\ \A q \in DOMAIN table :
              Overdue(table[q], k[q]) # {} =>
                 table[q].send_sequence_number
                    + Cardinality(Overdue(table[q], k[q])) <= MaxDatagrams
        /\ connections' = [connections EXCEPT ![p] =
              [q \in DOMAIN table \ gone |-> Maintained(table[q], k[q])]]
        /\ net' = net \union
              UNION {Outbound(p, q, table[q], k[q]) : q \in DOMAIN table}
        /\ open' = [open EXCEPT ![p] = CleanUp(p, gone)]
        /\ receiving' = [receiving EXCEPT ![p] = FALSE]
        /\ UNCHANGED <<running, connecting, stray, budgets>>

(* Per connection, below which number its datagrams are old enough: a      *)
(* recorded one is the last of them, or none is.                           *)
Ages(p) ==
    {k \in [DOMAIN connections[p] -> 0 .. MaxDatagrams] :
        \A q \in DOMAIN connections[p] :
            k[q] = 0 \/ k[q] - 1 \in Overdue(connections[p][q], k[q])}

EndTickSome(p) == \E k \in Ages(p) : EndTick(p, k)

(* ... when something has become overdue. *)
Resend(p) ==
    \E k \in Ages(p) :
        /\ \E q \in DOMAIN connections[p] : Overdue(connections[p][q], k[q]) # {}
        /\ EndTick(p, k)

-----------------------------------------------------------------------------
(* The network.                                                            *)
Duplicate(d) ==
    /\ duplicates < MaxDuplicates
    /\ "offline" \in DOMAIN d => d.offline \in Duplicable
    /\ duplicates' = duplicates + 1
    /\ ProcessIncoming(d, net)

Lose(d) ==
    /\ losses < MaxLosses
    /\ losses' = losses + 1
    /\ net' = net \ {d}
    /\ UNCHANGED <<peers, connects, games, stops, crashes, duplicates>>

(* Nobody listens. *)
Unreachable(d) ==
    /\ ~ running[d.to]
    /\ net' = net \ {d}
    /\ UNCHANGED <<peers, budgets>>

Next ==
    \/ \E c \in Client : Connect(c)
    \/ \E p \in Peer :
          \/ \E Q \in {{q} : q \in ConnectedTo(p)} \union {ConnectedTo(p)} :
                SendGamePacket(p, Q)
          \/ Shutdown(p)
          \/ Crash(p)
          \/ Start(p)
          \/ Receive(p)
          \/ EndTickSome(p)
    \/ \E d \in net : Duplicate(d) \/ Lose(d) \/ Unreachable(d)

Spec == Init /\ [][Next]_vars

(* Every running peer ticks forever, a tick empties the socket, and what   *)
(* is recorded becomes overdue if it stays.  The users, crashes and the    *)
(* network are free.                                                       *)
Fairness ==
    \A p \in Peer :
        /\ WF_vars(Receive(p))
        /\ WF_vars(EndTickSome(p))
        /\ WF_vars(Resend(p))

FairSpec == Spec /\ Fairness

-----------------------------------------------------------------------------
(* Every variable has its type: a client is connected to the server alone,  *)
(* a table of sent datagrams is keyed by numbers handed out before, and no *)
(* channel buffers the message it waits for.                               *)
TypeOK ==
    /\ running \in [Peer -> BOOLEAN]
    /\ connecting \in [Client -> BOOLEAN]
    /\ receiving \in [Peer -> BOOLEAN]
    /\ open \in [Peer -> SUBSET Peer]
    /\ stray \in BOOLEAN
    /\ DOMAIN connections = Peer
    /\ \A p \in Peer : \A q \in DOMAIN connections[p] :
          /\ p = Server <=> q \in Client
          /\ LET conn == connections[p][q]
             IN  /\ conn.state \in {"Connecting", "Connected", "Disconnected"}
                 /\ DOMAIN conn.sent_datagrams \subseteq
                       0 .. (conn.send_sequence_number - 1)
                 /\ conn.send_ordering_index <= conn.send_sequence_number
                 /\ conn.channel.expected_index \notin DOMAIN conn.channel.buffered
                 /\ conn.fresh => running[p]

(* A game packet is reported only from a remote that was reported          *)
(* connected and has not been reported gone since, however its datagrams   *)
(* overtake those of the handshake.                                        *)
GamePacketsWhileOpen == ~ stray

(* A connection that is established has been reported ("New connection     *)
(* established"), and no later event of an earlier session says otherwise: *)
(* so it is as long as the event vectors lie in the same place.            *)
ReportsEveryConnection == \A p \in Peer : ConnectedTo(p) \subseteq open[p]

(* The server does not take a client for connected that has not been told  *)
(* it was accepted.                                                        *)
HandshakeOrder ==
    \A c \in ConnectedTo(Server) :
        Server \in DOMAIN connections[c] =>
            connections[c][Server].state # "Connecting"

(* p's message number i can still get through to q: q has it, or p keeps   *)
(* it for resending.                                                       *)
Reaches(p, q, i) ==
    LET there == connections[q][p].channel
    IN  \/ i < there.expected_index
        \/ i \in DOMAIN there.buffered
        \/ \E f \in Range(connections[p][q].sent_datagrams) : f.ordering_index = i

(* Two peers that hold each other for connected speak of the same stream:  *)
(* neither waits for a message the other will never send again, nor takes  *)
(* a new message for an old one.  A connection object replaced under a     *)
(* live connection would restart one end of it.                            *)
StreamsAligned ==
    \A c \in ConnectedTo(Server) : Server \in ConnectedTo(c) =>
        \A p, q \in {c, Server} : p # q =>
            LET next == connections[p][q].send_ordering_index
            IN  /\ connections[q][p].channel.expected_index <= next
                /\ \A i \in 0 .. (next - 1) : Reaches(p, q, i)

(* A remote that was reported connected stays connected until the user is  *)
(* told otherwise ("Connection lost or closed").                           *)
ConnectedUntilReported ==
    \A p \in Peer : \A q \in open[p] :
        /\ q \in DOMAIN connections[p]
        /\ connections[p][q].state # "Connecting"

(* A handshake that was begun ends with both sides connected, unless one   *)
(* of them is shut down meanwhile.                                         *)
HandshakeCompletes ==
    \A c \in Client :
        connecting[c] ~> \/ Server \in ConnectedTo(c) /\ c \in ConnectedTo(Server)
                         \/ stops > 0

(* A reliable datagram that stays unacknowledged is resent: in particular  *)
(* a client does not wait for ever for the answer to its request.          *)
HandshakeResent ==
    \A c \in Client :
        (Server \in DOMAIN connections[c] /\ connecting[c])
        ~> (Server \notin DOMAIN connections[c] \/ ~ connecting[c])

(* When p stops while q takes it for connected, q is told in the end. *)
DepartureReported(p, q) ==
    (p \in open[q] /\ running[q] /\ ~ running[p])
    ~> (p \notin open[q] \/ ~ running[q] \/ running[p])

(* ... be p a client that is shut down, *)
ClientDeparturesReported == \A c \in Client : DepartureReported(c, Server)

(* ... or the server. *)
ServerDepartureReported == \A c \in Client : DepartureReported(Server, c)
=============================================================================
