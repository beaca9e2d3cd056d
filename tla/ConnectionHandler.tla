------------------------- MODULE ConnectionHandler -------------------------
(***************************************************************************)
(* ConnectionHandler (connection_handler.hpp): what a process keeps above  *)
(* RakNet.  A tick takes the events of the peer's tick, opens and removes  *)
(* connections, decodes every game packet with the processor its remote    *)
(* has at that moment, and returns events; the user handles them one after *)
(* the other, and sends, before it ticks again.                            *)
(*                                                                         *)
(* RakNet is what ReliableChannel and RakNetPeer show it to be while it    *)
(* works: from the connection to the disconnection an ordered stream in    *)
(* each direction.  The handshake up to ConnectionRequestAccepted is one   *)
(* step.  Handlers stand for their addresses.  Nothing on the wire tells   *)
(* the sessions of two addresses apart: what was on the way when one ended *)
(* may come in the next.                                                   *)
(***************************************************************************)
EXTENDS BatchPipeline, FiniteSets, SequencesExt

CONSTANTS
    Server,     \* the handler in server mode
    Client,     \* the handlers in client mode
    LateTaken,  \* may what comes late be taken for a message of this session?
    LateKinds   \* bound on what comes late: the kinds of messages that may

ASSUME ServerAssumption == Server \notin Client /\ IsFiniteSet(Client)
ASSUME LateTakenAssumption == LateTaken \in BOOLEAN

Handler == Client \union {Server}
Remotes(h) == IF h = Server THEN Client ELSE {Server}
Link == {l \in Handler \X Handler : l[2] \in Remotes(l[1])}

VARIABLES
    running,    \* the handlers whose process runs
    peer,       \* peer[<<h, r>>]: what h's peer_ holds of r, "None" if nothing
    table,      \* table[h]: connections_, remote |-> processor
    wire,       \* wire[<<h, r>>]: messages from h to r not yet received
    late,       \* late[<<h, r>>]: what is left of earlier sessions on this way
    events,     \* events[h]: returned by tick, not yet seen by the user
    mishap,     \* "fine", or how decode failed
    sent,       \* sent[<<h, r>>]: packets of the game put on the wire, this session
    seen        \* seen[<<h, r>>]: packets from h the user of r has been handed

handlers == <<running, peer, table, wire, late, events, mishap, sent, seen>>

Drop(f, S) == [r \in DOMAIN f \ S |-> f[r]]
Set(f, r, v) == [q \in DOMAIN f \union {r} |-> IF q = r THEN v ELSE f[q]]

Game(d) == [kind |-> "GamePacket", batch |-> d]
Plain(kind) == [kind |-> kind]

HandlersInit ==
    /\ running = Handler
    /\ peer = [l \in Link |-> "None"]
    /\ table = [h \in Handler |-> <<>>]
    /\ wire = [l \in Link |-> <<>>]
    /\ late = [l \in Link |-> {}]
    /\ events = [h \in Handler |-> <<>>]
    /\ mishap = "fine"
    /\ sent = [l \in Link |-> <<>>]
    /\ seen = [l \in Link |-> <<>>]

-----------------------------------------------------------------------------
(* The calls of the user on one remote.  s holds what they change: table,  *)
(* wire and sent.                                                          *)
Now == [table |-> table, wire |-> wire, sent |-> sent]

\* sendBatch to each remote of R; sendPacket is a batch of one.  It encodes, and
\* with that advances the cipher, before the peer is asked whether it is connected.
SendBatchTo(h, R, s, packets) ==
    LET known == R \intersect DOMAIN s.table[h]
        Goes(l) == l[1] = h /\ l[2] \in known /\ peer[l] = "Connected"
    IN  [table |-> [s.table EXCEPT ![h] =
            [r \in DOMAIN @ |-> IF r \in known THEN encoded(@[r]) ELSE @[r]]],
         wire |-> [l \in Link |->
            IF Goes(l) THEN Append(s.wire[l], Game(encode(s.table[h][l[2]], packets)))
            ELSE s.wire[l]],
         sent |-> [l \in Link |-> IF Goes(l) THEN s.sent[l] \o packets ELSE s.sent[l]]]

SendEach(h, r, s, packets) ==
    LET after[i \in 0 .. Len(packets)] ==
            IF i = 0 THEN s ELSE SendBatchTo(h, {r}, after[i - 1], <<packets[i]>>)
    IN  after[Len(packets)]

Configure(h, r, s, Change(_)) ==
    IF r \notin DOMAIN s.table[h] THEN s
    ELSE [table |-> [s.table EXCEPT ![h] = Set(@, r, Change(@[r]))],
          wire |-> s.wire, sent |-> s.sent]

Become(s) == table' = s.table /\ wire' = s.wire /\ sent' = s.sent

\* broadcastPacket: to every remote the peer knows.
Broadcasted(h, s, p) ==
    SendBatchTo(h, {r \in Remotes(h) : peer[<<h, r>>] # "None"}, s, <<p>>)

-----------------------------------------------------------------------------
(* tick.  The peer's tick receives some of what is on the way, remote by   *)
(* remote, and ends with the disconnected ones; of all this the handler    *)
(* learns from the events it returns, in their order.                      *)
Accepting == {"ConnectionRequestAccepted", "NewIncomingConnection"}

Kinds(messages) == {messages[i].kind : i \in DOMAIN messages}

Left(messages) == "DisconnectionNotification" \in Kinds(messages)

\* Mutant: the disconnected stay in the peer's table.
PeerAfterKept(state, messages) ==
    IF Left(messages) THEN "Disconnected"
    ELSE IF Kinds(messages) \intersect Accepting # {} THEN "Connected"
    ELSE state

PeerAfter(state, messages) ==
    IF Left(messages) THEN "None"
    ELSE IF Kinds(messages) \intersect Accepting # {} THEN "Connected"
    ELSE state

\* Mutant: a remote that is in the table already keeps its processor.
OnConnectedKnown(s, r) ==
    [table  |-> IF r \in DOMAIN s.table THEN s.table ELSE Set(s.table, r, NewProcessor),
     events |-> Append(s.events, [type |-> "Connected", remote |-> r]),
     result |-> s.result]

OnConnected(s, r) ==
    [table  |-> Set(s.table, r, NewProcessor),
     events |-> Append(s.events, [type |-> "Connected", remote |-> r]),
     result |-> s.result]

OnDisconnected(s, r) ==
    [table  |-> Drop(s.table, {r}),
     events |-> Append(s.events, [type |-> "Disconnected", remote |-> r]),
     result |-> s.result]

PacketReceived(r, p) == [type |-> "PacketReceived", remote |-> r, packet |-> p]

\* Mutant: only the first packet of a batch is reported.
FirstReceived(r, packets) == <<PacketReceived(r, Head(packets))>>

AllReceived(r, packets) == [i \in DOMAIN packets |-> PacketReceived(r, packets[i])]

\* The packets of a batch, or nothing when it is not understood.
OnGamePacket(s, r, d) ==
    IF r \notin DOMAIN s.table THEN s
    ELSE LET outcome == decode(s.table[r], d)
         IN  [table  |-> Set(s.table, r, decoded(s.table[r])),
              events |-> IF outcome = "fine" THEN s.events \o AllReceived(r, d.packets)
                         ELSE s.events,
              result |-> IF outcome = "fine" THEN s.result ELSE outcome]

\* A message of r.  An exception leaves the loop: what is behind is not looked at.
OnMessage(s, r, m) ==
    IF s.result = "throws" THEN s
    ELSE CASE m.kind \in Accepting  -> OnConnected(s, r)
           [] m.kind = "GamePacket" -> OnGamePacket(s, r, m.batch)
           [] OTHER                 -> s

OnMessages(s, r, messages) ==
    LET after[i \in 0 .. Len(messages)] ==
            IF i = 0 THEN s ELSE OnMessage(after[i - 1], r, messages[i])
    IN  after[Len(messages)]

\* n[r] messages are received from each remote r.
Received(h, n) ==
    [r \in Remotes(h) |-> SubSeq(wire[<<r, h>>], 1, n[r])]

Arrivals(s, order, received) ==
    LET after[i \in 0 .. Len(order)] ==
            IF i = 0 THEN s ELSE OnMessages(after[i - 1], order[i], received[order[i]])
    IN  after[Len(order)]

OnLeft(s, r, messages) ==
    IF s.result # "throws" /\ Left(messages) THEN OnDisconnected(s, r) ELSE s

Departures(s, order, received) ==
    LET after[i \in 0 .. Len(order)] ==
            IF i = 0 THEN s ELSE OnLeft(after[i - 1], order[i], received[order[i]])
    IN  after[Len(order)]

Unticked(h) == [table |-> table[h], events |-> <<>>, result |-> "fine"]

\* Mutant: the disconnected are removed before the messages are looked at.
DeparturesFirst(h, order, received) ==
    Arrivals(Departures(Unticked(h), order, received), order, received)

Ticked(h, order, received) ==
    Departures(Arrivals(Unticked(h), order, received), order, received)

-----------------------------------------------------------------------------
(* Late messages.  Those of the handshake are left out: they are the same  *)
(* in every session.                                                       *)
OfKinds(w, K) == {i \in DOMAIN w : w[i].kind \in K \ Accepting}

\* late, when what is on the way on the links of L is not received in its session.
Abandoned(L) ==
    [l \in Link |->
        late[l] \union (IF l \in L THEN {wire[l][i] : i \in OfKinds(wire[l], LateKinds)} ELSE {})]

Replaceable(w) == OfKinds(w, {"GamePacket", "DisconnectionNotification"})

(* A late frame is discarded when the receiver has passed its index, or is  *)
(* not connected.  When it is ahead, it is taken for the message with that  *)
(* index (one on the way here, never one that is yet to be sent), and that  *)
(* message is discarded as old when it comes.                               *)
LateArrives(l) ==
    /\ \E d \in late[l] :
         /\ late' = [late EXCEPT ![l] = @ \ {d}]
         /\ wire' \in {wire} \union
                (IF LateTaken THEN {[wire EXCEPT ![l][i] = d] : i \in Replaceable(wire[l])}
                 ELSE {})
    /\ UNCHANGED <<running, peer, table, events, mishap, sent, seen>>

-----------------------------------------------------------------------------
\* The end of a process: nothing of it is left but what it has sent.
Ended(h, farewell) ==
    /\ running' = running \ {h}
    /\ peer' = [l \in Link |-> IF l[1] = h THEN "None" ELSE peer[l]]
    /\ table' = [table EXCEPT ![h] = <<>>]
    /\ events' = [events EXCEPT ![h] = <<>>]
    /\ wire' = [l \in Link |->
          IF l[1] = h /\ peer[l] = "Connected" THEN wire[l] \o farewell
          ELSE IF l[2] = h THEN <<>> ELSE wire[l]]
    /\ late' = Abandoned({l \in Link : l[2] = h})

\* How many messages a tick may receive from each remote.
Counts(h) ==
    LET most == Max({Len(wire[<<r, h>>]) : r \in Remotes(h)} \union {0})
    IN  {n \in [Remotes(h) -> 0 .. most] :
            \A r \in Remotes(h) : n[r] <= Len(wire[<<r, h>>])}

(* The code takes the datagrams of its remotes as they come; here those of *)
(* a remote come together, which is the same: what is kept of one remote   *)
(* is not read for another, neither in tick nor in the users' handlers.    *)
Tick(h) ==
    /\ h \in running
    /\ events[h] = <<>>
    /\ \E n \in Counts(h), order \in SetToSeqs(Remotes(h)) :
         /\ \E r \in Remotes(h) : n[r] > 0
         /\ LET received == Received(h, n)
                s == Ticked(h, order, received)
            IN  /\ mishap' = IF mishap = "fine" THEN s.result ELSE mishap
                /\ peer' = [l \in Link |-> IF l[1] = h
                              THEN PeerAfter(peer[l], received[l[2]]) ELSE peer[l]]
                /\ wire' = [l \in Link |->
                      CASE l[2] = h -> SubSeq(wire[l], n[l[1]] + 1, Len(wire[l]))
                        [] l[1] = h /\ "ConnectionRequestAccepted" \in Kinds(received[l[2]])
                             -> Append(wire[l], Plain("NewIncomingConnection"))
                        [] OTHER -> wire[l]]
                /\ table' = [table EXCEPT ![h] = s.table]
                /\ events' = [events EXCEPT ![h] =
                                 IF s.result = "throws" THEN <<>> ELSE s.events]
    /\ UNCHANGED <<running, late, sent, seen>>
=============================================================================
