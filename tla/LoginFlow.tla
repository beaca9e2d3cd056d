----------------------------- MODULE LoginFlow -----------------------------
(***************************************************************************)
(* The users of ConnectionHandler: the server of test_server.cpp, which    *)
(* answers each packet of the login whatever the state of its client, and  *)
(* clients that play the other part.  basic_client.cpp begins that part    *)
(* and stops after the compression; the rest is what the server expects.   *)
(***************************************************************************)
EXTENDS ConnectionHandler

CONSTANTS
    Algorithm,          \* what NetworkSettings announces
    Ciphers,            \* do both users enable the cipher with the compression?
    BroadcastAnyTime,   \* does the server broadcast during a login too?
    MaxSessions,        \* bound on the calls of connect, per client
    MaxEnds,            \* bound on the processes that end
    MaxExtras           \* bound on what the server sends besides the login

VARIABLES
    clients,    \* clients of main: client |-> ClientInfo
    phase,      \* what a client waits for, "off" when it is not running
    sessions, ends, extras

budgets == <<sessions, ends, extras>>
vars == <<handlers, clients, phase, budgets>>

Init ==
    /\ HandlersInit
    /\ clients = <<>>
    /\ phase = [c \in Client |-> "off"]
    /\ sessions = [c \in Client |-> 0]
    /\ ends = 0 /\ extras = 0

-----------------------------------------------------------------------------
(* The processor after NetworkSettings: the server only marks compression  *)
(* as initialized (what it announces is None), the client sets what it is  *)
(* told.                                                                   *)
Cipher(p) == IF Ciphers THEN enable(p) ELSE p

ServerSwitch(p) ==
    Cipher(IF Algorithm = "None" THEN setCompressionInitialized(p)
           ELSE setCompression(p, Algorithm))

ClientSwitch(p) == Cipher(setCompression(p, Algorithm))

NewClientInfo ==
    [state |-> "WaitingForRequestNetworkSettings", chunks_sent |-> FALSE]

\* The state of a client after a packet, and what it is sent.  LevelChunk
\* stands for all the chunks, StartGame also for the packets that follow it.
Answered(info, state, packets) ==
    [info |-> [info EXCEPT !.state = state], packets |-> packets]

OnRequestNetworkSettings(info) ==
    Answered(info, "WaitingForLogin", <<"NetworkSettings">>)

\* Mutant: there are no packs, so their response is not waited for.
OnLoginHasty(info) ==
    Answered(info, "WaitingForChunkRadiusRequest",
             <<"PlayStatus", "ResourcePacksInfo">>)

OnLogin(info) ==
    Answered(info, "WaitingForResourcePackResponse",
             <<"PlayStatus", "ResourcePacksInfo">>)

OnCompleted(info) ==
    Answered(info, "WaitingForChunkRadiusRequest", <<"StartGame">>)

\* Mutant: the break after the ResourcePackStack is missing.
OnResponseFallsThrough(info) ==
    Answered(info, "WaitingForChunkRadiusRequest",
             <<"ResourcePackStack", "StartGame">>)

\* Mutant: a client that wants no packs is not answered.
OnResponseIgnored(info) == Answered(info, info.state, <<>>)

OnResponse(info) == Answered(info, info.state, <<"ResourcePackStack">>)

OnRequestChunkRadius(info) ==
    Answered([info EXCEPT !.chunks_sent = TRUE], "Spawned",
             <<"ChunkRadiusUpdated">>
             \o (IF info.chunks_sent THEN <<>> ELSE <<"LevelChunk">>)
             \o <<"PlayerSpawn">>)

Answer(info, p) ==
    CASE p = "RequestNetworkSettings" -> OnRequestNetworkSettings(info)
      [] p = "Login"                  -> OnLogin(info)
      [] p = "ResponseNone"           -> OnResponse(info)
      [] p = "ResponseCompleted"      -> OnCompleted(info)
      [] p = "RequestChunkRadius"     -> OnRequestChunkRadius(info)
      [] OTHER                        -> Answered(info, info.state, <<>>)

\* Mutant: NetworkSettings goes out after the switch it announces.
ServerAnswersLate(c, s, p, packets) ==
    LET before == IF p = "RequestNetworkSettings"
                    THEN Configure(Server, c, s, ServerSwitch) ELSE s
    IN  SendEach(Server, c, before, packets)

\* NetworkSettings goes out before the switch it announces.
ServerAnswers(c, s, p, packets) ==
    LET after == SendEach(Server, c, s, packets)
    IN  IF p = "RequestNetworkSettings"
          THEN Configure(Server, c, after, ServerSwitch) ELSE after

\* What the client does of its own with a packet: its next phase, its answer.
Reply ==
    [NetworkSettings   |-> [phase |-> "login",   packets |-> <<"Login">>],
     ResourcePacksInfo |-> [phase |-> "stack",   packets |-> <<"ResponseNone">>],
     ResourcePackStack |-> [phase |-> "start",   packets |-> <<"ResponseCompleted">>],
     StartGame         |-> [phase |-> "spawn",   packets |-> <<"RequestChunkRadius">>],
     PlayerSpawn       |-> [phase |-> "spawned", packets |-> <<"SetLocalPlayerAsInit">>]]

ClientAnswers(c, s, p) ==
    LET before == IF p = "NetworkSettings"
                    THEN Configure(c, Server, s, ClientSwitch) ELSE s
    IN  SendEach(c, Server, before, Reply[p].packets)

-----------------------------------------------------------------------------
(* connect of a new process, up to the ConnectionRequestAccepted the server *)
(* sends.  What the server held of the address is replaced without a word,  *)
(* and what was on the way becomes late.  The offline handshake runs once   *)
(* and loses nothing: RakNetPeer has a Request2 that comes twice.           *)
Connect(c) ==
    /\ Server \in running /\ events[Server] = <<>>
    /\ phase[c] = "off"
    /\ sessions[c] < MaxSessions
    /\ sessions' = [sessions EXCEPT ![c] = @ + 1]
    /\ phase' = [phase EXCEPT ![c] = "connecting"]
    /\ running' = running \union {c}
    /\ peer' = [peer EXCEPT ![<<c, Server>>] = "Connecting", ![<<Server, c>>] = "Connecting"]
    /\ wire' = [wire EXCEPT ![<<c, Server>>] = <<>>,
                            ![<<Server, c>>] = <<Plain("ConnectionRequestAccepted")>>]
    /\ late' = Abandoned({<<c, Server>>, <<Server, c>>})
    /\ sent' = [sent EXCEPT ![<<c, Server>>] = <<>>, ![<<Server, c>>] = <<>>]
    /\ seen' = [seen EXCEPT ![<<c, Server>>] = <<>>, ![<<Server, c>>] = <<>>]
    /\ UNCHANGED <<table, events, mishap, clients, ends, extras>>

TickSome(h) ==
    /\ Tick(h)
    /\ UNCHANGED <<clients, phase, budgets>>

\* The user h looks at e, the next event.
Looks(h, e) ==
    /\ h \in running
    /\ events' = [events EXCEPT ![h] = Tail(@)]
    /\ seen' = IF e.type = "PacketReceived"
                 THEN [seen EXCEPT ![<<e.remote, h>>] = Append(@, e.packet)] ELSE seen
    /\ UNCHANGED <<running, peer, late, mishap, budgets>>

\* Mutant: a client that is known keeps what is known of it.
WelcomedBack(c) ==
    IF c \in DOMAIN clients THEN clients ELSE Set(clients, c, NewClientInfo)

Welcomed(c) == Set(clients, c, NewClientInfo)

ServerHandles(e) ==
    /\ Looks(Server, e)
    /\ UNCHANGED phase
    /\ \/ /\ e.type = "Connected"
          /\ clients' = Welcomed(e.remote)
          /\ UNCHANGED <<table, wire, sent>>
       \/ /\ e.type = "Disconnected"
          /\ clients' = Drop(clients, {e.remote})
          /\ UNCHANGED <<table, wire, sent>>
       \/ /\ e.type = "PacketReceived"
          /\ e.remote \in DOMAIN clients
          /\ LET answer == Answer(clients[e.remote], e.packet)
             IN  /\ clients' = [clients EXCEPT ![e.remote] = answer.info]
                 /\ Become(ServerAnswers(e.remote, Now, e.packet, answer.packets))
       \/ /\ e.type = "PacketReceived"
          /\ e.remote \notin DOMAIN clients
          /\ UNCHANGED <<clients, table, wire, sent>>

ClientHandles(c, e) ==
    /\ UNCHANGED clients
    /\ \/ /\ e.type = "Connected"
          /\ Looks(c, e)
          /\ phase' = [phase EXCEPT ![c] = "settings"]
          /\ Become(SendBatchTo(c, {Server}, Now, <<"RequestNetworkSettings">>))
       \/ /\ e.type = "PacketReceived"
          /\ Looks(c, e)
          /\ e.packet \in DOMAIN Reply
          /\ phase' = [phase EXCEPT ![c] = Reply[e.packet].phase]
          /\ Become(ClientAnswers(c, Now, e.packet))
       \/ /\ e.type = "PacketReceived"
          /\ Looks(c, e)
          /\ e.packet \notin DOMAIN Reply
          /\ UNCHANGED <<phase, table, wire, sent>>
       \/ /\ e.type = "Disconnected"
          /\ Ended(c, <<>>)
          /\ phase' = [phase EXCEPT ![c] = "off"]
          /\ UNCHANGED <<mishap, sent, seen, budgets>>

HandleNext(h) ==
    /\ events[h] # <<>>
    /\ IF h = Server THEN ServerHandles(Head(events[h]))
       ELSE ClientHandles(h, Head(events[h]))

(* shutdown says farewell to the connected remotes; a crash does not.      *)
End(h, farewell) ==
    /\ h \in running /\ events[h] = <<>>
    /\ ends < MaxEnds
    /\ ends' = ends + 1
    /\ Ended(h, farewell)
    /\ clients' = IF h = Server THEN <<>> ELSE clients
    /\ phase' = [c \in Client |-> IF c = h THEN "off" ELSE phase[c]]
    /\ UNCHANGED <<mishap, sent, seen, sessions, extras>>

Shutdown(h) == End(h, <<Plain("DisconnectionNotification")>>)
Crash(c) == c \in Client /\ End(c, <<>>)

-----------------------------------------------------------------------------
(* What the server sends besides the login, between two ticks.             *)
Extra ==
    /\ Server \in running /\ events[Server] = <<>>
    /\ extras < MaxExtras
    /\ extras' = extras + 1
    /\ UNCHANGED <<running, peer, late, events, mishap, seen, clients, phase, sessions, ends>>

\* main keeps the daytime of every spawned client.
Spawned == {c \in DOMAIN clients : clients[c].state = "Spawned"}

TimeSync ==
    /\ Extra
    /\ Spawned # {}
    /\ Become(SendBatchTo(Server, Spawned, Now, <<"SetTime">>))

\* Two packets in one batch; no example calls sendBatch.
SendBatch(c) ==
    /\ Extra
    /\ c \in Spawned
    /\ Become(SendBatchTo(Server, {c}, Now, <<"MovePlayer", "SetTime">>))

\* broadcastPacket; no example calls it.  A server that does so carefully waits
\* while NetworkSettings is on its way to a client.
Broadcast ==
    /\ Extra
    /\ BroadcastAnyTime \/ \A c \in DOMAIN clients : clients[c].state # "WaitingForLogin"
    /\ Become(Broadcasted(Server, Now, "SetTime"))

\* What is left of an earlier session on the way l arrives in this one.
LateMessage(l) == LateArrives(l) /\ UNCHANGED <<clients, phase, budgets>>

Next ==
    \/ \E h \in Handler : TickSome(h) \/ HandleNext(h) \/ Shutdown(h)
    \/ \E l \in Link : LateMessage(l)
    \/ \E c \in Client : Connect(c) \/ Crash(c) \/ SendBatch(c)
    \/ TimeSync
    \/ Broadcast

Spec == Init /\ [][Next]_vars

(* A process that runs ticks and handles what a tick returned; users call   *)
(* connect, end and broadcast when they like.                               *)
Fairness == \A h \in Handler : WF_vars(TickSome(h)) /\ WF_vars(HandleNext(h))

FairSpec == Spec /\ Fairness

-----------------------------------------------------------------------------
(* What waits in the events of a user, what is on the way to it.           *)
Told(h, r) ==
    FlattenSeq([i \in DOMAIN events[h] |->
        IF events[h][i].type = "PacketReceived" /\ events[h][i].remote = r
          THEN <<events[h][i].packet>> ELSE <<>>])

Batches(h, r) == {i \in DOMAIN wire[<<h, r>>] : wire[<<h, r>>][i].kind = "GamePacket"}

InFlight(h, r) ==
    FlattenSeq([i \in DOMAIN wire[<<h, r>>] |->
        IF i \in Batches(h, r) THEN wire[<<h, r>>][i].batch.packets ELSE <<>>])

Established(c) == peer[<<Server, c>>] = "Connected" /\ peer[<<c, Server>>] = "Connected"

(* Every variable has its type: a remote without a peer connection may     *)
(* still be in the table, and only the server knows more than one.         *)
TypeOK ==
    /\ running \subseteq Handler
    /\ peer \in [Link -> {"None", "Connecting", "Connected"}]
    /\ \A h \in Handler : DOMAIN table[h] \subseteq Remotes(h)
    /\ mishap \in {"fine", "garbled", "throws"}
    /\ DOMAIN late = Link
    /\ DOMAIN clients \subseteq Client
    /\ phase \in [Client -> {"off", "connecting", "settings", "login", "stack",
                             "start", "spawn", "spawned"}]

(* No batch meets a processor that takes it for something else: the switch *)
(* to the compression header and to the cipher happens between the same    *)
(* two batches on both sides, although tick decodes everything that has    *)
(* come before its user can react to the first packet of it, and although  *)
(* sendPacket advances the cipher also when nothing is sent.               *)
EveryBatchUnderstood == mishap = "fine"

(* While a session lasts, what one user sent is what the other has been    *)
(* handed, what waits in its events and what is on the way, in this order: *)
(* tick loses and repeats nothing, though a connection may be replaced in  *)
(* the table, or given up, in the midst of the messages it takes.  It says *)
(* nothing of packets of an earlier session: they get in with LateTaken,   *)
(* and then this, the cipher and the understanding of batches are lost.    *)
StreamIntact ==
    \A l \in Link :
        peer[l] = "Connected" /\ peer[<<l[2], l[1]>>] = "Connected" =>
            sent[l] = seen[l] \o Told(l[2], l[1]) \o InFlight(l[1], l[2])

(* The sender's counter of the cipher is ahead of the receiver's by what   *)
(* is on the way, for each direction: they never need to be reconciled.    *)
CipherInStep ==
    \A l \in Link :
        LET h == l[1]
            r == l[2]
        IN  /\ r \in DOMAIN table[h] /\ h \in DOMAIN table[r]
            /\ table[h][r].enabled /\ table[r][h].enabled
            => table[h][r].send_counter = table[r][h].recv_counter + Cardinality(Batches(h, r))

(* When the server has handled the events of a tick, the clients it knows  *)
(* are the remotes of its connection handler: every remote its peer takes  *)
(* for connected is among them, and none that its peer has given up.       *)
ClientsMatchConnections ==
    Server \in running /\ events[Server] = <<>> =>
        /\ DOMAIN clients = DOMAIN table[Server]
        /\ {c \in Client : peer[<<Server, c>>] = "Connected"} \subseteq DOMAIN clients
        /\ \A c \in DOMAIN clients : peer[<<Server, c>>] # "None"

(* What a client waits for and what the server waits for from it fit: the  *)
(* server checks no order, it depends on the client and on the stream.     *)
Fits ==
    [login   |-> {"WaitingForLogin", "WaitingForResourcePackResponse"},
     stack   |-> {"WaitingForResourcePackResponse"},
     start   |-> {"WaitingForResourcePackResponse", "WaitingForChunkRadiusRequest"},
     spawn   |-> {"WaitingForChunkRadiusRequest", "Spawned"},
     spawned |-> {"Spawned"}]

PhasesAgree ==
    \A c \in Client :
        Established(c) /\ phase[c] \in DOMAIN Fits =>
            c \in DOMAIN clients /\ clients[c].state \in Fits[phase[c]]

(* In a session a client sees each step of the login once at most: it is   *)
(* never made to enter the world a second time.                            *)
StepsOnce ==
    \A c \in Client : \A i, j \in DOMAIN seen[<<Server, c>>] :
        seen[<<Server, c>>][i] \in DOMAIN Reply /\ seen[<<Server, c>>][i] = seen[<<Server, c>>][j]
            => i = j

(* A client enters the world with its chunks: what the server remembers of *)
(* chunks sent is of this session, also when the address comes back        *)
(* without having been seen to leave.                                      *)
ChunksBeforeSpawn ==
    \A c \in Client : \A i \in DOMAIN seen[<<Server, c>>] :
        seen[<<Server, c>>][i] = "PlayerSpawn" =>
            \E j \in 1 .. i : seen[<<Server, c>>][j] = "LevelChunk"

(* A client that connects is in the world in the end, unless one of the    *)
(* two processes ends.                                                     *)
LoginCompletes ==
    \A c \in Client :
        phase[c] = "connecting" ~> phase[c] \in {"spawned", "off"} \/ Server \notin running
=============================================================================
