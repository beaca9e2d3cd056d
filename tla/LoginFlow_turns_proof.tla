----------------------- MODULE LoginFlow_turns_proof -----------------------
(***************************************************************************)
(* The invariant of LoginFlow: every batch is understood, and each client  *)
(* and the server take their turns.  For every client it says what the     *)
(* server will be told by it (Upward) and it by the server (Downward),     *)
(* that the batches on the way suit the processors that will meet them,    *)
(* and whose turn it is: Knocks, Greets, Switches, InStep.                 *)
(***************************************************************************)
EXTENDS LoginFlow_proof

-----------------------------------------------------------------------------
(* The invariant, client by client.                                        *)
up(c) == <<c, Server>>
down(c) == <<Server, c>>
Upward(c) == Coming(Server, c)
Downward(c) == Coming(c, Server)

(* The steps of the login, in their order, and those among some signs.     *)
Story == <<"NetworkSettings", "ResourcePacksInfo", "ResourcePackStack", "StartGame", "PlayerSpawn">>
Steps == DOMAIN Reply
Mark == [x \in Sign |-> IF x \in Steps \union {"Connected"} THEN <<x>> ELSE <<>>]
Marks(q) == Mapped(Mark, q)

LastIn(q, p) == \A i \in 1 .. Len(q) : q[i] = p => i = Len(q)
ChunkFirst(q) == \A i \in 1 .. Len(q) : q[i] = "PlayerSpawn" => \E j \in 1 .. i : q[j] = "LevelChunk"

HearsServer(c) ==
    c \in running => Reads(table[c], Server, wire[down(c)]) /\ LastIn(Downward(c), "NetworkSettings")

HeardByServer(c) ==
    Server \in running =>
        Reads(table[Server], c, wire[up(c)]) /\ LastIn(Upward(c), "RequestNetworkSettings")

IsOff(c) ==
    /\ Server \notin DOMAIN table[c] /\ peer[up(c)] = "None"
    /\ Heard(c, Server, events[c]) = <<>>
    /\ c \in running => /\ peer[down(c)] = "None"
                        /\ wire[up(c)] = <<>> /\ wire[down(c)] = <<>>

Ends(c) ==
    /\ c \notin running => phase[c] = "off"
    /\ phase[c] = "off" => IsOff(c)
    /\ Server \in running /\ (Farewell(wire[up(c)]) \/ Leaves(events[Server], c)) => phase[c] = "off"
    /\ (c \in running /\ Farewell(wire[down(c)])) \/ Leaves(events[c], Server) => Server \notin running
    /\ Server \notin running => peer[down(c)] = "None" /\ c \notin DOMAIN table[Server]

InStory(q) == \E n \in 0 .. 5 : Marks(q) = SubSeq(Story, 1, n)

Script(c) ==
    /\ InStory(seen[down(c)]) /\ ChunkFirst(seen[down(c)])
    /\ phase[c] # "off" =>
         /\ sent[down(c)] = seen[down(c)] \o Letters(Downward(c))
         /\ InStory(sent[down(c)]) /\ ChunkFirst(sent[down(c)])

AllGame(w) == \A i \in 1 .. Len(w) : w[i].kind = "GamePacket"

IsPlain(T, r) == r \in DOMAIN T /\ ~ T[r].initialized /\ ~ T[r].enabled
IsSwitched(T, r) ==
    r \in DOMAIN T /\ T[r].initialized /\ T[r].algorithm = Algorithm /\ (T[r].enabled <=> Ciphers)

Fresh(c) == c \in DOMAIN clients /\ clients[c] = NewClientInfo

Knocks(c) ==
    /\ phase[c] = "connecting"
    /\ peer[up(c)] = "Connecting" /\ peer[down(c)] = "Connecting"
    /\ wire[down(c)] = <<Plain("ConnectionRequestAccepted")>> /\ wire[up(c)] = <<>>
    /\ Heard(c, Server, events[c]) = <<>> /\ Heard(Server, c, events[Server]) = <<>>
    /\ Server \notin DOMAIN table[c]
    /\ sent[down(c)] = <<>>

Awaited(c, asked) ==
    /\ Heard(Server, c, events[Server]) = <<>>
    /\ Upward(c) = <<"Connected">> \o asked
    /\ peer[down(c)] = "Connecting"
    /\ Opens(wire[up(c)])

Met(c, asked) ==
    /\ Upward(c) = <<"Connected">> \o asked \/ (Upward(c) = asked /\ Fresh(c))
    /\ peer[down(c)] = "Connected" /\ IsPlain(table[Server], c)
    /\ AllGame(wire[up(c)])

Greets(c) ==
    /\ peer[up(c)] = "Connected" /\ IsPlain(table[c], Server)
    /\ AllGame(wire[down(c)])
    /\ Marks(sent[down(c)]) = <<>>
    /\ \/ /\ phase[c] = "connecting" /\ Marks(Downward(c)) = <<"Connected">>
          /\ Awaited(c, <<>>) \/ Met(c, <<>>)
       \/ /\ phase[c] = "settings" /\ Marks(Downward(c)) = <<>>
          /\ Awaited(c, <<"RequestNetworkSettings">>) \/ Met(c, <<"RequestNetworkSettings">>)

Started(p) == p.enabled => p.send_counter = 0 /\ p.recv_counter = 0

Switches(c) ==
    /\ phase[c] = "settings"
    /\ peer[up(c)] = "Connected" /\ IsPlain(table[c], Server)
    /\ peer[down(c)] = "Connected" /\ IsSwitched(table[Server], c)
    /\ Started(table[Server][c])
    /\ Upward(c) = <<>> /\ Marks(Downward(c)) = <<"NetworkSettings">>
    /\ AllGame(wire[up(c)]) /\ AllGame(wire[down(c)])
    /\ c \in DOMAIN clients /\ clients[c] = [state |-> "WaitingForLogin", chunks_sent |-> FALSE]
    /\ Marks(sent[down(c)]) = SubSeq(Story, 1, 1)

(* The turns after the switch: what the client waits for is its number.    *)
Asks == [login |-> "Login", stack |-> "ResponseNone", start |-> "ResponseCompleted",
         spawn |-> "RequestChunkRadius", spawned |-> "SetLocalPlayerAsInit"]
Before == [login |-> "WaitingForLogin", stack |-> "WaitingForResourcePackResponse",
           start |-> "WaitingForResourcePackResponse", spawn |-> "WaitingForChunkRadiusRequest",
           spawned |-> "Spawned"]
Behind == [login |-> "WaitingForResourcePackResponse", stack |-> "WaitingForResourcePackResponse",
           start |-> "WaitingForChunkRadiusRequest", spawn |-> "Spawned", spawned |-> "Spawned"]
Number == [login |-> 1, stack |-> 2, start |-> 3, spawn |-> 4, spawned |-> 5]

Asking(c, f) ==
    /\ Upward(c) = <<Asks[f]>> /\ clients[c].state = Before[f]
    /\ Marks(Downward(c)) = <<>> /\ Marks(sent[down(c)]) = SubSeq(Story, 1, Number[f])

Answering(c, f) ==
    /\ f # "spawned" /\ Upward(c) = <<>> /\ clients[c].state = Behind[f]
    /\ Marks(Downward(c)) = <<Story[Number[f] + 1]>> /\ Marks(sent[down(c)]) = SubSeq(Story, 1, Number[f] + 1)

Playing(c, f) ==
    /\ f = "spawned" /\ Upward(c) = <<>> /\ clients[c].state = "Spawned"
    /\ Marks(Downward(c)) = <<>> /\ Marks(sent[down(c)]) = SubSeq(Story, 1, 5)

InStep(c) ==
    /\ phase[c] \in DOMAIN Asks
    /\ peer[up(c)] = "Connected" /\ IsSwitched(table[c], Server)
    /\ peer[down(c)] = "Connected" /\ IsSwitched(table[Server], c)
    /\ AllGame(wire[up(c)]) /\ AllGame(wire[down(c)])
    /\ Leads(table[c][Server], table[Server][c], Len(wire[up(c)]))
    /\ Leads(table[Server][c], table[c][Server], Len(wire[down(c)]))
    /\ c \in DOMAIN clients /\ (clients[c].chunks_sent => clients[c].state = "Spawned")
    /\ Asking(c, phase[c]) \/ Answering(c, phase[c]) \/ Playing(c, phase[c])

Turn(c) ==
    Server \in running /\ phase[c] # "off" =>
        /\ Knocks(c) \/ Greets(c) \/ Switches(c) \/ InStep(c)
        /\ sent[up(c)] = seen[up(c)] \o Letters(Upward(c))

Good(c) == HearsServer(c) /\ HeardByServer(c) /\ Ends(c) /\ Script(c) /\ Turn(c)

GoodInv == mishap = "fine" /\ \A c \in Client : Good(c)

-----------------------------------------------------------------------------
(* Sequences of signs.                                                     *)
\* Kept opaque: the provers are slow with nested concatenations.
Joining(a, b, d) == (a \o b) \o d = a \o (b \o d)

LEMMA PacketsJoin == \A a, b, d \in Seq(Packet) : Joining(a, b, d)
<1> HIDE DEF Packet
<1> SUFFICES ASSUME NEW a \in Seq(Packet), NEW b \in Seq(Packet), NEW d \in Seq(Packet)
             PROVE  Joining(a, b, d)
  OBVIOUS
<1> QED BY ConcatAssociative DEF Joining

LEMMA SignsJoin == \A a, b, d \in Seq(Sign) : Joining(a, b, d)
<1> HIDE DEF Sign
<1> SUFFICES ASSUME NEW a \in Seq(Sign), NEW b \in Seq(Sign), NEW d \in Seq(Sign)
             PROVE  Joining(a, b, d)
  OBVIOUS
<1> QED BY ConcatAssociative DEF Joining

LEMMA MarkType == Maps(Mark, Sign, Sign)
<1>1. \A x \in Sign : <<x>> \in Seq(Sign)
  BY OneIsIn
<1>2. \A x \in Sign : (IF x \in Steps \union {"Connected"} THEN <<x>> ELSE <<>>) \in Seq(Sign)
  BY <1>1
<1> HIDE DEF Sign, Steps
<1> QED BY <1>2 DEF Mark, Maps

LEMMA MarksAre ==
    /\ Marks(<<>>) = <<>>
    /\ \A x \in Sign : Marks(<<x>>) = IF x \in Steps \/ x = "Connected" THEN <<x>> ELSE <<>>
    /\ \A v, w \in Seq(Sign) : Marks(v \o w) = Marks(v) \o Marks(w)
    /\ \A w \in Seq(Sign) : Marks(w) \in Seq(Sign)
<1>1. Marks(<<>>) = <<>>
  BY MappedEmpty DEF Marks
<1>2. ASSUME NEW x \in Sign PROVE Marks(<<x>>) = IF x \in Steps \/ x = "Connected" THEN <<x>> ELSE <<>>
  <2>1. Marks(<<x>>) = Mark[x]
    BY MarkType, MappedOne DEF Marks
  <2> QED BY <2>1 DEF Mark
<1>3. \A v, w \in Seq(Sign) : Marks(v \o w) = Marks(v) \o Marks(w)
  BY MarkType, MappedConcat DEF Marks
<1>4. \A w \in Seq(Sign) : Marks(w) \in Seq(Sign)
  BY MarkType, MappedType DEF Marks
<1> QED BY <1>1, <1>2, <1>3, <1>4

LEMMA StepsArePackets ==
    /\ Steps = {"NetworkSettings", "ResourcePacksInfo", "ResourcePackStack", "StartGame", "PlayerSpawn"}
    /\ Steps \subseteq Packet /\ Packet \subseteq Sign /\ "Connected" \in Sign
    /\ "Connected" \notin Packet
<1>1. Steps = {"NetworkSettings", "ResourcePacksInfo", "ResourcePackStack", "StartGame", "PlayerSpawn"}
  BY DEF Steps, Reply
<1> QED BY <1>1 DEF Packet, Sign

Begins(q, a, x) ==
    /\ q # <<>> /\ Len(q) = Len(x) + 1 /\ q[1] = a
    /\ \A i \in 1 .. Len(x) : q[i + 1] = x[i]

LEMMA HeadIs ==
    ASSUME NEW E, NEW a \in E, NEW x \in Seq(E)
    PROVE  /\ <<a>> \o x \in Seq(E)
           /\ Begins(<<a>> \o x, a, x)
<1>1. PICK p \in Seq(E) : p = <<a>>
  BY OneIsIn
<1>2. Len(p) = 1 /\ p[1] = a
  BY <1>1
<1>3. PICK q \in Seq(E) : q = p \o x
  BY ConcatProperties
<1>4. /\ Len(q) = 1 + Len(x) /\ q[1] = a
      /\ \A i \in 1 .. Len(x) : q[i + 1] = x[i]
  <2>0. Len(x) \in Nat
    OBVIOUS
  <2>1. /\ Len(q) = 1 + Len(x)
        /\ \A i \in 1 .. 1 + Len(x) : q[i] = IF i <= 1 THEN p[i] ELSE x[i - 1]
    BY <1>2, <1>3, ConcatProperties
  <2>2. \A i \in 1 .. Len(x) : i + 1 \in 1 .. 1 + Len(x) /\ ~ (i + 1 <= 1) /\ i + 1 - 1 = i
    BY <2>0
  <2>3. q[1] = a
    BY <1>2, <2>0, <2>1
  <2> QED BY <2>1, <2>2, <2>3
<1>5. Len(x) \in Nat
  OBVIOUS
<1>6. q # <<>>
  BY <1>4, <1>5
<1>7. Begins(q, a, x)
  BY <1>4, <1>5, <1>6 DEF Begins
<1> QED BY <1>1, <1>3, <1>7

LEMMA HeadSame ==
    ASSUME NEW E, NEW a \in E, NEW b \in E, NEW x \in Seq(E), NEW y \in Seq(E),
           <<a>> \o x = <<b>> \o y
    PROVE  a = b /\ x = y
<1>1. PICK q \in Seq(E) : q = <<a>> \o x
  BY HeadIs
<1>2. Begins(q, a, x) /\ Begins(q, b, y)
  BY <1>1, HeadIs
<1>3. Len(x) \in Nat /\ Len(y) \in Nat
  OBVIOUS
<1>4. a = b /\ Len(x) = Len(y) /\ \A i \in 1 .. Len(x) : x[i] = y[i]
  BY <1>2, <1>3 DEF Begins
<1> QED BY <1>4, SeqEqual

LEMMA HeadsDiffer ==
    ASSUME NEW E, NEW a \in E, NEW b \in E, a # b, NEW x \in Seq(E), NEW y \in Seq(E)
    PROVE  <<a>> \o x # <<b>> \o y
BY HeadSame

LEMMA LastInTail ==
    ASSUME NEW E, NEW a \in E, NEW x \in Seq(E), NEW p, LastIn(<<a>> \o x, p)
    PROVE  LastIn(x, p) /\ (a = p => x = <<>>)
<1>1. PICK q \in Seq(E) : q = <<a>> \o x
  BY HeadIs
<1>2. Len(q) = Len(x) + 1 /\ q[1] = a /\ \A i \in 1 .. Len(x) : q[i + 1] = x[i]
  BY <1>1, HeadIs DEF Begins
<1>3. Len(x) \in Nat
  OBVIOUS
<1>4. \A i \in 1 .. Len(q) : q[i] = p => i = Len(q)
  BY <1>1 DEF LastIn
<1>5. LastIn(x, p)
  <2> SUFFICES ASSUME NEW i \in 1 .. Len(x), x[i] = p PROVE i = Len(x)
    BY DEF LastIn
  <2>1. i + 1 \in 1 .. Len(q) /\ q[i + 1] = p
    BY <1>2, <1>3
  <2> QED BY <1>2, <1>4, <2>1
<1>6. a = p => Len(x) = 0
  BY <1>2, <1>3, <1>4
<1> QED BY <1>5, <1>6

LEMMA LastInOne ==
    ASSUME NEW a, NEW p
    PROVE  LastIn(<<>>, p) /\ LastIn(<<a>>, p)
BY DEF LastIn

LEMMA LastInTwo ==
    ASSUME NEW a, NEW b, NEW p, a # p
    PROVE  LastIn(<<a, b>>, p)
BY DEF LastIn

Lacks(q, p) == \A i \in 1 .. Len(q) : q[i] # p

LEMMA LastInConcat ==
    ASSUME NEW E, NEW a \in Seq(E), NEW b \in Seq(E), NEW p, Lacks(a, p), LastIn(b, p)
    PROVE  LastIn(a \o b, p)
<1>1. PICK c \in Seq(E) : c = a \o b
  BY ConcatProperties
<1>2. Len(c) = Len(a) + Len(b) /\ Len(a) \in Nat /\ Len(b) \in Nat
  BY <1>1
<1> SUFFICES ASSUME NEW i \in 1 .. Len(c), c[i] = p PROVE i = Len(c)
  BY <1>1 DEF LastIn
<1>3. CASE i <= Len(a)
  <2>1. i \in 1 .. Len(a) /\ c[i] = a[i]
    BY <1>1, <1>2, <1>3
  <2> QED BY <2>1 DEF Lacks
<1>4. CASE i > Len(a)
  <2>1. i - Len(a) \in 1 .. Len(b) /\ c[i] = b[i - Len(a)]
    BY <1>1, <1>2, <1>4
  <2>2. i - Len(a) = Len(b)
    BY <2>1 DEF LastIn
  <2> QED BY <1>2, <2>2
<1>5. i <= Len(a) \/ i > Len(a)
  BY <1>2
<1> QED BY <1>3, <1>4, <1>5

LEMMA ChunkFirstConcat ==
    ASSUME NEW E, NEW a \in Seq(E), NEW b \in Seq(E)
    PROVE  /\ ChunkFirst(a) /\ ChunkFirst(b) => ChunkFirst(a \o b)
           /\ ChunkFirst(a \o b) => ChunkFirst(a)
<1>1. PICK c \in Seq(E) : c = a \o b
  BY ConcatProperties
<1>2. /\ Len(c) = Len(a) + Len(b) /\ Len(a) \in Nat /\ Len(b) \in Nat
      /\ \A i \in 1 .. Len(a) : c[i] = a[i] /\ i \in 1 .. Len(c)
      /\ \A i \in 1 .. Len(b) : c[Len(a) + i] = b[i]
  BY <1>1
<1>3. ASSUME ChunkFirst(c) PROVE ChunkFirst(a)
  <2> SUFFICES ASSUME NEW i \in 1 .. Len(a), a[i] = "PlayerSpawn"
               PROVE  \E j \in 1 .. i : a[j] = "LevelChunk"
    BY DEF ChunkFirst
  <2>1. PICK j \in 1 .. i : c[j] = "LevelChunk"
    BY <1>2, <1>3 DEF ChunkFirst
  <2>2. j \in 1 .. Len(a)
    BY <1>2
  <2> QED BY <1>2, <2>1, <2>2
<1>4. ASSUME ChunkFirst(a), ChunkFirst(b) PROVE ChunkFirst(c)
  <2> SUFFICES ASSUME NEW i \in 1 .. Len(c), c[i] = "PlayerSpawn"
               PROVE  \E j \in 1 .. i : c[j] = "LevelChunk"
    BY DEF ChunkFirst
  <2>1. CASE i <= Len(a)
    <3>1. i \in 1 .. Len(a) /\ a[i] = "PlayerSpawn"
      BY <1>2, <2>1
    <3>2. PICK j \in 1 .. i : a[j] = "LevelChunk"
      BY <1>4, <3>1 DEF ChunkFirst
    <3>3. j \in 1 .. Len(a)
      BY <3>1
    <3> QED BY <1>2, <3>2, <3>3
  <2>2. CASE i > Len(a)
    <3>1. PICK k \in 1 .. Len(b) : i = Len(a) + k
      <4>1. i - Len(a) \in 1 .. Len(b) /\ i = Len(a) + (i - Len(a))
        BY <1>2, <2>2
      <4> QED BY <4>1
    <3>2. b[k] = "PlayerSpawn"
      BY <1>2, <3>1
    <3>3. PICK j \in 1 .. k : b[j] = "LevelChunk"
      BY <1>4, <3>2 DEF ChunkFirst
    <3>4. j \in 1 .. Len(b) /\ Len(a) + j \in 1 .. i
      BY <1>2, <3>1
    <3>5. c[Len(a) + j] = "LevelChunk"
      BY <1>2, <3>3, <3>4
    <3> QED BY <3>4, <3>5
  <2>3. i <= Len(a) \/ i > Len(a)
    BY <1>2
  <2> QED BY <2>1, <2>2, <2>3
<1> QED BY <1>1, <1>3, <1>4

(* A sign that counts is where it is in the sequence of them.              *)
LEMMA MarksHave ==
    ASSUME NEW q \in Seq(Sign), NEW i \in 1 .. Len(q), q[i] \in Steps \/ q[i] = "Connected"
    PROVE  \E a, b \in Seq(Sign) : /\ q = (a \o <<q[i]>>) \o b /\ Len(a) = i - 1
                                   /\ Marks(q) = (Marks(a) \o <<q[i]>>) \o Marks(b)
<1>1. PICK x \in Sign : x = q[i]
  OBVIOUS
<1>2. PICK p \in Seq(Sign) : p = <<x>>
  BY OneIsIn
<1>3. PICK a \in Seq(Sign) : a = SubSeq(q, 1, i - 1)
  <2>1. SubSeq(q, 1, i - 1) \in Seq(Sign)
    BY PrefixGrows
  <2> QED BY <2>1
<1>4. PICK b \in Seq(Sign) : b = SubSeq(q, i + 1, Len(q))
  <2>1. SubSeq(q, i + 1, Len(q)) \in Seq(Sign)
    OBVIOUS
  <2> QED BY <2>1
<1>5. /\ Len(a) = i - 1 /\ Len(b) = Len(q) - i /\ Len(p) = 1 /\ p[1] = x
      /\ \A j \in 1 .. (i - 1) : a[j] = q[j]
      /\ \A j \in 1 .. Len(q) - i : b[j] = q[i + j]
  BY <1>2, <1>3, <1>4
<1>6. PICK c \in Seq(Sign) : c = a \o p
  BY ConcatProperties
<1>7. Len(c) = i /\ (\A j \in 1 .. (i - 1) : c[j] = q[j]) /\ c[i] = x
  <2>0. i \in Nat /\ i >= 1 /\ Len(a) \in Nat /\ Len(p) = 1 /\ Len(a) = i - 1
    BY <1>5
  <2>1. /\ Len(c) = Len(a) + Len(p)
        /\ \A j \in 1 .. Len(a) + Len(p) : c[j] = IF j <= Len(a) THEN a[j] ELSE p[j - Len(a)]
    BY <1>6, ConcatProperties
  <2>2. Len(c) = i /\ \A j \in 1 .. i : c[j] = IF j <= i - 1 THEN a[j] ELSE p[j - (i - 1)]
    <3>1. Len(a) + Len(p) = i
      BY <2>0
    <3> QED BY <2>0, <2>1, <3>1
  <2>3. \A j \in 1 .. (i - 1) : c[j] = a[j]
    BY <2>0, <2>2
  <2>4. c[i] = x
    <3>1. i \in 1 .. i /\ ~ (i <= i - 1) /\ i - (i - 1) = 1
      BY <2>0
    <3> QED BY <1>5, <2>2, <3>1
  <2> QED BY <1>5, <2>2, <2>3, <2>4
<1>8. Joins(c, b, q)
  <2>1. Len(q) = Len(c) + Len(b)
    BY <1>5, <1>7
  <2>2. ASSUME NEW j \in 1 .. Len(c) PROVE q[j] = c[j]
    <3>1. j = i \/ j \in 1 .. (i - 1)
      BY <1>7
    <3> QED BY <1>1, <1>7, <3>1
  <2>3. \A j \in 1 .. Len(b) : q[Len(c) + j] = b[j]
    BY <1>5, <1>7
  <2> QED BY <2>1, <2>2, <2>3 DEF Joins
<1>9. q = c \o b
  BY <1>8, ConcatIs
<1>10. Marks(p) = p
  BY <1>1, <1>2, MarksAre
<1>11. Marks(q) = (Marks(a) \o p) \o Marks(b)
  <2>1. Marks(q) = Marks(c) \o Marks(b)
    BY <1>9, MarksAre
  <2>2. Marks(c) = Marks(a) \o Marks(p)
    BY <1>6, MarksAre
  <2> QED BY <1>10, <2>1, <2>2
<1> QED BY <1>1, <1>2, <1>5, <1>6, <1>9, <1>11

LEMMA MarksLack ==
    ASSUME NEW q \in Seq(Sign), NEW p, p \in Steps \/ p = "Connected", Lacks(Marks(q), p)
    PROVE  Lacks(q, p)
<1> SUFFICES ASSUME NEW i \in 1 .. Len(q), q[i] = p PROVE FALSE
  BY DEF Lacks
<1>1. PICK a, b \in Seq(Sign) : Marks(q) = (Marks(a) \o <<p>>) \o Marks(b)
  BY MarksHave
<1>2. p \in Sign
  BY StepsArePackets
<1>3. PICK u \in Seq(Sign) : u = Marks(a)
  BY MarksAre
<1>4. PICK v \in Seq(Sign) : v = Marks(b)
  BY MarksAre
<1>5. PICK w \in Seq(Sign) : w = Append(u, p)
  BY <1>2, AppendIsIn
<1>6. u \o <<p>> = w
  BY <1>2, <1>5
<1>7. PICK m \in Seq(Sign) : m = w \o v
  BY ConcatProperties
<1>8. Len(w) = Len(u) + 1 /\ w[Len(u) + 1] = p /\ Len(u) \in Nat /\ Len(v) \in Nat
  BY <1>2, <1>5
<1>9. Len(u) + 1 \in 1 .. Len(m) /\ m[Len(u) + 1] = p
  BY <1>7, <1>8
<1> QED BY <1>1, <1>3, <1>4, <1>6, <1>7, <1>9 DEF Lacks

-----------------------------------------------------------------------------
(* The event a user looks at.                                              *)
LEMMA SplitsOff ==
    ASSUME NEW E, NEW q \in Seq(E), q # <<>>
    PROVE  /\ Head(q) \in E /\ Tail(q) \in Seq(E) /\ Len(Tail(q)) = Len(q) - 1
           /\ \A i \in 1 .. Len(Tail(q)) : Tail(q)[i] = q[i + 1]
           /\ Len(q) \in Nat /\ Len(q) > 0 /\ Head(q) = q[1]
OBVIOUS

LEMMA FrontIs ==
    ASSUME NEW E, NEW q \in Seq(E), q # <<>>
    PROVE  q = <<Head(q)>> \o Tail(q)
<1>1. PICK x \in E : x = Head(q)
  BY SplitsOff
<1>2. PICK y \in Seq(E) : y = Tail(q)
  BY SplitsOff
<1>3. PICK v \in Seq(E) : v = <<x>> \o y
  BY HeadIs
<1>4. Len(v) = Len(y) + 1 /\ v[1] = x /\ \A i \in 1 .. Len(y) : v[i + 1] = y[i]
  BY <1>3, HeadIs DEF Begins
<1>5. /\ Len(y) = Len(q) - 1 /\ \A i \in 1 .. Len(y) : y[i] = q[i + 1]
      /\ Len(q) \in Nat /\ Len(q) > 0 /\ x = q[1]
  BY <1>1, <1>2, SplitsOff
<1>6. Len(v) = Len(q)
  BY <1>4, <1>5
<1>7. ASSUME NEW i \in 1 .. Len(q) PROVE v[i] = q[i]
  <2>1. CASE i = 1
    BY <1>4, <1>5, <2>1
  <2>2. CASE i # 1
    <3>1. i - 1 \in 1 .. Len(y) /\ i - 1 + 1 = i
      BY <1>5, <2>2
    <3>2. v[i - 1 + 1] = y[i - 1] /\ y[i - 1] = q[i - 1 + 1]
      BY <1>4, <1>5, <3>1
    <3> QED BY <3>1, <3>2
  <2> QED BY <2>1, <2>2
<1>8. v = q
  BY <1>6, <1>7, SeqEqual
<1> QED BY <1>1, <1>2, <1>3, <1>8

LEMMA HeardHead ==
    ASSUME NEW h, NEW r, NEW evs \in Seq(Event(h)), evs # <<>>
    PROVE  /\ Head(evs) \in Event(h) /\ Tail(evs) \in Seq(Event(h))
           /\ Heard(h, r, evs) = Tells(h, r)[Head(evs)] \o Heard(h, r, Tail(evs))
           /\ Leaves(Tail(evs), r) => Leaves(evs, r)
           /\ Head(evs).type = "Disconnected" /\ Head(evs).remote = r => Leaves(evs, r)
<1>1. PICK x \in Event(h) : x = Head(evs)
  BY SplitsOff
<1>2. PICK y \in Seq(Event(h)) : y = Tail(evs)
  BY SplitsOff
<1>3. PICK p \in Seq(Event(h)) : p = <<x>>
  BY OneIsIn
<1>4. evs = p \o y
  BY <1>1, <1>2, <1>3, FrontIs
<1>5. Heard(h, r, evs) = Heard(h, r, p) \o Heard(h, r, y) /\ Heard(h, r, p) = Tells(h, r)[x]
  BY <1>3, <1>4, HeardIs
<1>6. /\ Len(y) = Len(evs) - 1 /\ \A i \in 1 .. Len(y) : y[i] = evs[i + 1]
      /\ Len(evs) \in Nat /\ Len(evs) > 0 /\ x = evs[1]
  BY <1>1, <1>2, SplitsOff
<1>7. ASSUME Leaves(y, r) PROVE Leaves(evs, r)
  <2>1. PICK i \in 1 .. Len(y) : y[i].type = "Disconnected" /\ y[i].remote = r
    BY <1>7 DEF Leaves
  <2>2. i + 1 \in 1 .. Len(evs) /\ evs[i + 1] = y[i]
    BY <1>6
  <2> QED BY <2>1, <2>2 DEF Leaves
<1>8. x.type = "Disconnected" /\ x.remote = r => Leaves(evs, r)
  <2>1. 1 \in 1 .. Len(evs)
    BY <1>6
  <2> QED BY <1>6, <2>1 DEF Leaves
<1> QED BY <1>1, <1>2, <1>5, <1>7, <1>8

-----------------------------------------------------------------------------
(* Nothing that is said is left out.                                       *)
LEMMA NothingJoined ==
    ASSUME NEW S, NEW a \in Seq(S), NEW b \in Seq(S), a \o b = <<>>
    PROVE  a = <<>> /\ b = <<>>
<1>1. Len(a \o b) = Len(a) + Len(b)
  BY ConcatProperties
<1>2. Len(a) = 0 /\ Len(b) = 0
  BY <1>1
<1> QED BY <1>2

LEMMA MappedSilent ==
    ASSUME NEW S, NEW E, NEW f, Maps(f, E, S)
    PROVE  \A q \in Seq(E) : Mapped(f, q) = <<>> => \A i \in 1 .. Len(q) : f[q[i]] = <<>>
<1> DEFINE Silent(q) == Mapped(f, q) = <<>> => \A i \in 1 .. Len(q) : f[q[i]] = <<>>
           G == {q \in Seq(E) : Silent(q)}
<1>1. <<>> \in G
  <2>1. Silent(<<>>)
    OBVIOUS
  <2>2. <<>> \in Seq(E)
    OBVIOUS
  <2> QED BY <2>1, <2>2
<1>2. ASSUME NEW p \in Seq(E), NEW x \in E, p \in G
      PROVE  Append(p, x) \in G
  <2>1. PICK q \in Seq(E) : q = Append(p, x)
    BY AppendIsIn
  <2>2. Mapped(f, q) = Mapped(f, p) \o f[x]
    BY <2>1, MappedGrows
  <2>3. Mapped(f, p) \in Seq(S) /\ f[x] \in Seq(S)
    BY MappedType DEF Maps
  <2>4. Mapped(f, q) = <<>> => Mapped(f, p) = <<>> /\ f[x] = <<>>
    BY <2>2, <2>3, NothingJoined
  <2>5. Len(q) = Len(p) + 1 /\ q[Len(p) + 1] = x /\ \A i \in 1 .. Len(p) : q[i] = p[i]
    BY <2>1
  <2>6. \A i \in 1 .. Len(q) : i \in 1 .. Len(p) \/ i = Len(p) + 1
    <3>1. Len(p) \in Nat
      OBVIOUS
    <3> QED BY <2>5, <3>1
  <2>7. Silent(q)
    <3> SUFFICES ASSUME Mapped(f, q) = <<>>, NEW i \in 1 .. Len(q) PROVE f[q[i]] = <<>>
      OBVIOUS
    <3>1. \A j \in 1 .. Len(p) : f[p[j]] = <<>>
      BY <1>2, <2>4
    <3> QED BY <2>4, <2>5, <2>6, <3>1
  <2> HIDE DEF Silent
  <2> QED BY <2>1, <2>7
<1>3. \A q \in Seq(E) : q \in G
  <2> HIDE DEF G
  <2> QED BY <1>1, <1>2, SequencesInduction
<1> QED BY <1>3

LEMMA Silence ==
    ASSUME NEW T, NEW r, NEW w \in Seq(Message), Reads(T, r, w), Spoken(w) = <<>>
    PROVE  /\ \A i \in 1 .. Len(w) : w[i].kind = "DisconnectionNotification"
           /\ \A V : Reads(V, r, w)
           /\ ~ Farewell(w) => w = <<>>
<1>1. \A i \in 1 .. Len(w) : Says[w[i]] = <<>>
  BY SaysType, MappedSilent DEF Spoken
<1>2. ASSUME NEW i \in 1 .. Len(w) PROVE w[i].kind = "DisconnectionNotification"
  <2>1. PICK m \in Message : m = w[i]
    OBVIOUS
  <2>2. Kind(m) /\ (m.kind \in Accepting => m.kind # "GamePacket")
    BY MessageKind
  <2>3. CASE m.kind \in Accepting
    <3>1. Says[m] = <<"Connected">>
      BY <2>2, <2>3 DEF Says
    <3>2. Says[m] = <<>>
      BY <1>1, <2>1
    <3>3. <<"Connected">> # <<>>
      OBVIOUS
    <3> QED BY <3>1, <3>2, <3>3
  <2>4. CASE m.kind = "GamePacket"
    <3>1. Says[m] = m.batch.packets
      BY <2>2, <2>4 DEF Says
    <3>2. m.batch.packets # <<>>
      BY <2>1, <2>4 DEF Reads, Fine
    <3> QED BY <1>1, <2>1, <3>1, <3>2
  <2> QED BY <2>1, <2>2, <2>3, <2>4 DEF Kind
<1>3. \A V : Reads(V, r, w)
  <2>1. \A i \in 1 .. Len(w) : w[i].kind \notin Accepting /\ w[i].kind # "GamePacket"
    BY <1>2 DEF Accepting
  <2>2. \A i \in 1 .. Len(w) : i = Len(w)
    BY <1>2 DEF Reads
  <2> QED BY <2>1, <2>2 DEF Reads
<1>4. ~ Farewell(w) => w = <<>>
  <2>0. Len(w) = 0 => w = <<>>
    OBVIOUS
  <2>1. ~ Farewell(w) => Len(w) = 0
    <3>1. Len(w) > 0 => 1 \in 1 .. Len(w)
      OBVIOUS
    <3>2. Len(w) \in Nat
      OBVIOUS
    <3> QED BY <1>2, <3>1, <3>2 DEF Farewell
  <2> QED BY <2>0, <2>1
<1> QED BY <1>2, <1>3, <1>4

-----------------------------------------------------------------------------
(* Sending.                                                                *)
Resembles(p, q) ==
    /\ p.initialized = q.initialized /\ p.algorithm = q.algorithm
    /\ p.enabled = q.enabled /\ p.recv_counter = q.recv_counter

LEMMA ReadsAlike ==
    ASSUME NEW T, NEW V, NEW r, NEW w, Reads(T, r, w),
           r \in DOMAIN T => r \in DOMAIN V /\ Resembles(V[r], T[r])
    PROVE  Reads(V, r, w)
<1>1. ASSUME NEW i, Fine(T, r, w, i) PROVE Fine(V, r, w, i)
  <2>1. CASE Opens(w)
    BY <1>1, <2>1 DEF Fine
  <2>2. CASE ~ Opens(w)
    <3>1. r \in DOMAIN T /\ Suits(T[r], w[i].batch, i - 1) /\ r \in DOMAIN V /\ Resembles(V[r], T[r])
      BY <1>1, <2>2 DEF Fine
    <3>2. Suits(V[r], w[i].batch, i - 1)
      BY <3>1 DEF Suits, Resembles, Header
    <3> QED BY <1>1, <2>2, <3>1, <3>2 DEF Fine
  <2> QED BY <2>1, <2>2
<1> QED BY <1>1 DEF Reads

LEMMA EncodedIs ==
    ASSUME NEW p \in Processor
    PROVE  /\ Resembles(encoded(p), p)
           /\ p.enabled => encoded(p).send_counter = p.send_counter + 1
           /\ ~ p.enabled => encoded(p) = p
<1>1. CASE p.enabled
  <2>1. encoded(p) = [p EXCEPT !.send_counter = @ + 1]
    BY <1>1 DEF encoded
  <2>2. encoded(p).send_counter = p.send_counter + 1
    BY <2>1 DEF Processor
  <2>3. Resembles(encoded(p), p)
    BY <2>1 DEF Processor, Resembles
  <2> QED BY <1>1, <2>2, <2>3
<1>2. CASE ~ p.enabled
  BY <1>2 DEF encoded, Resembles
<1> QED BY <1>1, <1>2

LEMMA EncodedLeads ==
    ASSUME NEW p \in Processor, NEW q \in Processor, NEW n \in Nat, Leads(p, q, n)
    PROVE  Leads(encoded(p), q, n + 1)
<1>1. CASE p.enabled
  <2>1. encoded(p).send_counter = p.send_counter + 1 /\ Resembles(encoded(p), p)
    BY <1>1, EncodedIs
  <2>2. p.send_counter = q.recv_counter + n
    BY <1>1 DEF Leads
  <2>3. encoded(p).send_counter = q.recv_counter + (n + 1)
    BY <2>1, <2>2 DEF Processor
  <2> QED BY <2>1, <2>3 DEF Leads, Resembles, Header
<1>2. CASE ~ p.enabled
  <2>1. encoded(p) = p
    BY <1>2, EncodedIs
  <2> QED BY <1>2, <2>1 DEF Leads
<1> QED BY <1>1, <1>2

(* What h encodes next for r suits the reader.                             *)
Ready(T, h, w, p) ==
    IF Opens(w) THEN Leads(p, NewProcessor, 0) ELSE h \in DOMAIN T /\ Leads(p, T[h], Len(w))

Grown(w, v) ==
    /\ Len(v) >= Len(w) /\ \A i \in 1 .. Len(w) : v[i] = w[i]
    /\ \A i \in 1 .. Len(v) : i > Len(w) => v[i].kind = "GamePacket"

LEMMA GrownOn ==
    ASSUME NEW u \in Seq(Message), NEW v \in Seq(Message), NEW w \in Seq(Message),
           Grown(u, v), Grown(v, w)
    PROVE  Grown(u, w)
<1>1. Len(u) \in Nat /\ Len(v) \in Nat /\ Len(w) \in Nat
  OBVIOUS
<1>2. Len(v) >= Len(u) /\ Len(w) >= Len(v)
  BY DEF Grown
<1>3. ASSUME NEW i \in 1 .. Len(u) PROVE w[i] = u[i]
  <2>1. i \in 1 .. Len(v)
    BY <1>1, <1>2
  <2> QED BY <2>1 DEF Grown
<1>4. ASSUME NEW i \in 1 .. Len(w), i > Len(u) PROVE w[i].kind = "GamePacket"
  <2>1. CASE i <= Len(v)
    <3>1. i \in 1 .. Len(v)
      BY <1>1, <2>1
    <3> QED BY <1>4, <3>1 DEF Grown
  <2>2. CASE i > Len(v)
    BY <2>2 DEF Grown
  <2>3. i <= Len(v) \/ i > Len(v)
    BY <1>1
  <2> QED BY <2>1, <2>2, <2>3
<1> QED BY <1>1, <1>2, <1>3, <1>4 DEF Grown

LEMMA GrownIs ==
    ASSUME NEW w \in Seq(Message), NEW v \in Seq(Message), Grown(w, v)
    PROVE  /\ AllGame(w) => AllGame(v)
           /\ Opens(w) => Opens(v)
           /\ Farewell(v) => Farewell(w)
<1>1. Len(w) \in Nat /\ Len(v) \in Nat /\ Len(v) >= Len(w)
  BY DEF Grown
<1>2. \A i \in 1 .. Len(v) : i \in 1 .. Len(w) \/ i > Len(w)
  BY <1>1
<1>3. \A i \in 1 .. Len(w) : i \in 1 .. Len(v)
  BY <1>1
<1>4. AllGame(w) => AllGame(v)
  BY <1>2 DEF AllGame, Grown
<1>5. Opens(w) => Opens(v)
  <2>1. Len(w) > 0 => 1 \in 1 .. Len(w) /\ Len(v) > 0
    BY <1>1
  <2> QED BY <2>1 DEF Opens, Grown
<1>6. Farewell(v) => Farewell(w)
  <2> SUFFICES ASSUME NEW i \in 1 .. Len(v), v[i].kind = "DisconnectionNotification"
               PROVE  Farewell(w)
    BY DEF Farewell
  <2>1. ~ (i > Len(w))
    BY DEF Grown
  <2>2. i \in 1 .. Len(w) /\ v[i] = w[i]
    BY <1>2, <2>1 DEF Grown
  <2> QED BY <2>2 DEF Farewell
<1> QED BY <1>4, <1>5, <1>6

(* What sending to the remotes R changes, and what not.                    *)
Goes(h, r, s) == r \in DOMAIN s.table[h] /\ peer[<<h, r>>] = "Connected"

Calm(h, R, s, t) ==
    /\ \A g \in Handler : g # h => t.table[g] = s.table[g]
    /\ DOMAIN t.table[h] = DOMAIN s.table[h]
    /\ \A q \in DOMAIN s.table[h] : IF q \in R THEN Resembles(t.table[h][q], s.table[h][q])
                                    ELSE t.table[h][q] = s.table[h][q]
    /\ \A l \in Link : ~ (l[1] = h /\ l[2] \in R /\ Goes(h, l[2], s)) =>
                           t.wire[l] = s.wire[l] /\ t.sent[l] = s.sent[l]

\* What r gets of it.
Carried(h, r, s, t, packets) ==
    LET l == <<h, r>>
    IN  /\ Grown(s.wire[l], t.wire[l])
        /\ Spoken(t.wire[l]) = Spoken(s.wire[l]) \o packets
        /\ t.sent[l] = s.sent[l] \o packets

\* And how T, which has to understand it, goes on to do so.
Flows(T, h, r, s) ==
    LET l == <<h, r>>
    IN  /\ Goes(h, r, s) /\ ~ Farewell(s.wire[l])
        /\ Reads(T, h, s.wire[l]) /\ Ready(T, h, s.wire[l], s.table[h][r])

Puts(h, r, s, t, packets) ==
    /\ t.table[h][r] = encoded(s.table[h][r])
    /\ t.wire[<<h, r>>] = Append(s.wire[<<h, r>>], Game(encode(s.table[h][r], packets)))
    /\ t.sent[<<h, r>>] = s.sent[<<h, r>>] \o packets

LEMMA SendBatchToIs ==
    ASSUME NEW h \in Handler, NEW R, NEW s \in Calls, NEW packets, NEW t, t = SendBatchTo(h, R, s, packets)
    PROVE  /\ Calm(h, R, s, t)
           /\ \A r \in R \intersect Remotes(h) : Goes(h, r, s) => Puts(h, r, s, t, packets)
<1> DEFINE known == R \intersect DOMAIN s.table[h]
           Sends(l) == l[1] = h /\ l[2] \in known /\ peer[l] = "Connected"
           u == [r \in DOMAIN s.table[h] |->
                    IF r \in known THEN encoded(s.table[h][r]) ELSE s.table[h][r]]
<1>1. /\ t.table = [s.table EXCEPT ![h] = u]
      /\ t.wire = [l \in Link |->
                    IF Sends(l)
                      THEN Append(s.wire[l], Game(encode(s.table[h][l[2]], packets)))
                      ELSE s.wire[l]]
      /\ t.sent = [l \in Link |-> IF Sends(l) THEN s.sent[l] \o packets ELSE s.sent[l]]
  BY DEF SendBatchTo
<1>2. s.table \in Tables /\ DOMAIN s.table = Handler
  BY DEF Calls, Tables
<1>3. \A q \in DOMAIN s.table[h] : s.table[h][q] \in Processor
  <2>1. s.table[h] \in Table(h)
    BY <1>2, InTables
  <2> QED BY <2>1, TableIs
<1>4. \A g \in Handler : g # h => t.table[g] = s.table[g]
  <2> HIDE DEF u
  <2> QED BY <1>1, <1>2
<1>5. t.table[h] = u
  <2> HIDE DEF u
  <2> QED BY <1>1, <1>2
<1>6. DOMAIN t.table[h] = DOMAIN s.table[h]
  BY <1>5
<1>7. ASSUME NEW q \in DOMAIN s.table[h]
      PROVE  t.table[h][q] = IF q \in R THEN encoded(s.table[h][q]) ELSE s.table[h][q]
  BY <1>5
<1>8. ASSUME NEW q \in DOMAIN s.table[h]
      PROVE  IF q \in R THEN Resembles(t.table[h][q], s.table[h][q])
             ELSE t.table[h][q] = s.table[h][q]
  BY <1>3, <1>7, EncodedIs
<1>9. ASSUME NEW l \in Link, ~ (l[1] = h /\ l[2] \in R /\ Goes(h, l[2], s))
      PROVE  t.wire[l] = s.wire[l] /\ t.sent[l] = s.sent[l]
  <2>1. l = <<l[1], l[2]>>
    BY LinkEnds
  <2>2. ~ Sends(l)
    <3> SUFFICES ASSUME Sends(l) PROVE FALSE
      OBVIOUS
    <3>1. l = <<h, l[2]>>
      BY <2>1
    <3>2. peer[<<h, l[2]>>] = "Connected"
      BY <3>1
    <3> QED BY <1>9, <3>2 DEF Goes
  <2> HIDE DEF Sends
  <2> QED BY <1>1, <2>2
<1>10. ASSUME NEW r \in R \intersect Remotes(h), Goes(h, r, s)
       PROVE  Puts(h, r, s, t, packets)
  <2>1. r \in DOMAIN s.table[h] /\ peer[<<h, r>>] = "Connected" /\ <<h, r>> \in Link
    BY <1>10, RemotesLink DEF Goes
  <2>2. Sends(<<h, r>>) /\ <<h, r>>[2] = r
    BY <2>1
  <2> HIDE DEF Sends
  <2>3. t.table[h][r] = encoded(s.table[h][r])
    BY <1>7, <2>1
  <2> QED BY <1>1, <2>1, <2>2, <2>3 DEF Puts
<1> QED BY <1>4, <1>6, <1>8, <1>9, <1>10 DEF Calm

(* A message more, at the end.                                             *)
Continues(T, h, w, v, p, packets) ==
    /\ v \in Seq(Message) /\ Grown(w, v) /\ Spoken(v) = Spoken(w) \o packets
    /\ Reads(T, h, v) /\ Ready(T, h, v, encoded(p))

LEMMA ReadsMore ==
    ASSUME Uncompressing, NEW h, NEW r, NEW T \in Table(r), NEW w \in Seq(Message),
           NEW p \in Processor, NEW packets \in Seq(Packet), packets # <<>>,
           ~ Farewell(w), Reads(T, h, w), Ready(T, h, w, p),
           NEW v, v = Append(w, Game(encode(p, packets)))
    PROVE  Continues(T, h, w, v, p, packets)
<1>1. PICK d \in Batch : d = encode(p, packets)
  BY EncodeType
<1>2. PICK m \in Message : m = [kind |-> "GamePacket", batch |-> d]
  BY DEF Message
<1>3. m.kind = "GamePacket" /\ m.batch = d /\ m.kind \notin Accepting /\ v = Append(w, m)
  BY <1>1, <1>2 DEF Game, Accepting
<1>4. v \in Seq(Message)
  BY <1>3, AppendIsIn
<1>5. /\ Len(w) \in Nat /\ Len(v) = Len(w) + 1 /\ v[Len(w) + 1] = m
      /\ \A i \in 1 .. Len(w) : v[i] = w[i]
  BY <1>3
<1>6. \A i \in 1 .. Len(v) : i \in 1 .. Len(w) \/ i = Len(w) + 1
  BY <1>5
<1>7. Grown(w, v)
  <2>1. \A i \in 1 .. Len(v) : i > Len(w) => i = Len(w) + 1
    BY <1>5
  <2>2. Len(v) >= Len(w)
    BY <1>5
  <2> QED BY <1>3, <1>5, <2>1, <2>2 DEF Grown
<1>8. Spoken(v) = Spoken(w) \o packets
  <2>1. PICK one \in Seq(Message) : one = <<m>>
    BY OneIsIn
  <2>2. v = w \o one
    BY <1>3, <2>1
  <2>3. Spoken(one) = Says[m]
    BY <2>1, SpokenIs
  <2>4. Says[m] = packets
    <3>1. Says[m] = m.batch.packets
      BY <1>3 DEF Says
    <3> QED BY <1>1, <1>3, <3>1 DEF encode
  <2> QED BY <2>2, <2>3, <2>4, SpokenIs
<1>9. Opens(v) <=> Opens(w)
  <2>1. Len(w) > 0 => v[1] = w[1]
    BY <1>5
  <2>2. Len(w) = 0 => v[1] = m
    BY <1>5
  <2> QED BY <1>3, <1>5, <2>1, <2>2 DEF Opens
<1>10. d.packets # <<>>
  BY <1>1 DEF encode
<1>11. Fine(T, h, v, Len(w) + 1)
  <2>1. CASE Opens(w)
    <3>1. Leads(p, NewProcessor, 0)
      BY <2>1 DEF Ready
    <3>2. Suits(NewProcessor, d, 0)
      BY <1>1, <3>1, LeadsSuits
    <3> QED BY <1>3, <1>5, <1>9, <1>10, <2>1, <3>2 DEF Fine
  <2>2. CASE ~ Opens(w)
    <3>1. h \in DOMAIN T /\ Leads(p, T[h], Len(w))
      BY <2>2 DEF Ready
    <3>2. Suits(T[h], d, Len(w))
      BY <1>1, <3>1, LeadsSuits
    <3>3. (Len(w) + 1) - 1 = Len(w)
      BY <1>5
    <3> QED BY <1>3, <1>5, <1>9, <1>10, <2>2, <3>1, <3>2, <3>3 DEF Fine
  <2> QED BY <2>1, <2>2
<1>12. Reads(T, h, v)
  <2> SUFFICES ASSUME NEW i \in 1 .. Len(v)
               PROVE  /\ v[i].kind \in Accepting => i = 1 /\ v[i].kind = Opener(h)
                      /\ v[i].kind = "DisconnectionNotification" => i = Len(v)
                      /\ v[i].kind = "GamePacket" => Fine(T, h, v, i)
    BY DEF Reads
  <2>1. CASE i \in 1 .. Len(w)
    <3>1. v[i] = w[i] /\ w[i].kind # "DisconnectionNotification"
      BY <1>5, <2>1 DEF Farewell
    <3>2. /\ w[i].kind \in Accepting => i = 1 /\ w[i].kind = Opener(h)
          /\ w[i].kind = "GamePacket" => Fine(T, h, w, i)
      BY <2>1 DEF Reads
    <3>3. Fine(T, h, w, i) => Fine(T, h, v, i)
      BY <1>9, <3>1 DEF Fine
    <3> QED BY <3>1, <3>2, <3>3
  <2>2. CASE i = Len(w) + 1
    BY <1>3, <1>5, <1>11, <2>2
  <2> QED BY <1>6, <2>1, <2>2
<1>13. Ready(T, h, v, encoded(p))
  <2>1. CASE Opens(w)
    <3>1. Leads(p, NewProcessor, 0)
      BY <2>1 DEF Ready
    <3>2. ~ p.enabled
      BY <3>1 DEF Leads, NewProcessor
    <3>3. encoded(p) = p
      BY <3>2, EncodedIs
    <3> QED BY <1>9, <2>1, <3>1, <3>3 DEF Ready
  <2>2. CASE ~ Opens(w)
    <3>1. h \in DOMAIN T /\ Leads(p, T[h], Len(w))
      BY <2>2 DEF Ready
    <3>2. T[h] \in Processor
      BY <3>1, TableIs
    <3>3. Leads(encoded(p), T[h], Len(w) + 1)
      BY <1>5, <3>1, <3>2, EncodedLeads
    <3> QED BY <1>5, <1>9, <2>2, <3>1, <3>3 DEF Ready
  <2> QED BY <2>1, <2>2
<1> QED BY <1>4, <1>7, <1>8, <1>12, <1>13 DEF Continues

LEMMA SendBatchFlows ==
    ASSUME Uncompressing, NEW h \in Handler, NEW R, NEW r \in R \intersect Remotes(h), NEW T \in Table(r),
           NEW s \in Calls, NEW packets \in Seq(Packet), packets # <<>>, Flows(T, h, r, s),
           NEW t, t = SendBatchTo(h, R, s, packets)
    PROVE  Flows(T, h, r, t) /\ Carried(h, r, s, t, packets)
<1>1. <<h, r>> \in Link
  BY RemotesLink
<1>2. PICK w \in Seq(Message) : w = s.wire[<<h, r>>]
  BY <1>1 DEF Calls
<1>3. Goes(h, r, s) /\ ~ Farewell(w) /\ Reads(T, h, w) /\ Ready(T, h, w, s.table[h][r])
  BY <1>2 DEF Flows
<1>4. /\ t.table[h][r] = encoded(s.table[h][r])
      /\ t.wire[<<h, r>>] = Append(w, Game(encode(s.table[h][r], packets)))
      /\ t.sent[<<h, r>>] = s.sent[<<h, r>>] \o packets
      /\ DOMAIN t.table[h] = DOMAIN s.table[h]
  <2>1. Puts(h, r, s, t, packets) /\ Calm(h, R, s, t)
    BY <1>3, SendBatchToIs
  <2> QED BY <1>2, <2>1 DEF Puts, Calm
<1>5. PICK p \in Processor : p = s.table[h][r]
  <2>1. s.table[h] \in Table(h)
    BY InTables DEF Calls
  <2>2. r \in DOMAIN s.table[h]
    BY <1>3 DEF Goes
  <2> QED BY <2>1, <2>2, TableIs
<1>6. PICK v : v = Append(w, Game(encode(p, packets)))
  OBVIOUS
<1>7. /\ v \in Seq(Message) /\ Grown(w, v) /\ Spoken(v) = Spoken(w) \o packets
      /\ Reads(T, h, v) /\ Ready(T, h, v, encoded(p))
  <2>1. Ready(T, h, w, p)
    BY <1>3, <1>5
  <2>2. Continues(T, h, w, v, p, packets)
    BY <1>3, <1>6, <2>1, ReadsMore
  <2> QED BY <2>2 DEF Continues
<1>8. ~ Farewell(v)
  BY <1>3, <1>7, GrownIs
<1>9. v = t.wire[<<h, r>>] /\ t.table[h][r] = encoded(p) /\ Goes(h, r, t)
  BY <1>3, <1>4, <1>5, <1>6 DEF Goes
<1>10. Flows(T, h, r, t)
  <2>1. Goes(h, r, t) /\ ~ Farewell(t.wire[<<h, r>>])
    BY <1>8, <1>9
  <2>2. Reads(T, h, t.wire[<<h, r>>]) /\ Ready(T, h, t.wire[<<h, r>>], t.table[h][r])
    BY <1>7, <1>9, Zenon
  <2> QED BY <2>1, <2>2 DEF Flows
<1>11. Carried(h, r, s, t, packets)
  BY <1>2, <1>4, <1>7, <1>9 DEF Carried
<1> QED BY <1>10, <1>11

LEMMA CalmNot ==
    ASSUME NEW h, NEW R, NEW s
    PROVE  Calm(h, R, s, s)
BY DEF Calm, Resembles

LEMMA CalmOn ==
    ASSUME NEW h \in Handler, NEW R, NEW s, NEW t, NEW u, Calm(h, R, s, t), Calm(h, R, t, u)
    PROVE  Calm(h, R, s, u)
<1>1. ASSUME NEW q \in DOMAIN s.table[h]
      PROVE  IF q \in R THEN Resembles(u.table[h][q], s.table[h][q])
             ELSE u.table[h][q] = s.table[h][q]
  BY DEF Calm, Resembles
<1>2. DOMAIN t.table[h] = DOMAIN s.table[h] /\ \A q : Goes(h, q, t) <=> Goes(h, q, s)
  BY DEF Calm, Goes
<1>3. ASSUME NEW l \in Link, ~ (l[1] = h /\ l[2] \in R /\ Goes(h, l[2], s))
      PROVE  u.wire[l] = s.wire[l] /\ u.sent[l] = s.sent[l]
  BY <1>2, <1>3 DEF Calm
<1>4. \A g \in Handler : g # h => u.table[g] = s.table[g]
  BY DEF Calm
<1>5. DOMAIN u.table[h] = DOMAIN s.table[h]
  BY DEF Calm
<1> QED BY <1>1, <1>3, <1>4, <1>5 DEF Calm

LEMMA CarriedOn ==
    ASSUME NEW h, NEW r, <<h, r>> \in Link, NEW s \in Calls, NEW t \in Calls, NEW u \in Calls,
           NEW p \in Seq(Packet), NEW q \in Seq(Packet), Carried(h, r, s, t, p), Carried(h, r, t, u, q)
    PROVE  Carried(h, r, s, u, p \o q)
<1>1. PICK a \in Seq(Message) : a = s.wire[<<h, r>>]
  BY DEF Calls
<1>2. PICK b \in Seq(Message) : b = t.wire[<<h, r>>]
  BY DEF Calls
<1>3. PICK c \in Seq(Message) : c = u.wire[<<h, r>>]
  BY DEF Calls
<1>4. Grown(a, b) /\ Grown(b, c) /\ Spoken(b) = Spoken(a) \o p /\ Spoken(c) = Spoken(b) \o q
  BY <1>1, <1>2, <1>3 DEF Carried
<1>5. Grown(a, c)
  BY <1>4, GrownOn
<1>6. p \in Seq(Sign) /\ q \in Seq(Sign) /\ Spoken(a) \in Seq(Sign)
  BY PacketsAreSigns, SpokenIs
<1>7. Spoken(c) = Spoken(a) \o (p \o q)
  <2>1. PICK x \in Seq(Sign) : x = Spoken(a)
    BY <1>6
  <2>2. (x \o p) \o q = x \o (p \o q)
    <3>1. Joining(x, p, q)
      BY <1>6, <2>1, SignsJoin
    <3> QED BY <3>1 DEF Joining
  <2>3. Spoken(c) = (x \o p) \o q
    BY <1>4, <2>1
  <2> QED BY <2>1, <2>2, <2>3
<1>8. PICK m \in Seq(Packet) : m = s.sent[<<h, r>>]
  BY DEF Calls
<1>9. u.sent[<<h, r>>] = (m \o p) \o q
  BY <1>8 DEF Carried
<1>10. u.sent[<<h, r>>] = m \o (p \o q)
  <2>1. (m \o p) \o q = m \o (p \o q)
    <3>1. Joining(m, p, q)
      BY <1>8, PacketsJoin
    <3> QED BY <3>1 DEF Joining
  <2> QED BY <1>9, <2>1
<1> QED BY <1>1, <1>3, <1>5, <1>7, <1>8, <1>10 DEF Carried

LEMMA CarriedNothing ==
    ASSUME NEW h, NEW r, <<h, r>> \in Link, NEW s \in Calls
    PROVE  Carried(h, r, s, s, <<>>)
<1>1. PICK a \in Seq(Message) : a = s.wire[<<h, r>>]
  BY DEF Calls
<1>2. PICK m \in Seq(Packet) : m = s.sent[<<h, r>>]
  BY DEF Calls
<1>3. Spoken(a) \o <<>> = Spoken(a)
  <2>1. Spoken(a) \in Seq(Sign)
    BY SpokenIs
  <2> QED BY <2>1, ConcatEmptySeq
<1>4. m \o <<>> = m
  BY ConcatEmptySeq
<1>5. Grown(a, a)
  <2>1. Len(a) \in Nat
    OBVIOUS
  <2> QED BY <2>1 DEF Grown
<1> QED BY <1>1, <1>2, <1>3, <1>4, <1>5 DEF Carried

Sent(T, h, r, s, t, packets) ==
    /\ t \in Calls /\ Calm(h, {r}, s, t)
    /\ Flows(T, h, r, s) => Flows(T, h, r, t) /\ Carried(h, r, s, t, packets)

LEMMA SendEachSent ==
    ASSUME Uncompressing, NEW h \in Handler, NEW r \in Remotes(h), NEW T \in Table(r),
           NEW s \in Calls, NEW packets \in Seq(Packet)
    PROVE  Sent(T, h, r, s, SendEach(h, r, s, packets), packets)
<1>0. <<h, r>> \in Link
  BY RemotesLink
<1>1. PICK N \in Nat : N = Len(packets)
  OBVIOUS
<1>2. PICK run : SendRun(run, h, r, s, packets)
  BY <1>1, SendEachRun
<1>3. /\ run[0] = s /\ SendEach(h, r, s, packets) = run[N]
      /\ \A k \in 1 .. N : run[k] = SendOne(h, r, run[k - 1], packets[k])
  BY <1>1, <1>2 DEF SendRun
<1> DEFINE G == {k \in 0 .. N : Sent(T, h, r, s, run[k], SubSeq(packets, 1, k))}
<1>4. 0 \in G
  <2>1. SubSeq(packets, 1, 0) = <<>>
    OBVIOUS
  <2>2. Calm(h, {r}, s, s) /\ Carried(h, r, s, s, <<>>)
    BY <1>0, CalmNot, CarriedNothing
  <2>3. Sent(T, h, r, s, s, <<>>)
    BY <2>2 DEF Sent
  <2>4. Sent(T, h, r, s, run[0], SubSeq(packets, 1, 0))
    BY <1>3, <2>1, <2>3
  <2>5. 0 \in 0 .. N
    BY <1>1
  <2> QED BY <2>4, <2>5, Zenon
<1>5. ASSUME NEW k \in 1 .. N, k - 1 \in G
      PROVE  k \in G
  <2>1. PICK t : t = run[k - 1]
    OBVIOUS
  <2>2. PICK p : p = SubSeq(packets, 1, k - 1)
    OBVIOUS
  <2>3. k \in 1 .. Len(packets)
    BY <1>1
  <2>4. p \in Seq(Packet) /\ packets[k] \in Packet /\ SubSeq(packets, 1, k) = Append(p, packets[k])
    BY <2>2, <2>3, PrefixGrows
  <2>5. PICK one \in Seq(Packet) : one = <<packets[k]>>
    <3>1. PICK x \in Packet : x = packets[k]
      BY <2>4
    <3>2. <<x>> \in Seq(Packet)
      BY OneIsIn
    <3> QED BY <3>1, <3>2
  <2>6. one # <<>> /\ SubSeq(packets, 1, k) = p \o one
    <3>1. PICK x \in Packet : x = packets[k]
      BY <2>4
    <3>2. Len(one) = 1 /\ one[1] = x
      BY <2>5, <3>1
    <3>3. Append(p, x) = p \o <<x>>
      BY <2>4, AppendIsConcat
    <3>4. one # <<>>
      BY <3>2
    <3> QED BY <2>4, <2>5, <3>1, <3>3, <3>4
  <2>7. Sent(T, h, r, s, t, p)
    BY <1>5, <2>1, <2>2
  <2>8. PICK u : u = SendBatchTo(h, {r}, t, one)
    OBVIOUS
  <2>9. u = run[k]
    BY <1>3, <2>1, <2>5, <2>8 DEF SendOne
  <2>10. t \in Calls /\ Calm(h, {r}, s, t)
    BY <2>7 DEF Sent
  <2>11. u \in Calls
    BY <2>8, <2>10, SendBatchToType
  <2>12. Calm(h, {r}, t, u)
    BY <2>8, <2>10, SendBatchToIs
  <2>13. Calm(h, {r}, s, u)
    BY <2>10, <2>12, CalmOn
  <2>14. ASSUME Flows(T, h, r, s) PROVE Flows(T, h, r, u) /\ Carried(h, r, s, u, p \o one)
    <3>1. Flows(T, h, r, t) /\ Carried(h, r, s, t, p)
      BY <2>7, <2>14 DEF Sent
    <3>2. r \in {r} \intersect Remotes(h)
      OBVIOUS
    <3>3. PICK R : R = {r}
      OBVIOUS
    <3>4. u = SendBatchTo(h, R, t, one) /\ r \in R \intersect Remotes(h)
      BY <2>8, <3>2, <3>3
    <3>5. Flows(T, h, r, u) /\ Carried(h, r, t, u, one)
      BY <2>6, <2>10, <3>1, <3>4, SendBatchFlows
    <3>6. Carried(h, r, s, u, p \o one)
      BY <1>0, <2>4, <2>10, <2>11, <3>1, <3>5, CarriedOn
    <3> QED BY <3>5, <3>6
  <2>15. Sent(T, h, r, s, u, p \o one)
    BY <2>11, <2>13, <2>14 DEF Sent
  <2>16. Sent(T, h, r, s, run[k], SubSeq(packets, 1, k))
    BY <2>6, <2>9, <2>15
  <2>17. k \in 0 .. N
    BY <1>1
  <2> QED BY <2>16, <2>17, Zenon
<1> HIDE DEF G
<1>6. \A k \in 0 .. N : k \in G
  BY <1>1, <1>4, <1>5, StepsInduction
<1>7. N \in 0 .. N
  BY <1>1
<1>8. Sent(T, h, r, s, run[N], SubSeq(packets, 1, N))
  BY <1>6, <1>7 DEF G
<1>9. SubSeq(packets, 1, N) = packets
  BY <1>1
<1> QED BY <1>3, <1>8, <1>9

(* One batch, to several remotes.                                          *)
LEMMA SendBatchSent ==
    ASSUME Uncompressing, NEW h \in Handler, NEW R, NEW r \in R \intersect Remotes(h), NEW T \in Table(r),
           NEW s \in Calls, NEW packets \in Seq(Packet), packets # <<>>, Flows(T, h, r, s)
    PROVE  /\ Flows(T, h, r, SendBatchTo(h, R, s, packets))
           /\ Carried(h, r, s, SendBatchTo(h, R, s, packets), packets)
BY SendBatchFlows

LEMMA SendBatchCalm ==
    ASSUME NEW h \in Handler, NEW R, NEW s \in Calls, NEW packets
    PROVE  Calm(h, R, s, SendBatchTo(h, R, s, packets))
BY SendBatchToIs

-----------------------------------------------------------------------------
(* The story of a login.                                                   *)
LEMMA JoinsIs ==
    ASSUME NEW S, NEW a \in Seq(S), NEW b \in Seq(S)
    PROVE  /\ a \o b \in Seq(S) /\ Joins(a, b, a \o b)
           /\ Len(a) \in Nat /\ Len(b) \in Nat
<1>1. PICK c \in Seq(S) : c = a \o b
  BY ConcatProperties
<1>2. Len(a) \in Nat /\ Len(b) \in Nat
  OBVIOUS
<1>3. Joins(a, b, c)
  BY <1>1, <1>2 DEF Joins
<1> QED BY <1>1, <1>2, <1>3

LEMMA StoryIs ==
    /\ Story \in Seq(Sign) /\ Len(Story) = 5
    /\ \A n \in 1 .. 5 : Story[n] \in Steps
    /\ \A i, j \in 1 .. 5 : Story[i] = Story[j] => i = j
    /\ SubSeq(Story, 1, 0) = <<>>
<1>1. Len(Story) = 5 /\ \A n \in 1 .. 5 : Story[n] \in Steps
  BY StepsArePackets DEF Story
<1>2. \A i, j \in 1 .. 5 : Story[i] = Story[j] => i = j
  BY DEF Story
<1>3. SubSeq(Story, 1, 0) = <<>>
  BY DEF Story
<1>4. Story \in Seq(Sign)
  <2>1. /\ "NetworkSettings" \in Sign /\ "ResourcePacksInfo" \in Sign
        /\ "ResourcePackStack" \in Sign /\ "StartGame" \in Sign /\ "PlayerSpawn" \in Sign
    BY StepsArePackets
  <2> QED BY <2>1 DEF Story
<1> QED BY <1>1, <1>2, <1>3, <1>4

LEMMA StoryGrows ==
    ASSUME NEW n \in 1 .. 5
    PROVE  SubSeq(Story, 1, n) = SubSeq(Story, 1, n - 1) \o <<Story[n]>>
<1>1. n \in 1 .. Len(Story)
  BY StoryIs
<1>2. /\ SubSeq(Story, 1, n - 1) \in Seq(Sign) /\ Story[n] \in Sign
      /\ SubSeq(Story, 1, n) = Append(SubSeq(Story, 1, n - 1), Story[n])
  BY <1>1, StoryIs, PrefixGrows
<1> HIDE DEF Sign
<1> QED BY <1>2, AppendIsConcat

Prefix(n) == SubSeq(Story, 1, n)

LEMMA PrefixIs ==
    ASSUME NEW n \in 0 .. 5
    PROVE  /\ Prefix(n) \in Seq(Sign) /\ Len(Prefix(n)) = n
           /\ \A i \in 1 .. n : Prefix(n)[i] = Story[i]
<1>1. PICK s \in Seq(Sign) : s = Story
  BY StoryIs
<1>2. Len(s) = 5
  BY <1>1, StoryIs
<1>3. PICK p : p = SubSeq(s, 1, n)
  OBVIOUS
<1>4. p \in Seq(Sign) /\ Len(p) = n /\ \A i \in 1 .. n : p[i] = s[i]
  BY <1>2, <1>3
<1> QED BY <1>1, <1>3, <1>4 DEF Prefix

LEMMA InStoryIs ==
    ASSUME NEW q
    PROVE  InStory(q) <=> \E n \in 0 .. 5 : Marks(q) = Prefix(n)
BY DEF InStory, Prefix

LEMMA InStoryPrefix ==
    ASSUME NEW a \in Seq(Sign), NEW b \in Seq(Sign), InStory(a \o b)
    PROVE  InStory(a)
<1>1. PICK n \in 0 .. 5 : Marks(a \o b) = Prefix(n)
  BY InStoryIs
<1>2. PICK x \in Seq(Sign), y \in Seq(Sign) : x = Marks(a) /\ y = Marks(b)
  BY MarksAre
<1>3. x \o y = Prefix(n)
  BY <1>1, <1>2, MarksAre
<1>4. PICK z \in Seq(Sign) : z = Prefix(n)
  BY PrefixIs
<1>5. Len(x) \in 0 .. 5 /\ \A i \in 1 .. Len(x) : x[i] = Story[i]
  <2>1. Len(z) = n /\ \A i \in 1 .. n : z[i] = Story[i]
    BY <1>4, PrefixIs
  <2>2. Joins(x, y, z) /\ Len(x) \in Nat /\ Len(y) \in Nat
    BY <1>3, <1>4, JoinsIs
  <2>3. Len(x) \in 0 .. n /\ \A i \in 1 .. Len(x) : z[i] = x[i]
    BY <2>1, <2>2 DEF Joins
  <2>4. \A i \in 1 .. Len(x) : i \in 1 .. n
    BY <2>3
  <2>5. \A i \in 1 .. Len(x) : x[i] = Story[i]
    BY <2>1, <2>3, <2>4
  <2>6. Len(x) \in 0 .. 5
    <3>1. \A l \in 0 .. n : l \in 0 .. 5
      OBVIOUS
    <3> QED BY <2>3, <3>1
  <2> QED BY <2>5, <2>6
<1>6. PICK p \in Seq(Sign) : p = Prefix(Len(x))
  BY <1>5, PrefixIs
<1>7. Len(p) = Len(x) /\ \A i \in 1 .. Len(x) : p[i] = x[i]
  BY <1>5, <1>6, PrefixIs
<1>8. p = x
  BY <1>7, SeqEqual
<1> QED BY <1>2, <1>5, <1>6, <1>8, InStoryIs

LEMMA InStoryOnce ==
    ASSUME NEW q \in Seq(Sign), InStory(q), NEW i \in 1 .. Len(q), NEW j \in 1 .. Len(q),
           q[i] \in Steps, q[i] = q[j], i < j
    PROVE  FALSE
<1>1. PICK x \in Sign : x = q[i]
  OBVIOUS
<1>2. PICK a \in Seq(Sign), b \in Seq(Sign) :
          /\ q = (a \o <<x>>) \o b /\ Len(a) = i - 1
          /\ Marks(q) = (Marks(a) \o <<x>>) \o Marks(b)
  BY <1>1, MarksHave
<1>3. PICK o \in Seq(Sign) : o = <<x>>
  BY OneIsIn
<1>4. PICK d \in Seq(Sign) : d = a \o o
  BY ConcatProperties
<1>5. Len(o) = 1 /\ o[1] = x
  BY <1>3
<1>6. Len(d) = i /\ q = d \o b
  <2>1. Joins(a, o, d)
    BY <1>4, JoinsIs
  <2>2. Len(d) = i
    BY <1>2, <1>5, <2>1 DEF Joins
  <2> QED BY <1>2, <1>3, <1>4, <2>2
<1>7. j - i \in 1 .. Len(b) /\ b[j - i] = x
  <2>0. Joins(d, b, q) /\ Len(b) \in Nat
    BY <1>6, JoinsIs
  <2>1. Len(q) = i + Len(b)
    BY <1>6, <2>0 DEF Joins
  <2>2. j - i \in 1 .. Len(b) /\ i + (j - i) = j
    BY <2>0, <2>1
  <2>3. q[i + (j - i)] = b[j - i]
    BY <1>6, <2>0, <2>2 DEF Joins
  <2> QED BY <1>1, <2>2, <2>3
<1>8. ~ Lacks(b, x)
  BY <1>7 DEF Lacks
<1>9. ~ Lacks(Marks(b), x)
  BY <1>1, <1>8, MarksLack
<1>10. PICK ma \in Seq(Sign), mb \in Seq(Sign) : ma = Marks(a) /\ mb = Marks(b)
  BY MarksAre
<1>11. PICK m \in 1 .. Len(mb) : mb[m] = x
  BY <1>9, <1>10 DEF Lacks
<1>12. PICK n \in 0 .. 5 : Marks(q) = Prefix(n)
  BY InStoryIs
<1>13. PICK z \in Seq(Sign) : z = Prefix(n)
  BY PrefixIs
<1>14. PICK e \in Seq(Sign) : e = ma \o o
  BY ConcatProperties
<1>15. z = e \o mb
  BY <1>2, <1>3, <1>10, <1>12, <1>13, <1>14
<1>16. PICK k \in Nat : k = Len(ma)
  OBVIOUS
<1>17. Len(e) = k + 1 /\ e[k + 1] = x
  <2>1. Joins(ma, o, e)
    BY <1>14, JoinsIs
  <2>2. 1 \in 1 .. Len(o)
    BY <1>5
  <2> QED BY <1>5, <1>16, <2>1, <2>2 DEF Joins
<1>18. Len(z) = k + 1 + Len(mb) /\ z[k + 1] = x /\ z[k + 1 + m] = x
  <2>1. Joins(e, mb, z)
    BY <1>15, JoinsIs
  <2>2. k + 1 \in 1 .. Len(e) /\ Len(e) \in Nat
    BY <1>16, <1>17
  <2> QED BY <1>11, <1>17, <2>1, <2>2 DEF Joins
<1>19. Len(mb) \in Nat /\ Len(z) = n /\ \A l \in 1 .. n : z[l] = Story[l]
  <2>1. Len(mb) \in Nat
    OBVIOUS
  <2> QED BY <1>13, <2>1, PrefixIs
<1>20. k + 1 \in 1 .. n /\ k + 1 + m \in 1 .. n
  <2>1. PICK y \in Nat : y = Len(mb)
    BY <1>19
  <2>2. n = k + 1 + y /\ m \in 1 .. y
    BY <1>18, <1>19, <2>1
  <2> QED BY <1>16, <2>2
<1>21. Story[k + 1] = Story[k + 1 + m]
  BY <1>18, <1>19, <1>20
<1>22. k + 1 = k + 1 + m
  <2>1. k + 1 \in 1 .. 5 /\ k + 1 + m \in 1 .. 5
    BY <1>20
  <2> QED BY <1>21, <2>1, StoryIs
<1> QED BY <1>16, <1>22

-----------------------------------------------------------------------------
(* What does not touch a client keeps what is good about it.               *)
Untouched(c) ==
    /\ c \in running' <=> c \in running
    /\ Server \in running' <=> Server \in running
    /\ \A l \in {up(c), down(c)} : /\ peer'[l] = peer[l] /\ wire'[l] = wire[l]
                                   /\ sent'[l] = sent[l] /\ seen'[l] = seen[l]
    /\ table'[c] = table[c]
    /\ c \in DOMAIN table'[Server] <=> c \in DOMAIN table[Server]
    /\ c \in DOMAIN table[Server] => table'[Server][c] = table[Server][c]
    /\ Heard(Server, c, events'[Server]) = Heard(Server, c, events[Server])
    /\ Leaves(events'[Server], c) => Leaves(events[Server], c)
    /\ events'[c] = events[c] /\ phase'[c] = phase[c]
    /\ c \in DOMAIN clients' <=> c \in DOMAIN clients
    /\ c \in DOMAIN clients => clients'[c] = clients[c]

LEMMA UntouchedGood ==
    ASSUME NEW c \in Client, Good(c), Untouched(c)
    PROVE  Good(c)'
<1>1. Upward(c)' = Upward(c) /\ Downward(c)' = Downward(c)
  BY DEF Untouched, Upward, Downward, Coming, up, down
<1>2. HearsServer(c)'
  BY <1>1 DEF Good, Untouched, HearsServer
<1>3. HeardByServer(c)'
  <2>1. Reads(table[Server], c, wire[up(c)]) => Reads(table'[Server], c, wire[up(c)])
    <3>1. c \in DOMAIN table[Server] =>
              c \in DOMAIN table'[Server] /\ Resembles(table'[Server][c], table[Server][c])
      BY DEF Untouched, Resembles
    <3> QED BY <3>1, ReadsAlike
  <2> QED BY <1>1, <2>1 DEF Good, Untouched, HeardByServer
<1>4. Ends(c)'
  BY DEF Good, Untouched, Ends, IsOff
<1>5. Script(c)'
  BY <1>1 DEF Good, Untouched, Script
<1>6. Turn(c)'
  <2> SUFFICES ASSUME Server \in running, phase[c] # "off" PROVE Turn(c)'
    BY DEF Turn, Untouched
  <2>1. (sent[up(c)] = seen[up(c)] \o Letters(Upward(c)))'
    BY <1>1 DEF Good, Turn, Untouched
  <2>2. Knocks(c) => Knocks(c)'
    BY DEF Untouched, Knocks
  <2>3. Greets(c) => Greets(c)'
    <3>1. IsPlain(table[Server], c) => IsPlain(table'[Server], c)
      BY DEF Untouched, IsPlain
    <3>2. Fresh(c) => Fresh(c)'
      BY DEF Untouched, Fresh
    <3>3. \A asked : Awaited(c, asked) => Awaited(c, asked)'
      BY <1>1 DEF Untouched, Awaited
    <3>4. \A asked : Met(c, asked) => Met(c, asked)'
      BY <1>1, <3>1, <3>2 DEF Untouched, Met
    <3> QED BY <1>1, <3>3, <3>4 DEF Untouched, Greets
  <2>4. IsSwitched(table[Server], c) => IsSwitched(table'[Server], c)
    BY DEF Untouched, IsSwitched
  <2>5. Switches(c) => Switches(c)'
    BY <1>1, <2>4 DEF Untouched, Switches, IsSwitched
  <2>6. InStep(c) => InStep(c)'
    BY <1>1, <2>4 DEF Untouched, InStep, IsSwitched, Asking, Answering, Playing
  <2> QED BY <2>1, <2>2, <2>3, <2>5, <2>6 DEF Good, Turn
<1> QED BY <1>2, <1>3, <1>4, <1>5, <1>6 DEF Good

-----------------------------------------------------------------------------
(* What a tick leaves of a link.                                           *)
LEMMA FirstAndRest ==
    ASSUME NEW w \in Seq(Message), NEW k \in 0 .. Len(w)
    PROVE  /\ First(w, k) \in Seq(Message) /\ Rest(w, k) \in Seq(Message)
           /\ Len(First(w, k)) = k /\ Len(Rest(w, k)) = Len(w) - k
           /\ \A i \in 1 .. k : First(w, k)[i] = w[i]
           /\ \A i \in 1 .. Len(w) - k : Rest(w, k)[i] = w[k + i]
           /\ Spoken(First(w, k)) \o Spoken(Rest(w, k)) = Spoken(w)
<1>1. PICK n \in Nat : n = Len(w)
  OBVIOUS
<1>2. PICK a : a = First(w, k)
  OBVIOUS
<1>3. PICK b : b = Rest(w, k)
  OBVIOUS
<1>4. a \in Seq(Message) /\ Len(a) = k /\ \A i \in 1 .. k : a[i] = w[i]
  BY <1>1, <1>2 DEF First
<1>5. b \in Seq(Message) /\ Len(b) = n - k /\ \A i \in 1 .. n - k : b[i] = w[k + i]
  <2>1. b \in Seq(Message) /\ Len(b) = n - k
    BY <1>1, <1>3 DEF Rest
  <2>2. ASSUME NEW i \in 1 .. n - k PROVE b[i] = w[k + i]
    <3>1. b[i] = w[k + 1 + i - 1]
      BY <1>1, <1>3, <2>1 DEF Rest
    <3>2. k + 1 + i - 1 = k + i
      BY <1>1
    <3> QED BY <3>1, <3>2
  <2> QED BY <2>1, <2>2
<1>6. Joins(a, b, w)
  BY <1>1, <1>4, <1>5 DEF Joins
<1>7. w = a \o b
  BY <1>4, <1>5, <1>6, ConcatIs
<1>8. Spoken(w) = Spoken(a) \o Spoken(b)
  BY <1>4, <1>5, <1>7, SpokenIs
<1> QED BY <1>1, <1>2, <1>3, <1>4, <1>5, <1>8

(* No message of the game opens or closes the connection.                  *)
LEMMA GameIs ==
    ASSUME NEW w \in Seq(Message), AllGame(w)
    PROVE  ~ Opens(w) /\ ~ Farewell(w)
<1>1. \A i \in 1 .. Len(w) : w[i] \in Message /\ w[i].kind = "GamePacket"
  BY DEF AllGame
<1>2. \A i \in 1 .. Len(w) : w[i].kind \notin Accepting /\ w[i].kind # "DisconnectionNotification"
  BY <1>1 DEF Accepting
<1>3. Len(w) > 0 => 1 \in 1 .. Len(w)
  OBVIOUS
<1> QED BY <1>2, <1>3 DEF Opens, Farewell

\* What a tick does to a link that is in the game, or silent.
Passed(h, r, k) ==
    /\ AllGame(wire'[<<r, h>>])
    /\ Len(wire'[<<r, h>>]) = Len(wire[<<r, h>>]) - k
    /\ peer'[<<h, r>>] = peer[<<h, r>>]
    /\ wire'[<<h, r>>] = wire[<<h, r>>]
    /\ r \in DOMAIN table'[h] <=> r \in DOMAIN table[h]
    /\ r \in DOMAIN table[h] => table'[h][r] = Advanced(table[h][r], k)

\* And to one that opens.
Joined(h, r) ==
    /\ peer'[<<h, r>>] = "Connected"
    /\ r \in DOMAIN table'[h] /\ table'[h][r] = NewProcessor
    /\ AllGame(wire'[<<r, h>>])
    /\ wire'[<<h, r>>] = IF r = Server THEN Append(wire[<<h, r>>], Plain("NewIncomingConnection"))
                         ELSE wire[<<h, r>>]

LEMMA DrewIs ==
    ASSUME TypeInv, NEW h \in Handler, NEW r \in Remotes(h), NEW k \in 0 .. Len(wire[<<r, h>>]),
           Drew(h, r, k), events[h] = <<>>, Reads(table[h], r, wire[<<r, h>>])
    PROVE  /\ Coming(h, r)' = Coming(h, r)
           /\ Farewell(wire'[<<r, h>>]) \/ Leaves(events'[h], r) => Farewell(wire[<<r, h>>])
           /\ AllGame(wire[<<r, h>>]) => Passed(h, r, k)
           /\ Opens(wire[<<r, h>>]) /\ k > 0 /\ ~ Farewell(wire[<<r, h>>]) => Joined(h, r)
           /\ ~ (Opens(wire[<<r, h>>]) /\ k > 0) => wire'[<<h, r>>] = wire[<<h, r>>]
           /\ k = 0 => /\ wire'[<<r, h>>] = wire[<<r, h>>] /\ Heard(h, r, events'[h]) = <<>>
                       /\ peer'[<<h, r>>] = peer[<<h, r>>]
<1>1. <<r, h>> \in Link
  BY RemotesLink
<1>2. PICK w \in Seq(Message) : w = wire[<<r, h>>]
  BY <1>1 DEF TypeInv
<1>3. PICK n \in Nat : n = Len(w)
  OBVIOUS
<1>4. k \in 0 .. Len(w) /\ Reads(table[h], r, w)
  BY <1>2
<1>5. PICK a \in Seq(Message), b \in Seq(Message) : a = First(w, k) /\ b = Rest(w, k)
  BY <1>4, FirstAndRest
<1>6. /\ Len(a) = k /\ Len(b) = n - k
      /\ \A i \in 1 .. k : a[i] = w[i]
      /\ \A i \in 1 .. n - k : b[i] = w[k + i]
      /\ Spoken(a) \o Spoken(b) = Spoken(w)
  BY <1>3, <1>4, <1>5, FirstAndRest
<1>7. /\ wire'[<<r, h>>] = b
      /\ Heard(h, r, events'[h]) = Spoken(a)
      /\ Leaves(events'[h], r) => Farewell(a)
      /\ Turned(r, w, k, table[h], table'[h])
      /\ peer'[<<h, r>>] = IF Farewell(a) THEN "None"
                           ELSE IF Greeted(w, k) THEN "Connected" ELSE peer[<<h, r>>]
      /\ wire'[<<h, r>>] = IF Greeted(w, k) /\ r = Server
                             THEN Append(wire[<<h, r>>], Plain("NewIncomingConnection"))
                           ELSE wire[<<h, r>>]
  BY <1>2, <1>5 DEF Drew
<1>8. Coming(h, r)' = Coming(h, r)
  <2>1. Coming(h, r)' = Spoken(a) \o Spoken(b)
    BY <1>7 DEF Coming
  <2>2. Coming(h, r) = <<>> \o Spoken(w)
    BY <1>2, HeardIs DEF Coming
  <2>3. Spoken(w) \in Seq(Sign)
    BY SpokenIs
  <2>4. <<>> \o Spoken(w) = Spoken(w)
    BY <2>3, ConcatEmptySeq
  <2> QED BY <1>6, <2>1, <2>2, <2>4
<1>9. (Farewell(a) => Farewell(w)) /\ (Farewell(b) => Farewell(w))
  <2>1. ASSUME NEW i \in 1 .. Len(a), a[i].kind = "DisconnectionNotification" PROVE Farewell(w)
    <3>1. i \in 1 .. Len(w) /\ w[i] = a[i]
      BY <1>3, <1>4, <1>6
    <3> QED BY <2>1, <3>1 DEF Farewell
  <2>2. ASSUME NEW i \in 1 .. Len(b), b[i].kind = "DisconnectionNotification" PROVE Farewell(w)
    <3>1. k + i \in 1 .. Len(w) /\ w[k + i] = b[i]
      BY <1>3, <1>4, <1>6
    <3> QED BY <2>2, <3>1 DEF Farewell
  <2> QED BY <2>1, <2>2 DEF Farewell
<1>10. ASSUME AllGame(w) PROVE Passed(h, r, k)
  <2>1. ~ Opens(w) /\ ~ Farewell(w)
    BY <1>10, GameIs
  <2>2. AllGame(b)
    <3>1. ASSUME NEW i \in 1 .. Len(b) PROVE b[i].kind = "GamePacket"
      <4>1. k + i \in 1 .. Len(w) /\ w[k + i] = b[i]
        BY <1>3, <1>4, <1>6
      <4> QED BY <1>10, <4>1 DEF AllGame
    <3> QED BY <3>1 DEF AllGame
  <2>3. ~ Farewell(a) /\ ~ Greeted(w, k)
    BY <1>9, <2>1 DEF Greeted
  <2> QED BY <1>2, <1>3, <1>5, <1>6, <1>7, <2>1, <2>2, <2>3 DEF Passed, Turned
<1>11. ASSUME Opens(w), k > 0, ~ Farewell(w) PROVE Joined(h, r)
  <2>1. Greeted(w, k) /\ ~ Farewell(a)
    BY <1>9, <1>11 DEF Greeted
  <2>2. AllGame(b)
    <3>1. ASSUME NEW i \in 1 .. Len(b) PROVE b[i].kind = "GamePacket"
      <4>1. k + i \in 1 .. Len(w) /\ w[k + i] = b[i] /\ k + i # 1
        BY <1>3, <1>4, <1>6, <1>11
      <4>2. w[k + i].kind \notin Accepting
        BY <1>4, <4>1 DEF Reads
      <4>3. w[k + i].kind # "DisconnectionNotification"
        BY <1>11, <4>1 DEF Farewell
      <4>4. Kind(w[k + i])
        BY <4>1, MessageKind
      <4> QED BY <4>1, <4>2, <4>3, <4>4 DEF Kind
    <3> QED BY <3>1 DEF AllGame
  <2> QED BY <1>5, <1>7, <1>11, <2>1, <2>2 DEF Joined, Turned
<1>12. ~ (Opens(w) /\ k > 0) => wire'[<<h, r>>] = wire[<<h, r>>]
  BY <1>7 DEF Greeted
<1>13. k = 0 => b = w /\ Spoken(a) = <<>> /\ ~ Farewell(a) /\ ~ Greeted(w, k)
  <2>1. k = 0 => b = w
    BY <1>3, <1>6, SeqEqual
  <2>2. k = 0 => a = <<>> /\ ~ Farewell(a)
    BY <1>6 DEF Farewell
  <2>3. k = 0 => ~ Greeted(w, k)
    BY DEF Greeted
  <2> QED BY <2>1, <2>2, <2>3, SpokenIs
<1> QED BY <1>2, <1>7, <1>8, <1>9, <1>10, <1>11, <1>12, <1>13

LEMMA ClientLink ==
    ASSUME NEW c \in Client
    PROVE  /\ Server \in Handler /\ c \in Handler /\ c # Server
           /\ Server \in Remotes(c) /\ c \in Remotes(Server) /\ Remotes(c) = {Server}
           /\ up(c) \in Link /\ down(c) \in Link
           /\ up(c) = <<c, Server>> /\ down(c) = <<Server, c>>
BY ServerLink, ServerAssumption DEF Handler, Remotes, up, down

LEMMA AdvancedLeads ==
    ASSUME NEW p \in Processor, NEW q \in Processor, NEW n \in Nat, NEW k \in 0 .. n
    PROVE  /\ Leads(p, q, n) => Leads(p, Advanced(q, k), n - k)
           /\ \A m : Leads(p, q, m) => Leads(Advanced(p, k), q, m)
<1>1. k \in Nat
  OBVIOUS
<1>2. Header(Advanced(p, k)) = Header(p) /\ Header(Advanced(q, k)) = Header(q)
  <2>1. \A x \in Processor : Advanced(x, k).initialized = x.initialized /\ Advanced(x, k).algorithm = x.algorithm
    BY <1>1, AdvancedIs
  <2>2. \A x \in Processor : Header(Advanced(x, k)) = Header(x)
    BY <2>1 DEF Header
  <2> QED BY <2>2
<1>3. /\ Advanced(q, k).enabled = q.enabled /\ Advanced(p, k).enabled = p.enabled
      /\ Advanced(p, k).send_counter = p.send_counter
      /\ q.enabled => Advanced(q, k).recv_counter = q.recv_counter + k
  BY <1>1, AdvancedIs
<1>4. q.recv_counter \in Nat
  BY DEF Processor
<1>5. q.recv_counter + n = (q.recv_counter + k) + (n - k)
  BY <1>1, <1>4
<1>6. ASSUME Leads(p, q, n) PROVE Leads(p, Advanced(q, k), n - k)
  <2>1. Header(p) = Header(q) /\ p.enabled = q.enabled /\ (p.enabled => p.send_counter = q.recv_counter + n)
    BY <1>6 DEF Leads
  <2>2. p.enabled => p.send_counter = Advanced(q, k).recv_counter + (n - k)
    BY <2>1, <1>3, <1>5
  <2>3. Header(p) = Header(Advanced(q, k)) /\ p.enabled = Advanced(q, k).enabled
    BY <1>2, <1>3, <2>1
  <2> QED BY <2>2, <2>3 DEF Leads
<1>7. ASSUME NEW m, Leads(p, q, m) PROVE Leads(Advanced(p, k), q, m)
  BY <1>2, <1>3, <1>7 DEF Leads
<1> QED BY <1>6, <1>7

LEMMA AdvancedKeeps ==
    ASSUME NEW T, NEW r, r \in DOMAIN T, T[r] \in Processor, NEW k \in Nat,
           NEW V, r \in DOMAIN V, V[r] = Advanced(T[r], k)
    PROVE  /\ IsPlain(T, r) => IsPlain(V, r)
           /\ IsSwitched(T, r) => IsSwitched(V, r)
<1>1. PICK y \in Processor : y = T[r]
  OBVIOUS
<1>2. /\ Advanced(y, k).initialized = y.initialized
      /\ Advanced(y, k).algorithm = y.algorithm
      /\ Advanced(y, k).enabled = y.enabled
  BY AdvancedIs
<1>3. /\ V[r].initialized = T[r].initialized
      /\ V[r].algorithm = T[r].algorithm
      /\ V[r].enabled = T[r].enabled
  BY <1>1, <1>2
<1> QED BY <1>3 DEF IsPlain, IsSwitched

LEMMA TableAt ==
    ASSUME TypeInv, NEW h \in Handler, NEW r \in DOMAIN table[h]
    PROVE  table[h][r] \in Processor
<1>1. table[h] \in Table(h)
  BY InTables DEF TypeInv
<1> QED BY <1>1, TableIs

LEMMA PlainType == \A k \in Plains : Plain(k) \in Message
BY DEF Plain, Message

LEMMA ClientTickOwn ==
    ASSUME TypeInv, NEW c \in Client, Good(c), c \in running, events[c] = <<>>, Elsewhere(c),
           NEW k \in 0 .. Len(wire[down(c)]), Drew(c, Server, k)
    PROVE  Good(c)'
<1>1. /\ Server \in Handler /\ c \in Handler /\ c # Server
      /\ Server \in Remotes(c) /\ c \in Remotes(Server)
      /\ up(c) \in Link /\ down(c) \in Link
      /\ up(c) = <<c, Server>> /\ down(c) = <<Server, c>>
  BY ClientLink
<1>2. Reads(table[c], Server, wire[down(c)]) /\ LastIn(Downward(c), "NetworkSettings")
  BY DEF Good, HearsServer
<1>3. /\ Downward(c)' = Downward(c)
      /\ Farewell(wire'[down(c)]) \/ Leaves(events'[c], Server) => Farewell(wire[down(c)])
      /\ AllGame(wire[down(c)]) => Passed(c, Server, k)
      /\ Opens(wire[down(c)]) /\ k > 0 /\ ~ Farewell(wire[down(c)]) => Joined(c, Server)
      /\ ~ (Opens(wire[down(c)]) /\ k > 0) => wire'[up(c)] = wire[up(c)]
      /\ k = 0 => wire'[down(c)] = wire[down(c)] /\ Heard(c, Server, events'[c]) = <<>>
  BY <1>1, <1>2, DrewIs DEF Downward
<1>4. /\ running' = running /\ sent' = sent /\ seen' = seen /\ clients' = clients /\ phase' = phase
      /\ table'[Server] = table[Server] /\ events'[Server] = events[Server]
      /\ peer'[down(c)] = peer[down(c)]
  BY <1>1 DEF Elsewhere
<1>5. wire'[up(c)] = wire[up(c)] => Upward(c)' = Upward(c)
  BY <1>1, <1>4 DEF Upward, Coming
<1>6. HearsServer(c)'
  <2>1. Reads(table'[c], Server, wire'[down(c)])
    BY <1>1 DEF Drew
  <2> QED BY <1>2, <1>3, <2>1 DEF HearsServer
<1>7. Script(c)'
  BY <1>3, <1>4 DEF Good, Script
<1>8. phase[c] = "off" => AllGame(wire[down(c)]) /\ k = 0
  <2>1. phase[c] = "off" => wire[down(c)] = <<>>
    BY DEF Good, Ends, IsOff
  <2> QED BY <2>1 DEF AllGame
<1>9. IsOff(c) /\ phase[c] = "off" => IsOff(c)'
  <2>1. ASSUME IsOff(c), phase[c] = "off" PROVE IsOff(c)'
    <3>1. ~ Opens(wire[down(c)])
      BY <1>1, <1>8, <2>1, GameIs DEF TypeInv
    <3>2. /\ Server \notin DOMAIN table'[c] /\ peer'[up(c)] = "None"
      BY <1>1, <1>3, <1>8, <2>1 DEF IsOff, Passed
    <3> QED BY <1>3, <1>4, <1>8, <2>1, <3>1, <3>2 DEF IsOff
  <2> QED BY <2>1
<1>10. CASE Opens(wire[down(c)]) /\ k > 0 /\ Server \notin running
  <2>1. HeardByServer(c)' /\ Turn(c)'
    BY <1>4, <1>10 DEF HeardByServer, Turn
  <2>2. Ends(c)'
    BY <1>3, <1>4, <1>9, <1>10 DEF Good, Ends
  <2> QED BY <1>6, <1>7, <2>1, <2>2 DEF Good
<1>11. CASE Opens(wire[down(c)]) /\ k > 0 /\ Server \in running
  <2>1. phase[c] # "off"
    BY <1>8, <1>11
  <2>2. ~ AllGame(wire[down(c)])
    BY <1>1, <1>11, GameIs DEF TypeInv
  <2>3. Knocks(c)
    BY <1>11, <2>1, <2>2 DEF Good, Turn, Greets, Switches, InStep
  <2>4. /\ phase[c] = "connecting" /\ peer[down(c)] = "Connecting"
        /\ wire[down(c)] = <<Plain("ConnectionRequestAccepted")>> /\ wire[up(c)] = <<>>
        /\ Heard(c, Server, events[c]) = <<>> /\ Heard(Server, c, events[Server]) = <<>>
        /\ sent[down(c)] = <<>>
    BY <2>3 DEF Knocks
  <2>5. ~ Farewell(wire[down(c)])
    BY <2>4 DEF Farewell, Plain
  <2>6. Joined(c, Server)
    BY <1>3, <1>11, <2>5
  <2>7. PICK m \in Message : m = Plain("NewIncomingConnection")
    <3>1. "NewIncomingConnection" \in Plains
      BY DEF Plains, Accepting
    <3> QED BY <3>1, PlainType
  <2>8. wire'[up(c)] = <<m>> /\ m.kind = "NewIncomingConnection"
    <3>1. wire'[up(c)] = Append(wire[up(c)], m)
      BY <1>1, <2>6, <2>7 DEF Joined
    <3>2. Append(<<>>, m) = <<m>>
      BY <2>7
    <3>3. m.kind = "NewIncomingConnection"
      BY <2>7 DEF Plain
    <3> QED BY <2>4, <3>1, <3>2, <3>3
  <2>9. Spoken(<<m>>) = <<"Connected">>
    BY <2>7, <2>8, SpokenIs DEF Says, Accepting
  <2>10. Upward(c)' = <<"Connected">> /\ Upward(c) = <<>>
    <3>1. Upward(c)' = <<>> \o <<"Connected">>
      BY <1>1, <1>4, <2>4, <2>8, <2>9 DEF Upward, Coming
    <3>2. Upward(c) = <<>> \o <<>>
      BY <1>1, <2>4, SpokenIs DEF Upward, Coming
    <3>3. <<"Connected">> \in Seq(Sign)
      BY PacketsAreSigns
    <3>4. <<>> \o <<"Connected">> = <<"Connected">>
      BY <3>3, ConcatEmptySeq
    <3> QED BY <3>1, <3>2, <3>4
  <2>11. HeardByServer(c)'
    <3>1. Reads(table'[Server], c, wire'[up(c)])
      BY <1>1, <2>8 DEF Reads, Opener
    <3>2. LastIn(Upward(c)', "RequestNetworkSettings")
      BY <2>10, LastInOne
    <3> QED BY <3>1, <3>2 DEF HeardByServer
  <2>12. Ends(c)'
    <3>1. ~ Farewell(wire'[up(c)])
      BY <2>8 DEF Farewell
    <3> QED BY <1>3, <1>4, <1>9, <3>1 DEF Good, Ends
  <2>13. Greets(c)'
    <3>1. IsPlain(table'[c], Server) /\ peer'[up(c)] = "Connected" /\ AllGame(wire'[down(c)])
      BY <1>1, <2>6 DEF Joined, IsPlain, NewProcessor
    <3>2. Marks(sent'[down(c)]) = <<>>
      BY <1>4, <2>4, MarksAre
    <3>3. Marks(Downward(c)') = <<"Connected">>
      <4>1. PICK p \in Message : p = Plain("ConnectionRequestAccepted")
        BY PlainType DEF Plains, Accepting
      <4>2. Spoken(<<p>>) = <<"Connected">>
        BY <4>1, SpokenIs DEF Says, Plain, Accepting
      <4>3. Downward(c) = <<>> \o <<"Connected">>
        BY <1>1, <2>4, <4>1, <4>2 DEF Downward, Coming
      <4>4. <<>> \o <<"Connected">> = <<"Connected">>
        BY PacketsAreSigns, ConcatEmptySeq
      <4>5. Marks(<<"Connected">>) = <<"Connected">>
        BY StepsArePackets, MarksAre
      <4> QED BY <1>3, <4>3, <4>4, <4>5
    <3>4. Awaited(c, <<>>)'
      <4>1. <<"Connected">> \o <<>> = <<"Connected">>
        BY PacketsAreSigns, ConcatEmptySeq
      <4>2. Opens(wire'[up(c)])
        BY <2>8 DEF Opens, Accepting
      <4> QED BY <1>4, <2>4, <2>10, <4>1, <4>2 DEF Awaited
    <3> QED BY <1>4, <2>4, <3>1, <3>2, <3>3, <3>4 DEF Greets
  <2>14. (sent[up(c)] = seen[up(c)] \o Letters(Upward(c)))'
    <3>1. sent[up(c)] = seen[up(c)] \o Letters(Upward(c))
      BY <1>11, <2>1 DEF Good, Turn
    <3> QED BY <1>4, <2>10, <3>1, LettersAre
  <2>15. Turn(c)'
    BY <2>13, <2>14 DEF Turn
  <2> QED BY <1>6, <1>7, <2>11, <2>12, <2>15 DEF Good
<1>12. CASE ~ (Opens(wire[down(c)]) /\ k > 0)
  <2>1. wire'[up(c)] = wire[up(c)] /\ Upward(c)' = Upward(c)
    BY <1>3, <1>5, <1>12
  <2>2. HeardByServer(c)'
    BY <1>4, <2>1 DEF Good, HeardByServer
  <2>3. Ends(c)'
    BY <1>3, <1>4, <1>9, <2>1 DEF Good, Ends
  <2>4. Turn(c)'
    <3> SUFFICES ASSUME Server \in running, phase[c] # "off" PROVE Turn(c)'
      BY <1>4 DEF Turn
    <3>1. (sent[up(c)] = seen[up(c)] \o Letters(Upward(c)))'
      BY <1>4, <2>1 DEF Good, Turn
    <3>2. ASSUME Knocks(c) PROVE Knocks(c)'
      <4>1. wire[down(c)] = <<Plain("ConnectionRequestAccepted")>>
        BY <3>2 DEF Knocks
      <4>2. Opens(wire[down(c)])
        BY <4>1 DEF Opens, Plain, Accepting
      <4>3. k = 0
        BY <1>12, <4>2
      <4>4. Server \notin DOMAIN table'[c] /\ peer'[up(c)] = peer[up(c)]
        <5>1. ~ Farewell(First(wire[down(c)], k))
          BY <4>1, <4>3 DEF First, Farewell
        <5> QED BY <1>1, <3>2, <4>3, <5>1 DEF Drew, Turned, Greeted, Knocks
      <4> QED BY <1>3, <1>4, <2>1, <3>2, <4>3, <4>4 DEF Knocks
    <3>3. ASSUME AllGame(wire[down(c)]), Server \in DOMAIN table[c]
          PROVE  /\ peer'[up(c)] = peer[up(c)] /\ AllGame(wire'[down(c)])
                 /\ Len(wire'[down(c)]) = Len(wire[down(c)]) - k
                 /\ Server \in DOMAIN table'[c] /\ table'[c][Server] = Advanced(table[c][Server], k)
                 /\ IsPlain(table[c], Server) => IsPlain(table'[c], Server)
                 /\ IsSwitched(table[c], Server) => IsSwitched(table'[c], Server)
      <4>1. Passed(c, Server, k)
        BY <1>3, <3>3
      <4>2. /\ peer'[up(c)] = peer[up(c)] /\ AllGame(wire'[down(c)])
            /\ Len(wire'[down(c)]) = Len(wire[down(c)]) - k
            /\ Server \in DOMAIN table'[c] /\ table'[c][Server] = Advanced(table[c][Server], k)
        BY <1>1, <3>3, <4>1 DEF Passed
      <4>3. table[c][Server] \in Processor
        BY <1>1, <3>3, TableAt
      <4> QED BY <3>3, <4>2, <4>3, AdvancedKeeps
    <3>4. ASSUME Greets(c) PROVE Greets(c)'
      <4>1. AllGame(wire[down(c)]) /\ Server \in DOMAIN table[c]
        BY <3>4 DEF Greets, IsPlain
      <4>2. \A asked : Awaited(c, asked) => Awaited(c, asked)'
        BY <1>4, <2>1 DEF Awaited
      <4>3. \A asked : Met(c, asked) => Met(c, asked)'
        BY <1>4, <2>1 DEF Met, Fresh
      <4> QED BY <1>3, <1>4, <3>3, <3>4, <4>1, <4>2, <4>3 DEF Greets
    <3>5. ASSUME Switches(c) PROVE Switches(c)'
      <4>1. AllGame(wire[down(c)]) /\ Server \in DOMAIN table[c]
        BY <3>5 DEF Switches, IsPlain
      <4> QED BY <1>3, <1>4, <2>1, <3>3, <3>5, <4>1 DEF Switches
    <3>6. ASSUME InStep(c) PROVE InStep(c)'
      <4>1. AllGame(wire[down(c)]) /\ Server \in DOMAIN table[c] /\ c \in DOMAIN table[Server]
        BY <3>6 DEF InStep, IsSwitched
      <4>2. PICK p \in Processor, q \in Processor : p = table[c][Server] /\ q = table[Server][c]
        BY <1>1, <4>1, TableAt
      <4>3. PICK n \in Nat : n = Len(wire[down(c)])
        BY <1>1 DEF TypeInv
      <4>4. PICK m \in Nat : m = Len(wire[up(c)])
        BY <1>1 DEF TypeInv
      <4>5. Leads(q, Advanced(p, k), n - k)
        BY <3>6, <4>2, <4>3, AdvancedLeads DEF InStep
      <4>6. Leads(Advanced(p, k), q, m)
        BY <3>6, <4>2, <4>3, <4>4, AdvancedLeads DEF InStep
      <4>7. /\ Leads(table'[c][Server], table'[Server][c], Len(wire'[up(c)]))
            /\ Leads(table'[Server][c], table'[c][Server], Len(wire'[down(c)]))
        BY <1>4, <2>1, <3>3, <4>1, <4>2, <4>3, <4>4, <4>5, <4>6
      <4>8. \A f : /\ Asking(c, f) => Asking(c, f)'
                   /\ Answering(c, f) => Answering(c, f)'
                   /\ Playing(c, f) => Playing(c, f)'
        BY <1>3, <1>4, <2>1 DEF Asking, Answering, Playing
      <4> QED BY <1>4, <2>1, <3>3, <3>6, <4>1, <4>7, <4>8 DEF InStep
    <3> QED BY <3>1, <3>2, <3>4, <3>5, <3>6 DEF Good, Turn
  <2> QED BY <1>6, <1>7, <2>2, <2>3, <2>4 DEF Good
<1> QED BY <1>10, <1>11, <1>12

(* With nothing coming there is nothing on the way.                        *)
LEMMA NothingComing ==
    ASSUME TypeInv, NEW h \in Handler, NEW r \in Remotes(h), NEW T, Coming(h, r) = <<>>,
           Reads(T, r, wire[<<r, h>>])
    PROVE  /\ \A V : Reads(V, r, wire[<<r, h>>])
           /\ ~ Farewell(wire[<<r, h>>]) => wire[<<r, h>>] = <<>>
<1>1. PICK w \in Seq(Message) : w = wire[<<r, h>>]
  BY RemotesLink DEF TypeInv
<1>2. Heard(h, r, events[h]) \in Seq(Sign) /\ Spoken(w) \in Seq(Sign)
  BY HeardIs, SpokenIs DEF TypeInv
<1>3. Spoken(w) = <<>>
  BY <1>1, <1>2, NothingJoined DEF Coming
<1> QED BY <1>1, <1>3, Silence

LEMMA ServerTickOwn ==
    ASSUME TypeInv, NEW c \in Client, Good(c), Server \in running, events[Server] = <<>>, Elsewhere(Server),
           NEW k \in 0 .. Len(wire[up(c)]), Drew(Server, c, k)
    PROVE  Good(c)'
<1>1. /\ Server \in Handler /\ c \in Handler /\ c # Server
      /\ Server \in Remotes(c) /\ c \in Remotes(Server)
      /\ up(c) \in Link /\ down(c) \in Link
      /\ up(c) = <<c, Server>> /\ down(c) = <<Server, c>>
  BY ClientLink
<1>2. Reads(table[Server], c, wire[up(c)]) /\ LastIn(Upward(c), "RequestNetworkSettings")
  BY DEF Good, HeardByServer
<1>3. /\ Upward(c)' = Upward(c)
      /\ Farewell(wire'[up(c)]) \/ Leaves(events'[Server], c) => Farewell(wire[up(c)])
      /\ AllGame(wire[up(c)]) => Passed(Server, c, k)
      /\ Opens(wire[up(c)]) /\ k > 0 /\ ~ Farewell(wire[up(c)]) => Joined(Server, c)
      /\ k = 0 => /\ wire'[up(c)] = wire[up(c)] /\ Heard(Server, c, events'[Server]) = <<>>
                  /\ peer'[down(c)] = peer[down(c)]
  BY <1>1, <1>2, DrewIs DEF Upward
<1>4. /\ running' = running /\ sent' = sent /\ seen' = seen /\ clients' = clients /\ phase' = phase
      /\ table'[c] = table[c] /\ events'[c] = events[c]
      /\ peer'[up(c)] = peer[up(c)] /\ wire'[down(c)] = wire[down(c)]
  BY <1>1 DEF Elsewhere, Drew
<1>5. Downward(c)' = Downward(c)
  BY <1>1, <1>4 DEF Downward, Coming
<1>6. HearsServer(c)' /\ Script(c)'
  BY <1>4, <1>5 DEF Good, HearsServer, Script
<1>7. HeardByServer(c)'
  <2>1. Reads(table'[Server], c, wire'[up(c)])
    BY <1>1 DEF Drew
  <2> QED BY <1>2, <1>3, <2>1 DEF HeardByServer
<1>8. wire[up(c)] = <<>> => k = 0 /\ AllGame(wire[up(c)])
  BY DEF AllGame
<1>9. Ends(c)'
  <2>1. IsOff(c) => IsOff(c)'
    BY <1>3, <1>4, <1>8 DEF IsOff
  <2> QED BY <1>3, <1>4, <2>1 DEF Good, Ends
<1>10. Turn(c)'
  <2> SUFFICES ASSUME phase[c] # "off" PROVE Turn(c)'
    BY <1>4 DEF Turn
  <2>1. (sent[up(c)] = seen[up(c)] \o Letters(Upward(c)))'
    BY <1>3, <1>4 DEF Good, Turn
  <2>2. ~ Farewell(wire[up(c)])
    BY DEF Good, Ends
  <2>3. ASSUME Knocks(c) PROVE Knocks(c)'
    BY <1>3, <1>4, <1>8, <2>3 DEF Knocks
  <2>4. ASSUME AllGame(wire[up(c)]), c \in DOMAIN table[Server]
        PROVE  /\ peer'[down(c)] = peer[down(c)] /\ AllGame(wire'[up(c)])
               /\ Len(wire'[up(c)]) = Len(wire[up(c)]) - k
               /\ c \in DOMAIN table'[Server] /\ table'[Server][c] = Advanced(table[Server][c], k)
               /\ IsPlain(table[Server], c) => IsPlain(table'[Server], c)
               /\ IsSwitched(table[Server], c) => IsSwitched(table'[Server], c)
    <3>1. Passed(Server, c, k)
      BY <1>3, <2>4
    <3>2. /\ peer'[down(c)] = peer[down(c)] /\ AllGame(wire'[up(c)])
          /\ Len(wire'[up(c)]) = Len(wire[up(c)]) - k
          /\ c \in DOMAIN table'[Server] /\ table'[Server][c] = Advanced(table[Server][c], k)
      BY <1>1, <2>4, <3>1 DEF Passed
    <3>3. table[Server][c] \in Processor
      BY <1>1, <2>4, TableAt
    <3> QED BY <2>4, <3>2, <3>3, AdvancedKeeps
  <2>5. ASSUME Greets(c) PROVE Greets(c)'
    <3>1. ASSUME NEW asked, Awaited(c, asked) PROVE Awaited(c, asked)' \/ Met(c, asked)'
      <4>1. CASE k = 0
        <5>1. Awaited(c, asked)'
          BY <1>3, <3>1, <4>1 DEF Awaited
        <5> QED BY <5>1
      <4>2. CASE k > 0
        <5>1. Joined(Server, c)
          BY <1>3, <2>2, <3>1, <4>2 DEF Awaited
        <5>2. peer'[down(c)] = "Connected" /\ AllGame(wire'[up(c)]) /\ IsPlain(table'[Server], c)
          BY <1>1, <5>1 DEF Joined, IsPlain, NewProcessor
        <5>3. Met(c, asked)'
          BY <1>3, <3>1, <5>2 DEF Awaited, Met
        <5> QED BY <5>3
      <4>3. k = 0 \/ k > 0
        OBVIOUS
      <4> QED BY <4>1, <4>2, <4>3
    <3>2. ASSUME NEW asked, Met(c, asked) PROVE Met(c, asked)'
      <4>1. AllGame(wire[up(c)]) /\ c \in DOMAIN table[Server]
        BY <3>2 DEF Met, IsPlain
      <4>2. Fresh(c) => Fresh(c)'
        BY <1>4 DEF Fresh
      <4> QED BY <1>3, <2>4, <3>2, <4>1, <4>2 DEF Met
    <3> QED BY <1>4, <1>5, <2>5, <3>1, <3>2 DEF Greets
  <2>6. ASSUME Switches(c) PROVE Switches(c)'
    <3>1. AllGame(wire[up(c)]) /\ c \in DOMAIN table[Server] /\ Upward(c) = <<>>
      BY <2>6 DEF Switches, IsSwitched
    <3>2. wire[up(c)] = <<>>
      BY <1>1, <1>2, <2>2, <3>1, NothingComing DEF Upward
    <3>3. k = 0
      BY <1>8, <3>2
    <3>4. table[Server][c] \in Processor
      BY <1>1, <3>1, TableAt
    <3>5. table'[Server][c] = table[Server][c]
      BY <2>4, <3>1, <3>3, <3>4, AdvancedIs
    <3> QED BY <1>3, <1>4, <1>5, <2>4, <2>6, <3>1, <3>5 DEF Switches
  <2>7. ASSUME InStep(c) PROVE InStep(c)'
    <3>1. AllGame(wire[up(c)]) /\ Server \in DOMAIN table[c] /\ c \in DOMAIN table[Server]
      BY <2>7 DEF InStep, IsSwitched
    <3>2. PICK p \in Processor, q \in Processor : p = table[Server][c] /\ q = table[c][Server]
      BY <1>1, <3>1, TableAt
    <3>3. PICK n \in Nat : n = Len(wire[up(c)])
      BY <1>1 DEF TypeInv
    <3>4. PICK m \in Nat : m = Len(wire[down(c)])
      BY <1>1 DEF TypeInv
    <3>5. Leads(q, Advanced(p, k), n - k)
      BY <2>7, <3>2, <3>3, AdvancedLeads DEF InStep
    <3>6. Leads(Advanced(p, k), q, m)
      BY <2>7, <3>2, <3>3, <3>4, AdvancedLeads DEF InStep
    <3>7. /\ Leads(table'[Server][c], table'[c][Server], Len(wire'[down(c)]))
          /\ Leads(table'[c][Server], table'[Server][c], Len(wire'[up(c)]))
      BY <1>4, <2>4, <3>1, <3>2, <3>3, <3>4, <3>5, <3>6
    <3>8. \A f : /\ Asking(c, f) => Asking(c, f)'
                 /\ Answering(c, f) => Answering(c, f)'
                 /\ Playing(c, f) => Playing(c, f)'
      BY <1>3, <1>4, <1>5 DEF Asking, Answering, Playing
    <3> QED BY <1>4, <1>5, <2>4, <2>7, <3>1, <3>7, <3>8 DEF InStep
  <2> QED BY <2>1, <2>3, <2>5, <2>6, <2>7 DEF Good, Turn
<1> QED BY <1>6, <1>7, <1>9, <1>10 DEF Good

LEMMA TickGood ==
    ASSUME Uncompressing, TypeInv, GoodInv, NEW h \in Handler, TickSome(h)
    PROVE  GoodInv'
<1>1. mishap = "fine" /\ \A c \in Client : Good(c)
  BY DEF GoodInv
<1>2. h \in running
  BY TickTakes
<1>3. CASE h = Server
  <2>1. ASSUME NEW r \in Remotes(h) PROVE Reads(table[h], r, wire[<<r, h>>])
    <3>1. r \in Client
      BY <1>3, <2>1 DEF Remotes
    <3> QED BY <1>1, <1>2, <1>3, <3>1 DEF Good, HeardByServer, up
  <2>2. /\ mishap' = "fine" /\ events[h] = <<>> /\ Elsewhere(h)
        /\ \A r \in Remotes(h) : \E k \in 0 .. Len(wire[<<r, h>>]) : Drew(h, r, k)
    BY <1>1, <2>1, TickDraws
  <2>3. ASSUME NEW c \in Client PROVE Good(c)'
    <3>1. c \in Remotes(Server)
      BY ClientLink
    <3>2. PICK k \in 0 .. Len(wire[up(c)]) : Drew(Server, c, k)
      BY <1>3, <2>2, <3>1 DEF up
    <3> QED BY <1>1, <1>2, <1>3, <2>2, <3>2, ServerTickOwn
  <2> QED BY <2>2, <2>3 DEF GoodInv
<1>4. CASE h # Server
  <2>0. h \in Client /\ Remotes(h) = {Server}
    BY <1>4 DEF Handler, Remotes
  <2>1. ASSUME NEW r \in Remotes(h) PROVE Reads(table[h], r, wire[<<r, h>>])
    <3>1. r = Server
      BY <2>0
    <3> QED BY <1>1, <1>2, <2>0, <3>1 DEF Good, HearsServer, down
  <2>2. /\ mishap' = "fine" /\ events[h] = <<>> /\ Elsewhere(h)
        /\ \A r \in Remotes(h) : \E k \in 0 .. Len(wire[<<r, h>>]) : Drew(h, r, k)
    BY <1>1, <2>1, TickDraws
  <2>3. Good(h)'
    <3>1. PICK k \in 0 .. Len(wire[down(h)]) : Drew(h, Server, k)
      BY <2>0, <2>2 DEF down
    <3> QED BY <1>1, <1>2, <2>0, <2>2, <3>1, ClientTickOwn
  <2>4. ASSUME NEW c \in Client, c # h PROVE Good(c)'
    <3>1. /\ Server \in Handler /\ c \in Handler /\ c # Server
          /\ up(c) \in Link /\ down(c) \in Link
          /\ up(c)[1] = c /\ up(c)[2] = Server /\ down(c)[1] = Server /\ down(c)[2] = c
      BY ClientLink
    <3>2. Untouched(c)
      BY <1>4, <2>2, <2>4, <3>1 DEF Untouched, Elsewhere
    <3> QED BY <1>1, <3>2, UntouchedGood
  <2> QED BY <2>2, <2>3, <2>4 DEF GoodInv
<1> QED BY <1>3, <1>4

-----------------------------------------------------------------------------
(* The switch of a processor.                                              *)
SwitchedTo(x, y) ==
    /\ y \in Processor /\ y.initialized /\ y.algorithm = Algorithm
    /\ y.enabled <=> Ciphers
    /\ Started(y)

LEMMA SwitchIs ==
    ASSUME NEW x \in Processor, ~ x.initialized, ~ x.enabled
    PROVE  SwitchedTo(x, ServerSwitch(x)) /\ SwitchedTo(x, ClientSwitch(x))
<1>1. ASSUME NEW y \in Processor, y.initialized, y.algorithm = Algorithm, ~ y.enabled
      PROVE  /\ Cipher(y).initialized /\ Cipher(y).algorithm = Algorithm
             /\ Cipher(y).enabled <=> Ciphers
             /\ Started(Cipher(y))
  <2>1. CASE Ciphers
    <3>1. PICK z : z = enable(y)
      OBVIOUS
    <3>2. z.initialized = y.initialized /\ z.algorithm = y.algorithm
      BY <3>1 DEF enable, Processor
    <3>3. z.enabled /\ z.send_counter = 0 /\ z.recv_counter = 0
      BY <3>1 DEF enable, Processor
    <3>4. Cipher(y) = z
      BY <2>1, <3>1 DEF Cipher
    <3> QED BY <1>1, <2>1, <3>2, <3>3, <3>4 DEF Started
  <2>2. CASE ~ Ciphers
    <3>1. Cipher(y) = y
      BY <2>2 DEF Cipher
    <3> QED BY <1>1, <2>2, <3>1 DEF Started
  <2> QED BY <2>1, <2>2
<1>2. PICK a \in Processor : a = setCompressionInitialized(x)
  BY DEF setCompressionInitialized, Processor
<1>3. a.initialized /\ a.algorithm = x.algorithm /\ a.enabled = x.enabled
  BY <1>2 DEF setCompressionInitialized, Processor
<1>4. PICK b \in Processor : b = setCompression(x, Algorithm)
  BY DEF setCompression, Processor
<1>5. b.initialized /\ b.algorithm = Algorithm /\ b.enabled = x.enabled
  BY <1>4 DEF setCompression, Processor
<1>6. /\ ServerSwitch(x) = IF Algorithm = "None" THEN Cipher(a) ELSE Cipher(b)
      /\ ClientSwitch(x) = Cipher(b)
  BY <1>2, <1>4 DEF ServerSwitch, ClientSwitch
<1>7. ServerSwitch(x) \in Processor /\ ClientSwitch(x) \in Processor
  BY ProcessorTypes
<1>8. Algorithm = "None" => SwitchedTo(x, Cipher(a))
  <2>1. ASSUME Algorithm = "None" PROVE SwitchedTo(x, Cipher(a))
    <3>1. a.initialized /\ a.algorithm = Algorithm /\ ~ a.enabled
      BY <1>3, <2>1 DEF Processor
    <3>2. Cipher(a) \in Processor
      BY <1>6, <1>7, <2>1
    <3> QED BY <1>1, <3>1, <3>2 DEF SwitchedTo
  <2> QED BY <2>1
<1>9. SwitchedTo(x, Cipher(b))
  <2>1. ~ b.enabled
    BY <1>5
  <2>2. Cipher(b) \in Processor
    BY <1>6, <1>7
  <2> QED BY <1>1, <1>5, <2>1, <2>2 DEF SwitchedTo
<1> QED BY <1>6, <1>8, <1>9

(* The table that Configure leaves.                                        *)
Swapped(h, r, s, t, p) ==
    /\ t \in Calls /\ t.wire = s.wire /\ t.sent = s.sent
    /\ \A g \in Handler : g # h => t.table[g] = s.table[g]
    /\ DOMAIN t.table[h] = DOMAIN s.table[h]
    /\ \A q \in DOMAIN s.table[h] : t.table[h][q] = IF q = r THEN p ELSE s.table[h][q]

LEMMA ConfigureIs ==
    ASSUME NEW h \in Handler, NEW r \in Remotes(h), NEW s \in Calls
    PROVE  /\ Swapped(h, r, s, Configure(h, r, s, ServerSwitch), ServerSwitch(s.table[h][r]))
           /\ Swapped(h, r, s, Configure(h, r, s, ClientSwitch), ClientSwitch(s.table[h][r]))
<1>1. s.table \in Tables /\ DOMAIN s.table = Handler
  BY DEF Calls, Tables
<1>2. CASE r \notin DOMAIN s.table[h]
  <2>1. Configure(h, r, s, ServerSwitch) = s /\ Configure(h, r, s, ClientSwitch) = s
    BY <1>2 DEF Configure
  <2> QED BY <1>2, <2>1 DEF Swapped
<1>3. CASE r \in DOMAIN s.table[h]
  <2>1. ASSUME NEW v, NEW t \in Calls,
               t = [table |-> [s.table EXCEPT ![h] = Set(s.table[h], r, v)],
                    wire |-> s.wire, sent |-> s.sent]
        PROVE  Swapped(h, r, s, t, v)
    <3>1. PICK u : u = Set(s.table[h], r, v)
      OBVIOUS
    <3>2. DOMAIN u = DOMAIN s.table[h]
      <4>1. PICK f : f = s.table[h]
        OBVIOUS
      <4>2. DOMAIN u = DOMAIN f \union {r}
        BY <3>1, <4>1, SetDomain
      <4>3. DOMAIN f \union {r} = DOMAIN f
        BY <1>3, <4>1
      <4> QED BY <4>1, <4>2, <4>3
    <3>3. \A q \in DOMAIN s.table[h] : u[q] = IF q = r THEN v ELSE s.table[h][q]
      <4>1. PICK f : f = s.table[h]
        OBVIOUS
      <4>2. u = [q \in DOMAIN f \union {r} |-> IF q = r THEN v ELSE f[q]]
        BY <3>1, <4>1 DEF Set
      <4>3. \A q \in DOMAIN f : u[q] = IF q = r THEN v ELSE f[q]
        BY <4>2
      <4> QED BY <4>1, <4>3
    <3>4. t.table = [s.table EXCEPT ![h] = u] /\ t.wire = s.wire /\ t.sent = s.sent
      BY <2>1, <3>1
    <3>5. t.table[h] = u /\ \A g \in Handler : g # h => t.table[g] = s.table[g]
      BY <1>1, <3>4
    <3> QED BY <3>2, <3>3, <3>4, <3>5 DEF Swapped
  <2>2. PICK x : x = ServerSwitch(s.table[h][r])
    OBVIOUS
  <2>3. PICK y : y = ClientSwitch(s.table[h][r])
    OBVIOUS
  <2>4. Configure(h, r, s, ServerSwitch) =
            [table |-> [s.table EXCEPT ![h] = Set(s.table[h], r, x)], wire |-> s.wire, sent |-> s.sent]
    BY <1>3, <2>2 DEF Configure
  <2>5. Configure(h, r, s, ClientSwitch) =
            [table |-> [s.table EXCEPT ![h] = Set(s.table[h], r, y)], wire |-> s.wire, sent |-> s.sent]
    BY <1>3, <2>3 DEF Configure
  <2>6. Configure(h, r, s, ServerSwitch) \in Calls /\ Configure(h, r, s, ClientSwitch) \in Calls
    BY ConfigureType
  <2>7. PICK t \in Calls : t = Configure(h, r, s, ServerSwitch)
    BY <2>6
  <2>8. PICK u \in Calls : u = Configure(h, r, s, ClientSwitch)
    BY <2>6
  <2>9. Swapped(h, r, s, t, x)
    BY <2>1, <2>4, <2>7
  <2>10. Swapped(h, r, s, u, y)
    BY <2>1, <2>5, <2>8
  <2> QED BY <2>2, <2>3, <2>7, <2>8, <2>9, <2>10
<1> QED BY <1>2, <1>3

-----------------------------------------------------------------------------
(* What a user's answers change, and what not.                             *)
Flowing(T, h, r, p) ==
    LET l == <<h, r>>
    IN  /\ r \in DOMAIN table[h] /\ peer[l] = "Connected" /\ ~ Farewell(wire[l])
        /\ Reads(T, h, wire[l]) /\ Ready(T, h, wire[l], p)

Apart(h, r, t) ==
    /\ t \in Calls
    /\ \A g \in Handler : g # h => t.table[g] = table[g]
    /\ DOMAIN t.table[h] = DOMAIN table[h]
    /\ \A q \in DOMAIN table[h] : q # r => t.table[h][q] = table[h][q]
    /\ \A l \in Link :
          ~ (l = <<h, r>> /\ r \in DOMAIN table[h] /\ peer[l] = "Connected") =>
              t.wire[l] = wire[l] /\ t.sent[l] = sent[l]

LEMMA NowIs == Now.table = table /\ Now.wire = wire /\ Now.sent = sent
BY DEF Now

LEMMA GoesNow ==
    ASSUME NEW h, NEW r
    PROVE  Goes(h, r, Now) <=> r \in DOMAIN table[h] /\ peer[<<h, r>>] = "Connected"
BY NowIs DEF Goes

LEMMA FlowsNow ==
    ASSUME NEW h, NEW r, NEW T
    PROVE  Flows(T, h, r, Now) <=> Flowing(T, h, r, table[h][r])
BY NowIs, GoesNow DEF Flows, Flowing

LEMMA CalmApart ==
    ASSUME NEW h \in Handler, NEW r \in Remotes(h), NEW R, R = {r}, NEW t \in Calls, Calm(h, R, Now, t)
    PROVE  /\ Apart(h, r, t)
           /\ r \in DOMAIN table[h] => Resembles(t.table[h][r], table[h][r])
<1>1. PICK s : s = Now
  OBVIOUS
<1>2. s.table = table /\ s.wire = wire /\ s.sent = sent
  BY <1>1, NowIs
<1>3. Goes(h, r, s) <=> r \in DOMAIN table[h] /\ peer[<<h, r>>] = "Connected"
  BY <1>1, GoesNow
<1>4. ASSUME NEW l \in Link, ~ (l = <<h, r>> /\ r \in DOMAIN table[h] /\ peer[l] = "Connected")
      PROVE  t.wire[l] = wire[l] /\ t.sent[l] = sent[l]
  <2>1. l = <<l[1], l[2]>>
    BY LinkEnds
  <2>2. ~ (l[1] = h /\ l[2] \in R /\ Goes(h, l[2], s))
    BY <1>3, <1>4, <2>1
  <2> QED BY <1>1, <1>2, <2>2 DEF Calm
<1>5. \A q \in DOMAIN table[h] : IF q \in R THEN Resembles(t.table[h][q], table[h][q])
                                 ELSE t.table[h][q] = table[h][q]
  BY <1>1, <1>2 DEF Calm
<1>6. DOMAIN t.table[h] = DOMAIN table[h] /\ \A g \in Handler : g # h => t.table[g] = table[g]
  BY <1>1, <1>2 DEF Calm
<1> QED BY <1>4, <1>5, <1>6 DEF Apart

ServerSays(c, p, packets, t) ==
    /\ Apart(Server, c, t)
    /\ p # "RequestNetworkSettings" /\ c \in DOMAIN table[Server] =>
           Resembles(t.table[Server][c], table[Server][c])
    /\ \A T \in Table(c) : Flowing(T, Server, c, table[Server][c]) =>
          /\ Carried(Server, c, Now, t, packets) /\ Reads(T, Server, t.wire[down(c)])
          /\ p # "RequestNetworkSettings" =>
                Ready(T, Server, t.wire[down(c)], t.table[Server][c])
          /\ p = "RequestNetworkSettings" =>
                \E x \in Processor : Resembles(x, table[Server][c]) /\ t.table[Server][c] = ServerSwitch(x)

LEMMA ServerAnswersParts ==
    ASSUME Uncompressing, TypeInv, NEW c \in Client, NEW p, NEW packets \in Seq(Packet)
    PROVE  ServerSays(c, p, packets, ServerAnswers(c, Now, p, packets))
<1>1. Server \in Handler /\ c \in Remotes(Server) /\ down(c) = <<Server, c>> /\ down(c) \in Link
  BY ClientLink
<1>2. PICK s \in Calls : s = Now
  BY NowCalling
<1>3. PICK u : u = SendEach(Server, c, s, packets)
  OBVIOUS
<1>4. u \in Calls
  BY <1>1, <1>3, SendEachType
<1>5. PICK R : R = {c}
  OBVIOUS
<1>6. Calm(Server, R, Now, u)
  <2>1. \E T : T \in Table(c)
    BY <1>1, InTables, ClientLink DEF TypeInv
  <2>2. PICK T \in Table(c) : TRUE
    BY <2>1
  <2>3. Sent(T, Server, c, s, u, packets)
    BY <1>1, <1>3, SendEachSent
  <2> QED BY <1>2, <1>5, <2>3 DEF Sent
<1>7. /\ Apart(Server, c, u)
      /\ c \in DOMAIN table[Server] => Resembles(u.table[Server][c], table[Server][c])
  BY <1>1, <1>4, <1>5, <1>6, CalmApart
<1>8. ASSUME NEW T \in Table(c), Flowing(T, Server, c, table[Server][c])
      PROVE  Flows(T, Server, c, u) /\ Carried(Server, c, Now, u, packets)
  <2>1. Flows(T, Server, c, s)
    BY <1>2, <1>8, FlowsNow
  <2>2. Sent(T, Server, c, s, u, packets)
    BY <1>1, <1>3, SendEachSent
  <2> QED BY <1>2, <2>1, <2>2 DEF Sent
<1>9. CASE p # "RequestNetworkSettings"
  <2>1. ServerAnswers(c, Now, p, packets) = u
    BY <1>2, <1>3, <1>9 DEF ServerAnswers
  <2>2. \A T \in Table(c) : Flowing(T, Server, c, table[Server][c]) =>
            /\ Carried(Server, c, Now, u, packets) /\ Reads(T, Server, u.wire[down(c)])
            /\ Ready(T, Server, u.wire[down(c)], u.table[Server][c])
    BY <1>1, <1>8 DEF Flows
  <2> QED BY <1>7, <1>9, <2>1, <2>2 DEF ServerSays
<1>10. CASE p = "RequestNetworkSettings"
  <2>1. PICK t : t = Configure(Server, c, u, ServerSwitch)
    OBVIOUS
  <2>2. ServerAnswers(c, Now, p, packets) = t
    BY <1>2, <1>3, <1>10, <2>1 DEF ServerAnswers
  <2>3. Swapped(Server, c, u, t, ServerSwitch(u.table[Server][c]))
    BY <1>1, <1>4, <2>1, ConfigureIs
  <2>4. t.wire = u.wire /\ t.sent = u.sent
    BY <2>3 DEF Swapped
  <2>5. Apart(Server, c, t)
    BY <1>1, <1>7, <2>3, <2>4 DEF Apart, Swapped
  <2>6. ASSUME NEW T \in Table(c), Flowing(T, Server, c, table[Server][c])
        PROVE  /\ Carried(Server, c, Now, t, packets) /\ Reads(T, Server, t.wire[down(c)])
               /\ \E x \in Processor : Resembles(x, table[Server][c]) /\ t.table[Server][c] = ServerSwitch(x)
    <3>1. Carried(Server, c, Now, t, packets)
      BY <1>8, <2>4, <2>6 DEF Carried
    <3>2. Reads(T, Server, t.wire[down(c)])
      BY <1>1, <1>8, <2>4, <2>6 DEF Flows
    <3>3. c \in DOMAIN table[Server]
      BY <2>6 DEF Flowing
    <3>4. c \in DOMAIN u.table[Server]
      BY <1>7, <3>3 DEF Apart
    <3>5. u.table[Server] \in Table(Server)
      BY <1>1, <1>4, InTables DEF Calls
    <3>6. PICK x \in Processor : x = u.table[Server][c]
      BY <3>4, <3>5, TableIs
    <3>7. t.table[Server][c] = ServerSwitch(x)
      BY <2>3, <3>4, <3>6 DEF Swapped
    <3>8. Resembles(x, table[Server][c])
      BY <1>7, <3>3, <3>6
    <3> QED BY <3>1, <3>2, <3>7, <3>8
  <2> QED BY <1>10, <2>2, <2>5, <2>6 DEF ServerSays
<1> QED BY <1>9, <1>10

ClientSays(c, p, packets, t) ==
    LET turned == IF p = "NetworkSettings" THEN ClientSwitch(table[c][Server]) ELSE table[c][Server]
    IN  /\ Apart(c, Server, t)
        /\ Server \in DOMAIN table[c] => Resembles(t.table[c][Server], turned)
        /\ \A T \in Table(Server) : Flowing(T, c, Server, turned) =>
              /\ Carried(c, Server, Now, t, packets) /\ Reads(T, c, t.wire[up(c)])
              /\ Ready(T, c, t.wire[up(c)], t.table[c][Server])

LEMMA ClientAnswersParts ==
    ASSUME Uncompressing, TypeInv, NEW c \in Client, NEW p \in DOMAIN Reply
    PROVE  ClientSays(c, p, Reply[p].packets, ClientAnswers(c, Now, p))
<1>1. c \in Handler /\ Server \in Remotes(c) /\ up(c) = <<c, Server>> /\ up(c) \in Link
  BY ClientLink
<1>2. PICK s \in Calls : s = Now
  BY NowCalling
<1>3. s.table = table /\ s.wire = wire /\ s.sent = sent
  BY <1>2, NowIs
<1>4. PICK x : x = IF p = "NetworkSettings" THEN ClientSwitch(table[c][Server]) ELSE table[c][Server]
  OBVIOUS
<1>5. PICK b : b = IF p = "NetworkSettings" THEN Configure(c, Server, s, ClientSwitch) ELSE s
  OBVIOUS
<1>6. Swapped(c, Server, s, b, x)
  <2>1. CASE p = "NetworkSettings"
    BY <1>1, <1>3, <1>4, <1>5, <2>1, ConfigureIs
  <2>2. CASE p # "NetworkSettings"
    BY <1>3, <1>4, <1>5, <2>2 DEF Swapped
  <2> QED BY <2>1, <2>2
<1>7. b \in Calls /\ b.wire = wire /\ b.sent = sent
  BY <1>3, <1>6 DEF Swapped
<1>8. PICK packets \in Seq(Packet) : packets = Reply[p].packets
  BY ReplyType
<1>9. PICK t : t = SendEach(c, Server, b, packets)
  OBVIOUS
<1>10. ClientAnswers(c, Now, p) = t
  BY <1>2, <1>5, <1>8, <1>9 DEF ClientAnswers
<1>11. PICK R : R = {Server}
  OBVIOUS
<1>12. \A T \in Table(Server) : Sent(T, c, Server, b, t, packets)
  BY <1>1, <1>7, <1>9, SendEachSent
<1>13. t \in Calls /\ Calm(c, R, b, t)
  <2>1. table[Server] \in Table(Server)
    BY ClientLink, InTables DEF TypeInv
  <2> QED BY <1>11, <1>12, <2>1 DEF Sent
<1>14. Goes(c, Server, b) <=> Server \in DOMAIN table[c] /\ peer[<<c, Server>>] = "Connected"
  BY <1>3, <1>6 DEF Goes, Swapped
<1>15. Apart(c, Server, t)
  <2>1. ASSUME NEW l \in Link,
               ~ (l = <<c, Server>> /\ Server \in DOMAIN table[c] /\ peer[l] = "Connected")
        PROVE  t.wire[l] = wire[l] /\ t.sent[l] = sent[l]
    <3>1. l = <<l[1], l[2]>>
      BY LinkEnds
    <3>2. ~ (l[1] = c /\ l[2] \in R /\ Goes(c, l[2], b))
      BY <1>11, <1>14, <2>1, <3>1
    <3> QED BY <1>7, <1>13, <3>2 DEF Calm
  <2>2. DOMAIN t.table[c] = DOMAIN table[c] /\ \A g \in Handler : g # c => t.table[g] = table[g]
    BY <1>3, <1>6, <1>13 DEF Calm, Swapped
  <2>3. \A q \in DOMAIN table[c] : q # Server => t.table[c][q] = table[c][q]
    BY <1>3, <1>6, <1>11, <1>13 DEF Calm, Swapped
  <2> QED BY <1>13, <2>1, <2>2, <2>3 DEF Apart
<1>16. Server \in DOMAIN table[c] => b.table[c][Server] = x /\ Resembles(t.table[c][Server], x)
  BY <1>3, <1>6, <1>11, <1>13 DEF Calm, Swapped
<1>17. ASSUME NEW T \in Table(Server), Flowing(T, c, Server, x)
       PROVE  /\ Carried(c, Server, Now, t, packets) /\ Reads(T, c, t.wire[up(c)])
              /\ Ready(T, c, t.wire[up(c)], t.table[c][Server])
  <2>1. Flows(T, c, Server, b)
    BY <1>7, <1>14, <1>16, <1>17 DEF Flows, Flowing
  <2>2. Flows(T, c, Server, t) /\ Carried(c, Server, b, t, packets)
    BY <1>12, <2>1 DEF Sent
  <2>3. Carried(c, Server, Now, t, packets)
    BY <1>2, <1>3, <1>7, <2>2 DEF Carried
  <2> QED BY <1>1, <2>2, <2>3 DEF Flows
<1> QED BY <1>4, <1>8, <1>10, <1>15, <1>16, <1>17 DEF ClientSays

-----------------------------------------------------------------------------
(* The turns.                                                              *)
LEMMA TurnsAre ==
    /\ DOMAIN Asks = {"login", "stack", "start", "spawn", "spawned"}
    /\ Asks.login = "Login" /\ Asks.stack = "ResponseNone" /\ Asks.start = "ResponseCompleted"
    /\ Asks.spawn = "RequestChunkRadius" /\ Asks.spawned = "SetLocalPlayerAsInit"
    /\ Number.login = 1 /\ Number.stack = 2 /\ Number.start = 3 /\ Number.spawn = 4 /\ Number.spawned = 5
    /\ Before.login = "WaitingForLogin" /\ Before.stack = "WaitingForResourcePackResponse"
    /\ Before.start = "WaitingForResourcePackResponse"
    /\ Before.spawn = "WaitingForChunkRadiusRequest" /\ Before.spawned = "Spawned"
    /\ Behind.login = "WaitingForResourcePackResponse" /\ Behind.stack = "WaitingForResourcePackResponse"
    /\ Behind.start = "WaitingForChunkRadiusRequest" /\ Behind.spawn = "Spawned"
    /\ Behind.spawned = "Spawned"
    /\ Story[1] = "NetworkSettings" /\ Story[2] = "ResourcePacksInfo" /\ Story[3] = "ResourcePackStack"
    /\ Story[4] = "StartGame" /\ Story[5] = "PlayerSpawn"
BY DEF Asks, Number, Before, Behind, Story

LEMMA TwoAre ==
    ASSUME NEW E, NEW a \in E, NEW b \in E
    PROVE  <<a>> \o <<b>> = <<a, b>> /\ <<a, b>> \in Seq(E)
<1>1. PICK x \in Seq(E) : x = <<a>>
  BY OneIsIn
<1>2. PICK y \in Seq(E) : y = <<b>>
  BY OneIsIn
<1>3. Len(x) = 1 /\ x[1] = a /\ Len(y) = 1 /\ y[1] = b
  BY <1>1, <1>2
<1>4. PICK z \in Seq(E) : z = <<a, b>>
  <2>1. <<a, b>> \in Seq(E)
    OBVIOUS
  <2> QED BY <2>1
<1>5. Len(z) = 2 /\ z[1] = a /\ z[2] = b
  BY <1>4
<1>6. Joins(x, y, z)
  BY <1>3, <1>5 DEF Joins
<1> QED BY <1>1, <1>2, <1>4, <1>6, ConcatIs

LEMMA ThreeAre ==
    ASSUME NEW E, NEW a \in E, NEW b \in E, NEW c \in E
    PROVE  <<a, b>> \o <<c>> = <<a, b, c>> /\ <<a, b, c>> \in Seq(E)
<1>1. PICK x \in Seq(E) : x = <<a, b>>
  BY TwoAre
<1>2. PICK y \in Seq(E) : y = <<c>>
  BY OneIsIn
<1>3. Len(x) = 2 /\ x[1] = a /\ x[2] = b /\ Len(y) = 1 /\ y[1] = c
  BY <1>1, <1>2
<1>4. PICK z \in Seq(E) : z = <<a, b, c>>
  <2>1. <<a, b, c>> \in Seq(E)
    OBVIOUS
  <2> QED BY <2>1
<1>5. Len(z) = 3 /\ z[1] = a /\ z[2] = b /\ z[3] = c
  BY <1>4
<1>6. Joins(x, y, z)
  BY <1>3, <1>5 DEF Joins
<1> QED BY <1>1, <1>2, <1>4, <1>6, ConcatIs

LEMMA MarksTwo ==
    ASSUME NEW a \in Sign, NEW b \in Sign
    PROVE  Marks(<<a, b>>) = Marks(<<a>>) \o Marks(<<b>>)
<1>1. <<a>> \in Seq(Sign) /\ <<b>> \in Seq(Sign)
  BY OneIsIn
<1>2. <<a>> \o <<b>> = <<a, b>>
  BY TwoAre
<1>3. Marks(<<a>> \o <<b>>) = Marks(<<a>>) \o Marks(<<b>>)
  BY <1>1, MarksAre
<1> QED BY <1>2, <1>3

LEMMA PacketSign ==
    ASSUME NEW p \in Packet
    PROVE  /\ p \in Sign /\ <<p>> \in Seq(Packet) /\ <<p>> \in Seq(Sign)
           /\ Marks(<<p>>) = IF p \in Steps THEN <<p>> ELSE <<>>
<1>1. p \in Sign /\ p # "Connected"
  BY StepsArePackets
<1>2. <<p>> \in Seq(Packet) /\ <<p>> \in Seq(Sign)
  BY PacketsAreSigns
<1> QED BY <1>1, <1>2, MarksAre

\* The server's answer in the turn f.
AnswersIn(f, a) ==
    /\ a.info.state = Behind[f] /\ (a.info.chunks_sent => a.info.state = "Spawned")
    /\ a.packets \in Seq(Packet) /\ ChunkFirst(a.packets)
    /\ Marks(a.packets) = IF f = "spawned" THEN <<>> ELSE <<Story[Number[f] + 1]>>

LEMMA AnsweredIs ==
    ASSUME NEW info \in ClientInfo, NEW state, NEW packets
    PROVE  /\ Answered(info, state, packets).info.state = state
           /\ Answered(info, state, packets).info.chunks_sent = info.chunks_sent
           /\ Answered(info, state, packets).packets = packets
BY DEF Answered, ClientInfo

LEMMA AnswersIs ==
    ASSUME NEW info \in ClientInfo, NEW f \in DOMAIN Asks, info.state = Before[f],
           info.chunks_sent => info.state = "Spawned"
    PROVE  /\ AnswersIn(f, Answer(info, Asks[f]))
           /\ Asks[f] # "RequestNetworkSettings" /\ Asks[f] \in Packet
<1>1. PICK a : a = Answer(info, Asks[f])
  OBVIOUS
<1>2. /\ "PlayStatus" \in Packet /\ "PlayStatus" \notin Steps
      /\ "ChunkRadiusUpdated" \in Packet /\ "ChunkRadiusUpdated" \notin Steps
      /\ "LevelChunk" \in Packet /\ "LevelChunk" \notin Steps
      /\ "ResourcePacksInfo" \in Packet /\ "ResourcePacksInfo" \in Steps
      /\ "ResourcePackStack" \in Packet /\ "ResourcePackStack" \in Steps
      /\ "StartGame" \in Packet /\ "StartGame" \in Steps
      /\ "PlayerSpawn" \in Packet /\ "PlayerSpawn" \in Steps
  BY StepsArePackets DEF Packet
<1>3. /\ Marks(<<"PlayStatus">>) = <<>> /\ Marks(<<"ChunkRadiusUpdated">>) = <<>> /\ Marks(<<"LevelChunk">>) = <<>>
      /\ Marks(<<"ResourcePacksInfo">>) = <<"ResourcePacksInfo">>
      /\ Marks(<<"ResourcePackStack">>) = <<"ResourcePackStack">>
      /\ Marks(<<"StartGame">>) = <<"StartGame">> /\ Marks(<<"PlayerSpawn">>) = <<"PlayerSpawn">>
  BY <1>2, PacketSign
<1>4. \A p \in Packet : p # "PlayerSpawn" => ChunkFirst(<<p>>)
  BY DEF ChunkFirst
<1>5. \A p \in Packet : <<>> \o <<p>> = <<p>>
  BY PacketSign, ConcatEmptySeq
<1>6. CASE f = "login"
  <2>1. a = Answered(info, "WaitingForResourcePackResponse", <<"PlayStatus", "ResourcePacksInfo">>)
    BY <1>1, <1>6, TurnsAre DEF Answer, OnLogin
  <2>2. PICK q : q = <<"PlayStatus", "ResourcePacksInfo">>
    OBVIOUS
  <2>3. q \in Seq(Packet) /\ ChunkFirst(q)
    BY <1>2, <2>2 DEF ChunkFirst
  <2>4. Marks(q) = <<"ResourcePacksInfo">>
    <3>1. "PlayStatus" \in Sign /\ "ResourcePacksInfo" \in Sign
      BY <1>2, StepsArePackets
    <3>2. Marks(q) = Marks(<<"PlayStatus">>) \o Marks(<<"ResourcePacksInfo">>)
      BY <2>2, <3>1, MarksTwo
    <3> QED BY <1>2, <1>3, <1>5, <3>2
  <2>5. a.info.state = "WaitingForResourcePackResponse" /\ a.info.chunks_sent = info.chunks_sent /\ a.packets = q
    BY <2>1, <2>2, AnsweredIs
  <2> QED BY <1>1, <1>6, <2>3, <2>4, <2>5, TurnsAre DEF AnswersIn, Packet
<1>7. CASE f = "stack"
  <2>1. a = Answered(info, info.state, <<"ResourcePackStack">>)
    BY <1>1, <1>7, TurnsAre DEF Answer, OnResponse
  <2>2. a.info.state = info.state /\ a.info.chunks_sent = info.chunks_sent /\ a.packets = <<"ResourcePackStack">>
    BY <2>1, AnsweredIs
  <2>3. a.packets \in Seq(Packet) /\ ChunkFirst(a.packets)
    BY <1>2, <1>4, <2>2, PacketSign
  <2> QED BY <1>1, <1>3, <1>7, <2>2, <2>3, TurnsAre DEF AnswersIn, Packet
<1>8. CASE f = "start"
  <2>1. a = Answered(info, "WaitingForChunkRadiusRequest", <<"StartGame">>)
    BY <1>1, <1>8, TurnsAre DEF Answer, OnCompleted
  <2>2. /\ a.info.state = "WaitingForChunkRadiusRequest" /\ a.info.chunks_sent = info.chunks_sent
        /\ a.packets = <<"StartGame">>
    BY <2>1, AnsweredIs
  <2>3. a.packets \in Seq(Packet) /\ ChunkFirst(a.packets)
    BY <1>2, <1>4, <2>2, PacketSign
  <2> QED BY <1>1, <1>3, <1>8, <2>2, <2>3, TurnsAre DEF AnswersIn, Packet
<1>9. CASE f = "spawn"
  <2>1. ~ info.chunks_sent
    BY <1>9, TurnsAre
  <2>2. PICK j : j = [info EXCEPT !.chunks_sent = TRUE]
    OBVIOUS
  <2>3. j \in ClientInfo
    BY <2>2 DEF ClientInfo
  <2>4. PICK q : q = <<"ChunkRadiusUpdated">> \o <<"LevelChunk">> \o <<"PlayerSpawn">>
    OBVIOUS
  <2>5. Answer(info, "RequestChunkRadius") = OnRequestChunkRadius(info)
    BY DEF Answer
  <2>6. OnRequestChunkRadius(info) = Answered(j, "Spawned", q)
    BY <2>1, <2>2, <2>4 DEF OnRequestChunkRadius
  <2>7. a = Answered(j, "Spawned", q)
    BY <1>1, <1>9, <2>5, <2>6, TurnsAre
  <2>8. a.info.state = "Spawned" /\ a.packets = q
    BY <2>3, <2>7, AnsweredIs
  <2>9. /\ q = <<"ChunkRadiusUpdated", "LevelChunk">> \o <<"PlayerSpawn">>
        /\ q = <<"ChunkRadiusUpdated", "LevelChunk", "PlayerSpawn">>
        /\ q \in Seq(Packet)
    <3>1. <<"ChunkRadiusUpdated">> \o <<"LevelChunk">> = <<"ChunkRadiusUpdated", "LevelChunk">>
      BY <1>2, TwoAre
    <3>2. /\ <<"ChunkRadiusUpdated", "LevelChunk">> \o <<"PlayerSpawn">>
                = <<"ChunkRadiusUpdated", "LevelChunk", "PlayerSpawn">>
          /\ <<"ChunkRadiusUpdated", "LevelChunk", "PlayerSpawn">> \in Seq(Packet)
      BY <1>2, ThreeAre
    <3> QED BY <2>4, <3>1, <3>2
  <2>10. ChunkFirst(q)
    BY <2>9 DEF ChunkFirst
  <2>11. Marks(q) = <<"PlayerSpawn">>
    <3>1. PICK x \in Seq(Sign) : x = <<"ChunkRadiusUpdated", "LevelChunk">>
      <4>1. "ChunkRadiusUpdated" \in Sign /\ "LevelChunk" \in Sign
        BY <1>2, StepsArePackets
      <4> QED BY <4>1, TwoAre
    <3>2. PICK y \in Seq(Sign) : y = <<"PlayerSpawn">>
      BY <1>2, PacketSign
    <3>3. q = x \o y
      BY <2>9, <3>1, <3>2
    <3>4. Marks(x) = Marks(<<"ChunkRadiusUpdated">>) \o Marks(<<"LevelChunk">>)
      <4>1. "ChunkRadiusUpdated" \in Sign /\ "LevelChunk" \in Sign
        BY <1>2, StepsArePackets
      <4> QED BY <3>1, <4>1, MarksTwo
    <3>5. Marks(x) = <<>>
      BY <1>3, <3>4
    <3>6. Marks(q) = Marks(x) \o Marks(y)
      BY <3>3, MarksAre
    <3> QED BY <1>2, <1>3, <1>5, <3>2, <3>5, <3>6
  <2>12. /\ Behind[f] = "Spawned" /\ Number[f] + 1 = 5 /\ f # "spawned" /\ Story[5] = "PlayerSpawn"
         /\ Asks[f] = "RequestChunkRadius"
    BY <1>9, TurnsAre
  <2>13. AnswersIn(f, a)
    BY <2>8, <2>9, <2>10, <2>11, <2>12 DEF AnswersIn
  <2> QED BY <1>1, <2>12, <2>13 DEF Packet
<1>10. CASE f = "spawned"
  <2>1. a = Answered(info, info.state, <<>>)
    BY <1>1, <1>10, TurnsAre DEF Answer
  <2>2. a.info.state = info.state /\ a.info.chunks_sent = info.chunks_sent /\ a.packets = <<>>
    BY <2>1, AnsweredIs
  <2>3. a.packets \in Seq(Packet) /\ ChunkFirst(a.packets)
    BY <2>2 DEF ChunkFirst
  <2> QED BY <1>1, <1>10, <2>2, <2>3, TurnsAre, MarksAre DEF AnswersIn, Packet
<1> QED BY <1>6, <1>7, <1>8, <1>9, <1>10, TurnsAre

-----------------------------------------------------------------------------
(* Whose turn it is, when the server has a packet p of c to look at.       *)
Requests(c) ==
    /\ phase[c] = "settings" /\ Fresh(c)
    /\ peer[up(c)] = "Connected" /\ peer[down(c)] = "Connected"
    /\ IsPlain(table[c], Server) /\ IsPlain(table[Server], c)
    /\ AllGame(wire[up(c)]) /\ AllGame(wire[down(c)])
    /\ Marks(sent[down(c)]) = <<>> /\ Marks(Downward(c)) = <<>>

LEMMA ServerTurn ==
    ASSUME NEW c \in Client, Good(c), Server \in running, phase[c] # "off",
           NEW p \in Packet, NEW z \in Seq(Sign), NEW v \in Seq(Sign),
           Heard(Server, c, events[Server]) = <<p>> \o z, Upward(c) = <<p>> \o v
    PROVE  /\ v = <<>>
           /\ \/ Requests(c) /\ p = "RequestNetworkSettings"
              \/ InStep(c) /\ Asking(c, phase[c]) /\ p = Asks[phase[c]]
<1>1. p \in Sign /\ p # "Connected" /\ "Connected" \in Sign
  BY StepsArePackets
<1>2. <<p>> \o z # <<>> /\ <<p>> \o v # <<>>
  BY <1>1, HeadIs DEF Begins
<1>3. ASSUME NEW y \in Sign, <<p>> \o v = <<y>> PROVE p = y /\ v = <<>>
  <2>1. PICK n : n = <<>> /\ n \in Seq(Sign)
    <3>1. <<>> \in Seq(Sign)
      OBVIOUS
    <3> QED BY <3>1
  <2>2. <<y>> \o n = <<y>>
    BY <2>1, OneIsIn, ConcatEmptySeq
  <2> QED BY <1>1, <1>3, <2>1, <2>2, HeadSame
<1>4. ASSUME NEW asked \in Seq(Sign) PROVE Upward(c) # <<"Connected">> \o asked
  BY <1>1, <1>4, HeadSame
<1>5. ~ Knocks(c) /\ ~ Switches(c) /\ \A asked : ~ Awaited(c, asked)
  BY <1>2 DEF Knocks, Switches, Awaited
<1>6. \A f : ~ Answering(c, f) /\ ~ Playing(c, f)
  BY <1>2 DEF Answering, Playing
<1>7. "RequestNetworkSettings" \in Sign /\ <<"RequestNetworkSettings">> \in Seq(Sign)
  BY PacketSign DEF Packet
<1>8. CASE Greets(c)
  <2>1. ~ Met(c, <<>>)
    <3>1. <<>> \in Seq(Sign)
      OBVIOUS
    <3> QED BY <1>2, <1>4, <3>1 DEF Met
  <2>2. phase[c] = "settings" /\ Marks(Downward(c)) = <<>> /\ Met(c, <<"RequestNetworkSettings">>)
    BY <1>5, <1>8, <2>1 DEF Greets
  <2>3. Upward(c) = <<"RequestNetworkSettings">> /\ Fresh(c)
    BY <1>4, <1>7, <2>2 DEF Met
  <2>4. p = "RequestNetworkSettings" /\ v = <<>>
    BY <1>3, <1>7, <2>3
  <2>5. Requests(c)
    BY <1>8, <2>2, <2>3 DEF Greets, Met, Requests
  <2> QED BY <2>4, <2>5
<1>9. CASE InStep(c)
  <2>1. Asking(c, phase[c]) /\ phase[c] \in DOMAIN Asks
    BY <1>6, <1>9 DEF InStep
  <2>2. Upward(c) = <<Asks[phase[c]]>>
    BY <2>1 DEF Asking
  <2>3. Asks[phase[c]] \in Packet
    BY <2>1, TurnsAre DEF Packet
  <2>4. p = Asks[phase[c]] /\ v = <<>>
    BY <1>3, <2>2, <2>3, PacketSign
  <2> QED BY <1>9, <2>1, <2>4
<1> QED BY <1>5, <1>8, <1>9 DEF Good, Turn

LEMMA PlainLeads ==
    ASSUME NEW p \in Processor, NEW q \in Processor, ~ p.initialized, ~ p.enabled,
           ~ q.initialized, ~ q.enabled, NEW n
    PROVE  Leads(p, q, n)
<1>1. Header(p) = "none" /\ Header(q) = "none"
  BY DEF Header
<1>2. p.enabled = FALSE /\ q.enabled = FALSE
  BY DEF Processor
<1> QED BY <1>1, <1>2 DEF Leads

LEMMA NewIsPlain == ~ NewProcessor.initialized /\ ~ NewProcessor.enabled /\ NewProcessor \in Processor
BY NewProcessorType DEF NewProcessor

(* What the server sends to c goes on to be understood there ...           *)
LEMMA DownFlows ==
    ASSUME TypeInv, NEW c \in Client, Good(c), Server \in running, phase[c] # "off",
           peer[down(c)] = "Connected", AllGame(wire[down(c)]),
           Server \in DOMAIN table[c], c \in DOMAIN table[Server],
           Leads(table[Server][c], table[c][Server], Len(wire[down(c)]))
    PROVE  table[c] \in Table(c) /\ Flowing(table[c], Server, c, table[Server][c])
<1>1. /\ Server \in Handler /\ c \in Handler /\ down(c) \in Link /\ down(c) = <<Server, c>>
  BY ClientLink
<1>2. table[c] \in Table(c)
  BY <1>1, InTables DEF TypeInv
<1>3. Reads(table[c], Server, wire[down(c)])
  BY DEF Good, HearsServer, Ends
<1>4. ~ Opens(wire[down(c)]) /\ ~ Farewell(wire[down(c)])
  BY <1>1, GameIs DEF TypeInv
<1>5. Ready(table[c], Server, wire[down(c)], table[Server][c])
  BY <1>4 DEF Ready
<1> QED BY <1>1, <1>2, <1>3, <1>4, <1>5 DEF Flowing

(* ... and what c sends, at the server.                                    *)
LEMMA UpFlows ==
    ASSUME TypeInv, NEW c \in Client, Good(c), Server \in running, phase[c] # "off",
           peer[up(c)] = "Connected", Server \in DOMAIN table[c], NEW x,
           \/ Opens(wire[up(c)]) /\ Leads(x, NewProcessor, 0)
           \/ /\ AllGame(wire[up(c)]) /\ c \in DOMAIN table[Server]
              /\ Leads(x, table[Server][c], Len(wire[up(c)]))
    PROVE  table[Server] \in Table(Server) /\ Flowing(table[Server], c, Server, x)
<1>1. /\ Server \in Handler /\ c \in Handler /\ up(c) \in Link /\ up(c) = <<c, Server>>
  BY ClientLink
<1>2. table[Server] \in Table(Server)
  BY <1>1, InTables DEF TypeInv
<1>3. Reads(table[Server], c, wire[up(c)]) /\ ~ Farewell(wire[up(c)])
  BY DEF Good, HeardByServer, Ends
<1>4. AllGame(wire[up(c)]) => ~ Opens(wire[up(c)])
  BY <1>1, GameIs DEF TypeInv
<1>5. Ready(table[Server], c, wire[up(c)], x)
  BY <1>4 DEF Ready
<1> QED BY <1>1, <1>2, <1>3, <1>5 DEF Flowing

LEMMA ComingMore ==
    ASSUME TypeInv, NEW h \in Handler, NEW r \in Remotes(h), NEW packets \in Seq(Packet),
           events'[h] = events[h], Spoken(wire'[<<r, h>>]) = Spoken(wire[<<r, h>>]) \o packets
    PROVE  Coming(h, r)' = Coming(h, r) \o packets
<1>1. PICK a \in Seq(Sign), b \in Seq(Sign) : a = Heard(h, r, events[h]) /\ b = Spoken(wire[<<r, h>>])
  BY HeardIs, SpokenIs, RemotesLink DEF TypeInv
<1>2. packets \in Seq(Sign)
  BY PacketsAreSigns
<1>3. (a \o b) \o packets = a \o (b \o packets)
  <2>1. Joining(a, b, packets)
    BY <1>1, <1>2, SignsJoin
  <2> QED BY <2>1 DEF Joining
<1> QED BY <1>1, <1>3 DEF Coming

LEMMA ComingType ==
    ASSUME TypeInv, NEW h \in Handler, NEW r \in Remotes(h)
    PROVE  Coming(h, r) \in Seq(Sign)
BY RemotesLink, ComingLetters

Delivered(c, packets) ==
    /\ HearsServer(c)' /\ Script(c)'
    /\ Marks(Downward(c)') = Marks(Downward(c)) \o Marks(packets)
    /\ Marks(sent'[down(c)]) = Marks(sent[down(c)]) \o Marks(packets)
    /\ AllGame(wire[down(c)]) => AllGame(wire'[down(c)])
    /\ Farewell(wire'[down(c)]) => Farewell(wire[down(c)])

\* The processor of c is what it was, only the server sends.
StaysPut(c) ==
    /\ c \in running' <=> c \in running
    /\ table'[c] = table[c] /\ events'[c] = events[c]
    /\ seen'[down(c)] = seen[down(c)] /\ phase'[c] = phase[c]

LEMMA DownSent ==
    ASSUME TypeInv, NEW c \in Client, Good(c), phase[c] # "off", NEW packets \in Seq(Packet),
           NEW t \in Calls, Carried(Server, c, Now, t, packets), Become(t),
           Reads(table[c], Server, t.wire[down(c)]), StaysPut(c),
           ChunkFirst(packets), InStory(sent[down(c)] \o packets),
           LastIn(packets, "NetworkSettings"), Lacks(Marks(Downward(c)), "NetworkSettings")
    PROVE  Delivered(c, packets)
<1>1. /\ Server \in Handler /\ c \in Handler /\ Server \in Remotes(c) /\ down(c) \in Link /\ down(c) = <<Server, c>>
  BY ClientLink
<1>2. wire' = t.wire /\ sent' = t.sent
  BY DEF Become
<1>3. PICK w \in Seq(Message), v \in Seq(Message) : w = wire[down(c)] /\ v = wire'[down(c)]
  BY <1>1, <1>2 DEF TypeInv, Calls
<1>4. PICK m \in Seq(Packet) : m = sent[down(c)]
  BY <1>1 DEF TypeInv
<1>5. Grown(w, v) /\ Spoken(v) = Spoken(w) \o packets /\ sent'[down(c)] = m \o packets
  BY <1>1, <1>2, <1>3, <1>4, NowIs DEF Carried
<1>6. PICK d \in Seq(Sign) : d = Downward(c)
  BY <1>1, ComingType DEF Downward
<1>7. Downward(c)' = d \o packets
  BY <1>1, <1>3, <1>5, <1>6, ComingMore DEF Downward, StaysPut
<1>8. packets \in Seq(Sign) /\ m \in Seq(Sign)
  BY PacketsAreSigns
<1>9. "NetworkSettings" \in Steps
  BY StepsArePackets
<1>10. Lacks(d, "NetworkSettings")
  BY <1>6, <1>9, MarksLack
<1>11. LastIn(d \o packets, "NetworkSettings")
  BY <1>8, <1>10, LastInConcat
<1>12. HearsServer(c)'
  <2>1. Reads(table'[c], Server, wire'[down(c)])
    BY <1>2 DEF StaysPut
  <2> QED BY <1>7, <1>11, <2>1 DEF HearsServer
<1>13. Script(c)'
  <2>1. PICK s \in Seq(Packet) : s = seen[down(c)]
    BY <1>1 DEF TypeInv
  <2>2. m = s \o Letters(d) /\ InStory(s) /\ ChunkFirst(s) /\ ChunkFirst(m)
    BY <1>4, <1>6, <2>1 DEF Good, Script
  <2>3. PICK x \in Seq(Packet) : x = Letters(d)
    BY LettersAre
  <2>4. Letters(d \o packets) = x \o packets
    BY <1>8, <2>3, LettersAre
  <2>5. (s \o x) \o packets = s \o (x \o packets)
    <3>1. Joining(s, x, packets)
      BY <1>4, <2>2, <2>3, PacketsJoin
    <3> QED BY <3>1 DEF Joining
  <2>6. sent'[down(c)] = s \o Letters(Downward(c)')
    BY <1>5, <1>7, <2>2, <2>3, <2>4, <2>5
  <2>7. ChunkFirst(m \o packets) /\ InStory(m \o packets)
    BY <1>4, <2>2, ChunkFirstConcat
  <2> QED BY <1>5, <2>1, <2>2, <2>6, <2>7 DEF Script, StaysPut
<1>14. Marks(Downward(c)') = Marks(Downward(c)) \o Marks(packets)
  BY <1>6, <1>7, <1>8, MarksAre
<1>15. Marks(sent'[down(c)]) = Marks(sent[down(c)]) \o Marks(packets)
  BY <1>4, <1>5, <1>8, MarksAre
<1>16. (AllGame(w) => AllGame(v)) /\ (Farewell(v) => Farewell(w))
  BY <1>5, GrownIs
<1> QED BY <1>3, <1>12, <1>13, <1>14, <1>15, <1>16 DEF Delivered

-----------------------------------------------------------------------------
(* The server's user looks at an event of c, who is told x with it.        *)
ServerHears(c, x) ==
    /\ Server \in running /\ running' = running /\ peer' = peer
    /\ phase'[c] = phase[c] /\ events'[c] = events[c]
    /\ table'[c] = table[c] /\ wire'[up(c)] = wire[up(c)]
    /\ seen'[down(c)] = seen[down(c)] /\ sent'[up(c)] = sent[up(c)]
    /\ events'[Server] \in Seq(Event(Server))
    /\ Heard(Server, c, events[Server]) = x \o Heard(Server, c, events'[Server])
    /\ Leaves(events'[Server], c) => Leaves(events[Server], c)

LEMMA ServerHearsRest ==
    ASSUME TypeInv, NEW c \in Client, NEW x \in Seq(Sign), ServerHears(c, x)
    PROVE  Upward(c)' \in Seq(Sign) /\ Upward(c) = x \o Upward(c)' /\ Heard(Server, c, events'[Server]) \in Seq(Sign)
<1>1. /\ Server \in Handler /\ c \in Handler /\ c \in Remotes(Server) /\ up(c) \in Link /\ up(c) = <<c, Server>>
  BY ClientLink
<1>2. PICK a \in Seq(Sign) : a = Heard(Server, c, events'[Server])
  BY HeardIs DEF ServerHears
<1>3. PICK b \in Seq(Sign) : b = Spoken(wire[up(c)])
  BY <1>1, SpokenIs DEF TypeInv
<1>4. (x \o a) \o b = x \o (a \o b)
  <2>1. Joining(x, a, b)
    BY SignsJoin
  <2> QED BY <2>1 DEF Joining
<1>5. Upward(c) = (x \o a) \o b
  BY <1>1, <1>2, <1>3 DEF Upward, Coming, ServerHears
<1>6. Upward(c)' = a \o b
  BY <1>1, <1>2, <1>3 DEF Upward, Coming, ServerHears
<1>7. a \o b \in Seq(Sign)
  BY ConcatProperties
<1> QED BY <1>2, <1>4, <1>5, <1>6, <1>7

LEMMA LastInRest ==
    ASSUME TypeInv, NEW c \in Client, NEW y \in Sign, ServerHears(c, <<y>>), Good(c)
    PROVE  /\ LastIn(Upward(c)', "RequestNetworkSettings")
           /\ y = "RequestNetworkSettings" => Upward(c)' = <<>>
<1>1. PICK x \in Seq(Sign) : x = <<y>>
  BY OneIsIn
<1>2. PICK v \in Seq(Sign) : v = Upward(c)' /\ Upward(c) = <<y>> \o v
  BY <1>1, ServerHearsRest
<1>3. LastIn(Upward(c), "RequestNetworkSettings")
  BY DEF Good, HeardByServer, ServerHears
<1> QED BY <1>2, <1>3, LastInTail

\* What does not concern the server's sending: the ends of a session.
LEMMA ServerHearsEnds ==
    ASSUME NEW c \in Client, NEW x, ServerHears(c, x), Ends(c),
           c \in running => (Farewell(wire'[down(c)]) => Farewell(wire[down(c)])),
           c \in running /\ phase[c] = "off" => wire'[down(c)] = wire[down(c)]
    PROVE  Ends(c)'
BY DEF ServerHears, Ends, IsOff

\* Nothing is sent.
Listens(c) ==
    /\ table' = table /\ wire' = wire /\ sent' = sent

LEMMA ListensGood ==
    ASSUME TypeInv, NEW c \in Client, NEW x \in Seq(Sign), ServerHears(c, x), Good(c), Listens(c),
           LastIn(Upward(c)', "RequestNetworkSettings")
    PROVE  Downward(c)' = Downward(c) /\ HearsServer(c)' /\ HeardByServer(c)' /\ Ends(c)' /\ Script(c)'
<1>1. Downward(c)' = Downward(c)
  BY ClientLink DEF Downward, Coming, Listens, ServerHears
<1>2. HearsServer(c)'
  BY <1>1 DEF Good, HearsServer, Listens, ServerHears
<1>3. HeardByServer(c)'
  BY DEF Good, HeardByServer, Listens, ServerHears
<1>4. Ends(c)'
  BY ServerHearsEnds DEF Good, Listens
<1>5. Script(c)'
  BY <1>1 DEF Good, Script, Listens, ServerHears
<1> QED BY <1>1, <1>2, <1>3, <1>4, <1>5

LEMMA ServerWelcomes ==
    ASSUME TypeInv, NEW c \in Client, Good(c), ServerHears(c, <<"Connected">>), Listens(c), seen' = seen,
           c \in DOMAIN clients', clients'[c] = NewClientInfo
    PROVE  Good(c)'
<1>1. "Connected" \in Sign /\ "Connected" \notin Packet
  BY StepsArePackets
<1>2. PICK x \in Seq(Sign) : x = <<"Connected">>
  BY <1>1, OneIsIn
<1>3. PICK v \in Seq(Sign) : v = Upward(c)' /\ Upward(c) = x \o v
  BY <1>2, ServerHearsRest
<1>4. LastIn(v, "RequestNetworkSettings")
  BY <1>1, <1>3, LastInRest
<1>5. Downward(c)' = Downward(c) /\ HearsServer(c)' /\ HeardByServer(c)' /\ Ends(c)' /\ Script(c)'
  BY <1>2, <1>3, <1>4, ListensGood
<1>6. Turn(c)'
  <2> SUFFICES ASSUME phase[c] # "off" PROVE Turn(c)'
    BY DEF Turn, ServerHears
  <2>1. PICK z \in Seq(Sign) : Heard(Server, c, events[Server]) = x \o z
    BY <1>2, ServerHearsRest DEF ServerHears
  <2>2. x \o z # <<>> /\ x \o v # <<>>
    BY <1>1, <1>2, HeadIs DEF Begins
  <2>3. ASSUME NEW asked \in Seq(Sign), Upward(c) = <<"Connected">> \o asked PROVE v = asked
    BY <1>1, <1>2, <1>3, <2>3, HeadSame
  <2>4. ASSUME NEW p \in Packet PROVE Upward(c) # <<p>>
    <3>1. PICK n : n = <<>> /\ n \in Seq(Sign)
      <4>1. <<>> \in Seq(Sign)
        OBVIOUS
      <4> QED BY <4>1
    <3>2. p \in Sign /\ <<p>> \o n = <<p>>
      BY <2>4, <3>1, PacketSign, ConcatEmptySeq
    <3>3. p # "Connected" /\ n \in Seq(Sign) /\ p \in Sign
      BY <1>1, <3>1, <3>2
    <3>4. <<"Connected">> \o v # <<p>> \o n
      BY <1>1, <3>3, HeadsDiffer
    <3> QED BY <1>2, <1>3, <3>2, <3>4, Zenon
  <2>5. ~ Knocks(c) /\ ~ Switches(c) /\ \A asked : ~ Awaited(c, asked)
    BY <1>3, <2>1, <2>2 DEF Knocks, Switches, Awaited
  <2>6. ~ InStep(c)
    <3>1. \A f : ~ Answering(c, f) /\ ~ Playing(c, f)
      BY <1>3, <2>2 DEF Answering, Playing
    <3>2. \A f \in DOMAIN Asks : Asks[f] \in Packet
      BY TurnsAre DEF Packet
    <3>3. \A f \in DOMAIN Asks : ~ Asking(c, f)
      BY <2>4, <3>2 DEF Asking
    <3> QED BY <3>1, <3>3 DEF InStep
  <2>7. Greets(c)
    BY <2>5, <2>6 DEF Good, Turn, ServerHears
  <2>8. Fresh(c)'
    BY DEF Fresh
  <2>9. ASSUME NEW asked \in Seq(Sign), Upward(c) # asked, Met(c, asked) PROVE Met(c, asked)'
    <3>1. Upward(c) = <<"Connected">> \o asked
      BY <2>9 DEF Met
    <3>2. Upward(c)' = asked
      BY <1>3, <2>3, <3>1
    <3> QED BY <2>8, <2>9, <3>2 DEF Met, Listens, ServerHears
  <2>10. <<>> \in Seq(Sign) /\ Upward(c) # <<>>
    BY <1>3, <2>2
  <2>11. /\ <<"RequestNetworkSettings">> \in Seq(Sign) /\ Upward(c) # <<"RequestNetworkSettings">>
    <3>1. "RequestNetworkSettings" \in Packet
      BY DEF Packet
    <3> QED BY <2>4, <3>1, PacketSign
  <2>12. /\ Met(c, <<>>) => Met(c, <<>>)'
         /\ Met(c, <<"RequestNetworkSettings">>) => Met(c, <<"RequestNetworkSettings">>)'
    BY <2>9, <2>10, <2>11
  <2>13. Greets(c)'
    BY <1>5, <2>5, <2>7, <2>12 DEF Greets, Listens, ServerHears
  <2>14. (sent[up(c)] = seen[up(c)] \o Letters(Upward(c)))'
    <3>1. sent[up(c)] = seen[up(c)] \o Letters(Upward(c))
      BY DEF Good, Turn, ServerHears
    <3>2. PICK y \in Seq(Packet) : y = Letters(v)
      BY LettersAre
    <3>3. Letters(x \o v) = Letters(x) \o y
      BY <3>2, LettersAre
    <3>4. Letters(x) = <<>> /\ <<>> \o y = y
      BY <1>2, LettersAre, ConcatEmptySeq
    <3>5. Letters(Upward(c)) = Letters(Upward(c)')
      BY <1>3, <3>2, <3>3, <3>4
    <3> QED BY <3>1, <3>5 DEF ServerHears
  <2> QED BY <2>13, <2>14 DEF Turn
<1> QED BY <1>5, <1>6 DEF Good

LEMMA ServerBids ==
    ASSUME TypeInv, NEW c \in Client, Good(c), ServerHears(c, <<>>), Listens(c), Leaves(events[Server], c)
    PROVE  Good(c)'
<1>1. <<>> \in Seq(Sign)
  OBVIOUS
<1>2. PICK v \in Seq(Sign) : v = Upward(c)' /\ Upward(c) = <<>> \o v
  BY <1>1, ServerHearsRest
<1>3. LastIn(v, "RequestNetworkSettings")
  <2>1. <<>> \o v = v
    BY ConcatEmptySeq
  <2> QED BY <1>2, <2>1 DEF Good, HeardByServer, ServerHears
<1>4. HearsServer(c)' /\ HeardByServer(c)' /\ Ends(c)' /\ Script(c)'
  BY <1>1, <1>2, <1>3, ListensGood
<1>5. phase'[c] = "off"
  BY DEF Good, Ends, ServerHears
<1> QED BY <1>4, <1>5 DEF Good, Turn

LEMMA ServerIgnores ==
    ASSUME TypeInv, NEW c \in Client, Good(c), NEW p \in Packet, ServerHears(c, <<p>>), Listens(c),
           c \notin DOMAIN clients
    PROVE  Good(c)'
<1>1. PICK x \in Seq(Sign) : x = <<p>>
  BY PacketSign
<1>2. PICK v \in Seq(Sign) : v = Upward(c)' /\ Upward(c) = x \o v
  BY <1>1, ServerHearsRest
<1>3. LastIn(v, "RequestNetworkSettings")
  BY <1>2, LastInRest, PacketSign
<1>4. HearsServer(c)' /\ HeardByServer(c)' /\ Ends(c)' /\ Script(c)'
  BY <1>1, <1>2, <1>3, ListensGood
<1>5. phase[c] = "off"
  <2> SUFFICES ASSUME phase[c] # "off" PROVE FALSE
    OBVIOUS
  <2>1. PICK z \in Seq(Sign) : Heard(Server, c, events[Server]) = x \o z
    BY <1>1, ServerHearsRest DEF ServerHears
  <2>2. Requests(c) \/ InStep(c)
    BY <1>1, <1>2, <2>1, ServerTurn DEF ServerHears
  <2> QED BY <2>2 DEF Requests, Fresh, InStep
<1>6. phase'[c] = "off"
  BY <1>5 DEF ServerHears
<1> QED BY <1>4, <1>6 DEF Good, Turn

LEMMA FirstStep == Prefix(1) = <<"NetworkSettings">>
<1>1. PICK x \in Sign : x = "NetworkSettings"
  BY StepsArePackets
<1>2. PICK s \in Seq(Sign) : s = <<x>>
  <2>1. <<x>> \in Seq(Sign)
    OBVIOUS
  <2> QED BY <2>1
<1>3. SubSeq(Story, 1, 1) = SubSeq(Story, 1, 1 - 1) \o <<Story[1]>>
  BY StoryGrows
<1>4. SubSeq(Story, 1, 1 - 1) = <<>>
  BY StoryIs
<1>5. Story[1] = x
  BY <1>1, TurnsAre
<1>6. <<>> \o s = s
  BY ConcatEmptySeq
<1> QED BY <1>1, <1>2, <1>3, <1>4, <1>5, <1>6 DEF Prefix

LEMMA ServerReplies ==
    ASSUME Uncompressing, TypeInv, NEW c \in Client, Good(c), NEW p \in Packet, ServerHears(c, <<p>>),
           seen'[up(c)] = Append(seen[up(c)], p),
           c \in DOMAIN clients, c \in DOMAIN clients', clients'[c] = Answer(clients[c], p).info,
           NEW t, ServerSays(c, p, Answer(clients[c], p).packets, t), Become(t)
    PROVE  Good(c)'
<1>1. /\ Server \in Handler /\ c \in Handler /\ c # Server /\ Server \in Remotes(c) /\ c \in Remotes(Server)
      /\ up(c) \in Link /\ down(c) \in Link /\ up(c) = <<c, Server>> /\ down(c) = <<Server, c>>
  BY ClientLink
<1>2. PICK x \in Seq(Sign) : x = <<p>> /\ p \in Sign
  BY PacketSign
<1>3. PICK v \in Seq(Sign) : v = Upward(c)' /\ Upward(c) = x \o v
  BY <1>2, ServerHearsRest
<1>4. LastIn(v, "RequestNetworkSettings") /\ (p = "RequestNetworkSettings" => v = <<>>)
  BY <1>2, <1>3, LastInRest
<1>5. table' = t.table /\ wire' = t.wire /\ sent' = t.sent
  BY DEF Become
<1>6. Apart(Server, c, t)
  BY DEF ServerSays
<1>7. StaysPut(c)
  BY DEF ServerHears, StaysPut
<1>8. HeardByServer(c)'
  <2>1. Reads(table[Server], c, wire[up(c)])
    BY DEF Good, HeardByServer, ServerHears
  <2>2. CASE p = "RequestNetworkSettings"
    <3>1. PICK w \in Seq(Message) : w = wire[up(c)]
      BY <1>1 DEF TypeInv
    <3>2. Upward(c)' = Heard(Server, c, events'[Server]) \o Spoken(w)
      BY <1>1, <3>1 DEF Upward, Coming, ServerHears
    <3>3. Spoken(w) = <<>>
      <4>1. Spoken(w) \in Seq(Sign) /\ Heard(Server, c, events'[Server]) \in Seq(Sign)
        BY <1>2, SpokenIs, ServerHearsRest
      <4> QED BY <1>3, <1>4, <2>2, <3>2, <4>1, NothingJoined
    <3>4. \A V : Reads(V, c, w)
      BY <2>1, <3>1, <3>3, Silence
    <3> QED BY <1>3, <1>4, <3>1, <3>4 DEF HeardByServer, ServerHears
  <2>3. CASE p # "RequestNetworkSettings"
    <3>1. c \in DOMAIN table[Server] =>
              c \in DOMAIN table'[Server] /\ Resembles(table'[Server][c], table[Server][c])
      BY <1>5, <1>6, <2>3 DEF ServerSays, Apart
    <3>2. Reads(table'[Server], c, wire[up(c)])
      BY <2>1, <3>1, ReadsAlike
    <3> QED BY <1>3, <1>4, <3>2 DEF HeardByServer, ServerHears
  <2> QED BY <2>2, <2>3
<1>9. CASE phase[c] = "off"
  <2>1. c \in running => peer[down(c)] = "None"
    BY <1>9 DEF Good, Ends, IsOff
  <2>2. c \in running => wire'[down(c)] = wire[down(c)] /\ sent'[down(c)] = sent[down(c)]
    BY <1>1, <1>5, <1>6, <2>1 DEF Apart
  <2>3. Ends(c)'
    BY <2>2, ServerHearsEnds DEF Good
  <2>4. HearsServer(c)'
    <3>1. c \in running => Downward(c)' = Downward(c)
      BY <1>1, <2>2 DEF Downward, Coming, ServerHears
    <3> QED BY <2>2, <3>1 DEF Good, HearsServer, ServerHears
  <2>5. Script(c)' /\ Turn(c)'
    BY <1>9 DEF Good, Script, Turn, ServerHears
  <2> QED BY <1>8, <2>3, <2>4, <2>5 DEF Good
<1>10. CASE phase[c] # "off"
  <2>1. PICK z \in Seq(Sign) : Heard(Server, c, events[Server]) = x \o z
    BY <1>2, ServerHearsRest DEF ServerHears
  <2>2. /\ v = <<>>
        /\ \/ Requests(c) /\ p = "RequestNetworkSettings"
           \/ InStep(c) /\ Asking(c, phase[c]) /\ p = Asks[phase[c]]
    BY <1>2, <1>3, <1>10, <2>1, ServerTurn DEF ServerHears
  <2>3. PICK info \in ClientInfo : info = clients[c]
    BY DEF TypeInv
  <2>4. PICK packets : packets = Answer(clients[c], p).packets
    OBVIOUS
  <2>5. (sent[up(c)] = seen[up(c)] \o Letters(Upward(c)))'
    <3>1. sent[up(c)] = seen[up(c)] \o Letters(Upward(c))
      BY <1>10 DEF Good, Turn, ServerHears
    <3>2. x \o v = x
      BY <1>2, <2>2, ConcatEmptySeq
    <3>3. Letters(x) = x
      BY <1>2, PacketSign, LettersAre
    <3>4. PICK s \in Seq(Packet) : s = seen[up(c)]
      BY <1>1 DEF TypeInv
    <3>5. sent[up(c)] = s \o <<p>>
      BY <1>2, <1>3, <3>1, <3>2, <3>3, <3>4
    <3>6. seen'[up(c)] = s \o <<p>>
      BY <3>4, AppendIsConcat
    <3>7. Letters(Upward(c)') = <<>>
      BY <1>3, <2>2, LettersAre
    <3>8. PICK s2 \in Seq(Packet) : s2 = s \o <<p>>
      BY PacketSign, ConcatProperties
    <3>9. s2 \o <<>> = s2
      BY ConcatEmptySeq
    <3> QED BY <3>5, <3>6, <3>7, <3>8, <3>9 DEF ServerHears
  <2>6. CASE Requests(c) /\ p = "RequestNetworkSettings"
    <3>1. info = NewClientInfo
      BY <2>3, <2>6 DEF Requests, Fresh
    <3>2. /\ Answer(clients[c], p).packets = <<"NetworkSettings">>
          /\ Answer(clients[c], p).info.state = "WaitingForLogin"
          /\ Answer(clients[c], p).info = [state |-> "WaitingForLogin", chunks_sent |-> FALSE]
      <4>1. Answer(info, p) = Answered(info, "WaitingForLogin", <<"NetworkSettings">>)
        BY <2>6 DEF Answer, OnRequestNetworkSettings
      <4>2. PICK i \in ClientInfo : i = Answered(info, "WaitingForLogin", <<"NetworkSettings">>).info
        BY DEF Answered, ClientInfo
      <4>3. i.state = "WaitingForLogin" /\ i.chunks_sent = info.chunks_sent
        BY <4>2, AnsweredIs
      <4>4. Answered(info, "WaitingForLogin", <<"NetworkSettings">>).packets = <<"NetworkSettings">>
        BY AnsweredIs
      <4>5. info.chunks_sent = FALSE
        BY <3>1 DEF NewClientInfo
      <4>6. i = [state |-> "WaitingForLogin", chunks_sent |-> FALSE]
        BY <4>3, <4>5 DEF ClientInfo
      <4>7. Answer(clients[c], p) = Answered(info, "WaitingForLogin", <<"NetworkSettings">>)
        BY <2>3, <4>1
      <4>8. Answer(clients[c], p).info = i
        BY <4>2, <4>7
      <4> QED BY <4>3, <4>4, <4>6, <4>7, <4>8
    <3>3. "NetworkSettings" \in Packet /\ "NetworkSettings" \in Steps
      BY StepsArePackets
    <3>4. packets = <<"NetworkSettings">> /\ packets \in Seq(Packet) /\ Marks(packets) = <<"NetworkSettings">>
      BY <2>4, <3>2, <3>3, PacketSign
    <3>5. ChunkFirst(packets) /\ LastIn(packets, "NetworkSettings")
      BY <3>4 DEF ChunkFirst, LastIn
    <3>6. Lacks(Marks(Downward(c)), "NetworkSettings")
      BY <2>6 DEF Requests, Lacks
    <3>7. Server \in DOMAIN table[c] /\ c \in DOMAIN table[Server]
      BY <2>6 DEF Requests, IsPlain
    <3>8. PICK a \in Processor, b \in Processor : a = table[Server][c] /\ b = table[c][Server]
      BY <1>1, <3>7, TableAt
    <3>9. Leads(a, b, Len(wire[down(c)]))
      BY <2>6, <3>8, PlainLeads DEF Requests, IsPlain
    <3>10. table[c] \in Table(c) /\ Flowing(table[c], Server, c, table[Server][c])
      BY <1>10, <2>6, <3>7, <3>8, <3>9, DownFlows DEF Requests, ServerHears
    <3>11. /\ Carried(Server, c, Now, t, packets) /\ Reads(table[c], Server, t.wire[down(c)])
           /\ \E y \in Processor : Resembles(y, table[Server][c]) /\ t.table[Server][c] = ServerSwitch(y)
      BY <2>4, <2>6, <3>10 DEF ServerSays
    <3>12. Marks(sent[down(c)] \o packets) = <<"NetworkSettings">> /\ InStory(sent[down(c)] \o packets)
      <4>1. PICK m \in Seq(Sign) : m = sent[down(c)]
        BY <1>1, PacketsAreSigns DEF TypeInv
      <4>2. packets \in Seq(Sign)
        BY <3>3, <3>4, PacketSign
      <4>3. Marks(m \o packets) = Marks(m) \o Marks(packets)
        BY <4>2, MarksAre
      <4>4. Marks(m) = <<>> /\ <<>> \o packets = packets
        BY <2>6, <4>1, <4>2, ConcatEmptySeq DEF Requests
      <4>5. Prefix(1) = <<"NetworkSettings">>
        BY FirstStep
      <4>6. Marks(m \o packets) = Prefix(1)
        BY <3>4, <4>3, <4>4, <4>5
      <4>7. \E n \in 0 .. 5 : Marks(m \o packets) = Prefix(n)
        BY <4>6
      <4>8. InStory(m \o packets)
        BY <4>7, InStoryIs
      <4> QED BY <4>1, <4>5, <4>6, <4>8
    <3>13. Delivered(c, packets)
      BY <1>6, <1>7, <1>10, <3>4, <3>5, <3>6, <3>11, <3>12, DownSent DEF Apart
    <3>14. PICK y \in Processor : Resembles(y, table[Server][c]) /\ t.table[Server][c] = ServerSwitch(y)
      BY <3>11
    <3>15. SwitchedTo(y, ServerSwitch(y))
      <4>1. ~ y.initialized /\ ~ y.enabled
        BY <2>6, <3>14 DEF Requests, IsPlain, Resembles
      <4> QED BY <4>1, SwitchIs
    <3>16. IsSwitched(table'[Server], c) /\ Started(table'[Server][c])
      BY <1>5, <1>6, <3>7, <3>14, <3>15 DEF SwitchedTo, IsSwitched, Apart
    <3>17. Switches(c)'
      <4>1. Marks(Downward(c)') = <<"NetworkSettings">> /\ Marks(sent'[down(c)]) = <<"NetworkSettings">>
        <5>1. Marks(Downward(c)) = <<>> /\ Marks(sent[down(c)]) = <<>>
          BY <2>6 DEF Requests
        <5>2. <<>> \o <<"NetworkSettings">> = <<"NetworkSettings">>
          BY <3>3, PacketSign, ConcatEmptySeq
        <5> QED BY <3>4, <3>13, <5>1, <5>2 DEF Delivered
      <4>2. SubSeq(Story, 1, 1) = <<"NetworkSettings">>
        BY FirstStep DEF Prefix
      <4>3. AllGame(wire'[down(c)])
        BY <2>6, <3>13 DEF Requests, Delivered
      <4> QED BY <1>3, <2>2, <2>6, <3>2, <3>16, <4>1, <4>2, <4>3 DEF Requests, Switches, ServerHears, IsPlain
    <3>18. Ends(c)'
      BY <1>10, <3>13, ServerHearsEnds DEF Good, Delivered
    <3> QED BY <1>8, <2>5, <3>13, <3>17, <3>18 DEF Good, Turn, Delivered
  <2>7. CASE InStep(c) /\ Asking(c, phase[c]) /\ p = Asks[phase[c]]
    <3>1. PICK f \in DOMAIN Asks : f = phase[c]
      BY <2>7 DEF InStep
    <3>2. info.state = Before[f] /\ (info.chunks_sent => info.state = "Spawned")
      BY <2>3, <2>7, <3>1 DEF InStep, Asking
    <3>3. PICK a : a = Answer(info, Asks[f])
      OBVIOUS
    <3>4. AnswersIn(f, a) /\ p # "RequestNetworkSettings"
      BY <2>7, <3>1, <3>2, <3>3, AnswersIs
    <3>5. clients'[c] = a.info /\ packets = a.packets
      BY <2>3, <2>4, <2>7, <3>1, <3>3
    <3>6. /\ packets \in Seq(Packet) /\ ChunkFirst(packets)
          /\ Marks(packets) = IF f = "spawned" THEN <<>> ELSE <<Story[Number[f] + 1]>>
      BY <3>4, <3>5 DEF AnswersIn
    <3>7. Number[f] \in 1 .. 5 /\ (f # "spawned" => Number[f] \in 1 .. 4) /\ (f = "spawned" => Number[f] = 5)
      BY TurnsAre
    <3>8. f # "spawned" => Story[Number[f] + 1] \in Sign /\ Story[Number[f] + 1] # "NetworkSettings"
      <4>1. f # "spawned" => Number[f] + 1 \in 1 .. 5 /\ Number[f] + 1 # 1
        BY <3>7
      <4>2. Story[1] = "NetworkSettings" /\ 1 \in 1 .. 5
        BY TurnsAre
      <4> QED BY <4>1, <4>2, StoryIs, StepsArePackets
    <3>9. Lacks(packets, "NetworkSettings")
      <4>1. Lacks(Marks(packets), "NetworkSettings")
        BY <3>6, <3>8 DEF Lacks
      <4> QED BY <3>6, <4>1, MarksLack, StepsArePackets, PacketsAreSigns
    <3>10. LastIn(packets, "NetworkSettings")
      BY <3>9 DEF Lacks, LastIn
    <3>11. Lacks(Marks(Downward(c)), "NetworkSettings") /\ Marks(Downward(c)) = <<>> /\ Marks(sent[down(c)]) = Prefix(Number[f])
      BY <2>7, <3>1 DEF Asking, Lacks, Prefix
    <3>12. Server \in DOMAIN table[c] /\ c \in DOMAIN table[Server]
      BY <2>7 DEF InStep, IsSwitched
    <3>13. table[c] \in Table(c) /\ Flowing(table[c], Server, c, table[Server][c])
      BY <1>10, <2>7, <3>12, DownFlows DEF InStep, ServerHears
    <3>14. /\ Carried(Server, c, Now, t, packets) /\ Reads(table[c], Server, t.wire[down(c)])
           /\ Ready(table[c], Server, t.wire[down(c)], t.table[Server][c])
           /\ Resembles(t.table[Server][c], table[Server][c])
      BY <2>4, <3>4, <3>12, <3>13 DEF ServerSays
    <3>15. PICK n \in 0 .. 5 : Prefix(Number[f]) \o Marks(packets) = Prefix(n)
                               /\ n = IF f = "spawned" THEN 5 ELSE Number[f] + 1
      <4>1. CASE f = "spawned"
        <5>0. Number[f] \in 0 .. 5
          BY <3>7
        <5>1. PICK s \in Seq(Sign) : s = Prefix(Number[f])
          BY <5>0, PrefixIs
        <5>2. s \o <<>> = s
          BY ConcatEmptySeq
        <5> QED BY <3>6, <3>7, <4>1, <5>0, <5>1, <5>2
      <4>2. CASE f # "spawned"
        <5>1. Number[f] + 1 \in 1 .. 5 /\ (Number[f] + 1) - 1 = Number[f]
          BY <3>7, <4>2
        <5>2. Prefix(Number[f] + 1) = Prefix(Number[f]) \o <<Story[Number[f] + 1]>>
          BY <5>1, StoryGrows DEF Prefix
        <5>3. Number[f] + 1 \in 0 .. 5
          BY <5>1
        <5> QED BY <3>6, <4>2, <5>2, <5>3
      <4> QED BY <4>1, <4>2
    <3>16. InStory(sent[down(c)] \o packets)
      <4>1. PICK m \in Seq(Sign) : m = sent[down(c)]
        BY <1>1, PacketsAreSigns DEF TypeInv
      <4>2. packets \in Seq(Sign)
        BY <3>6, PacketsAreSigns
      <4>3. Marks(m \o packets) = Marks(m) \o Marks(packets)
        BY <4>2, MarksAre
      <4>4. Marks(m \o packets) = Prefix(n)
        BY <3>11, <3>15, <4>1, <4>3
      <4> QED BY <4>1, <4>4, InStoryIs
    <3>17. Delivered(c, packets)
      BY <1>6, <1>7, <1>10, <3>6, <3>10, <3>11, <3>14, <3>16, DownSent DEF Apart
    <3>18. Marks(Downward(c)') = Marks(packets) /\ Marks(sent'[down(c)]) = Prefix(n)
      <4>1. <<>> \o Marks(packets) = Marks(packets)
        <5>1. Marks(packets) \in Seq(Sign)
          BY <3>6, PacketsAreSigns, MarksAre
        <5> QED BY <5>1, ConcatEmptySeq
      <4> QED BY <3>11, <3>15, <3>17, <4>1 DEF Delivered
    <3>19. IsSwitched(table'[Server], c) /\ c \in DOMAIN table'[Server]
      BY <1>5, <1>6, <2>7, <3>12, <3>14 DEF InStep, IsSwitched, Resembles, Apart
    <3>20. /\ AllGame(wire'[down(c)]) /\ AllGame(wire'[up(c)])
      BY <2>7, <3>17 DEF InStep, Delivered, ServerHears
    <3>21. Leads(table'[Server][c], table'[c][Server], Len(wire'[down(c)]))
      <4>1. PICK w \in Seq(Message) : w = wire'[down(c)]
        BY <1>1, <1>5, <1>6 DEF Apart, Calls
      <4>2. ~ Opens(w)
        BY <3>20, <4>1, GameIs
      <4> QED BY <1>5, <3>14, <4>1, <4>2 DEF Ready, ServerHears
    <3>22. Leads(table'[c][Server], table'[Server][c], Len(wire'[up(c)]))
      <4>1. Leads(table[c][Server], table[Server][c], Len(wire[up(c)]))
        BY <2>7 DEF InStep
      <4>2. Header(table'[Server][c]) = Header(table[Server][c])
        BY <1>5, <3>14 DEF Header, Resembles
      <4> QED BY <1>5, <3>14, <4>1, <4>2 DEF Leads, Resembles, ServerHears
    <3>23. Answering(c, f)' \/ Playing(c, f)'
      <4>1. Upward(c)' = <<>> /\ clients'[c].state = Behind[f]
        BY <1>3, <2>2, <3>4, <3>5 DEF AnswersIn
      <4>2. CASE f = "spawned"
        <5>1. Marks(Downward(c)') = <<>> /\ Marks(sent'[down(c)]) = SubSeq(Story, 1, 5)
          BY <3>6, <3>15, <3>18, <4>2 DEF Prefix
        <5>2. clients'[c].state = "Spawned"
          BY <4>1, <4>2, TurnsAre
        <5>3. Playing(c, f)'
          BY <4>1, <4>2, <5>1, <5>2 DEF Playing
        <5> QED BY <5>3
      <4>3. CASE f # "spawned"
        <5>1. /\ Marks(Downward(c)') = <<Story[Number[f] + 1]>>
              /\ Marks(sent'[down(c)]) = SubSeq(Story, 1, Number[f] + 1)
          BY <3>6, <3>15, <3>18, <4>3 DEF Prefix
        <5>2. Answering(c, f)'
          BY <4>1, <4>3, <5>1 DEF Answering
        <5> QED BY <5>2
      <4> QED BY <4>2, <4>3
    <3>24. clients'[c].chunks_sent => clients'[c].state = "Spawned"
      BY <3>4, <3>5 DEF AnswersIn
    <3>25. InStep(c)'
      BY <2>7, <3>1, <3>19, <3>20, <3>21, <3>22, <3>23, <3>24 DEF InStep, ServerHears
    <3>26. Ends(c)'
      BY <1>10, <3>17, ServerHearsEnds DEF Good, Delivered
    <3> QED BY <1>8, <2>5, <3>17, <3>25, <3>26 DEF Good, Turn, Delivered
  <2> QED BY <2>2, <2>6, <2>7
<1> QED BY <1>9, <1>10

-----------------------------------------------------------------------------
(* The server's user looks at e: what this means to the client q.          *)
ServerLook(e, q) ==
    /\ Server \in running /\ running' = running /\ peer' = peer /\ mishap' = mishap
    /\ phase'[q] = phase[q] /\ events'[q] = events[q]
    /\ seen'[down(q)] = seen[down(q)]
    /\ seen'[up(q)] = IF e.type = "PacketReceived" /\ e.remote = q
                        THEN Append(seen[up(q)], e.packet) ELSE seen[up(q)]
    /\ events'[Server] \in Seq(Event(Server))
    /\ Heard(Server, q, events[Server]) = Tells(Server, q)[e] \o Heard(Server, q, events'[Server])
    /\ Leaves(events'[Server], q) => Leaves(events[Server], q)
    /\ e.type = "Disconnected" /\ e.remote = q => Leaves(events[Server], q)

LEMMA ServerLookIs ==
    ASSUME TypeInv, events[Server] # <<>>, NEW e, e = Head(events[Server]), Looks(Server, e), phase' = phase,
           NEW q \in Client
    PROVE  ServerLook(e, q)
<1>1. /\ Server \in Handler /\ q \in Handler /\ q # Server
      /\ up(q) \in Link /\ down(q) \in Link /\ up(q) = <<q, Server>> /\ down(q) = <<Server, q>>
  BY ClientLink
<1>2. PICK evs \in Seq(Event(Server)) : evs = events[Server]
  BY <1>1 DEF TypeInv
<1>3. /\ Server \in running /\ running' = running /\ peer' = peer /\ mishap' = mishap
      /\ events'[Server] = Tail(evs) /\ events'[q] = events[q]
      /\ events'[Server] \in Seq(Event(Server))
  BY <1>1, <1>2, LooksType
<1>0. evs # <<>>
  BY <1>2
<1>4. /\ Heard(Server, q, evs) = Tells(Server, q)[Head(evs)] \o Heard(Server, q, Tail(evs))
      /\ Leaves(Tail(evs), q) => Leaves(evs, q)
      /\ Head(evs).type = "Disconnected" /\ Head(evs).remote = q => Leaves(evs, q)
  BY <1>0, HeardHead
<1>5. seen' = IF e.type = "PacketReceived"
                THEN [seen EXCEPT ![<<e.remote, Server>>] = Append(seen[<<e.remote, Server>>], e.packet)]
                ELSE seen
  BY DEF Looks
<1>8. \A l \in Link : seen'[l] = IF e.type = "PacketReceived" /\ l = <<e.remote, Server>>
                                 THEN Append(seen[l], e.packet) ELSE seen[l]
  BY <1>5 DEF TypeInv
<1>6. seen'[down(q)] = seen[down(q)]
  <2>1. <<Server, q>> # <<e.remote, Server>>
    BY <1>1
  <2> QED BY <1>1, <1>8, <2>1
<1>7. seen'[up(q)] = IF e.type = "PacketReceived" /\ e.remote = q
                       THEN Append(seen[up(q)], e.packet) ELSE seen[up(q)]
  <2>1. <<q, Server>> = <<e.remote, Server>> <=> e.remote = q
    OBVIOUS
  <2> QED BY <1>1, <1>8, <2>1
<1> QED BY <1>1, <1>2, <1>3, <1>4, <1>6, <1>7 DEF ServerLook

LEMMA TellsIs ==
    ASSUME NEW h, NEW e \in Event(h), NEW q
    PROVE  /\ e.remote # q \/ e.type = "Disconnected" => Tells(h, q)[e] = <<>>
           /\ e.remote = q /\ e.type = "Connected" => Tells(h, q)[e] = <<"Connected">>
           /\ e.remote = q /\ e.type = "PacketReceived" =>
                 Tells(h, q)[e] = <<e.packet>> /\ e.packet \in Packet
<1>1. Tells(h, q)[e] = IF e.remote # q \/ e.type = "Disconnected" THEN <<>>
                       ELSE IF e.type = "Connected" THEN <<"Connected">> ELSE <<e.packet>>
  BY DEF Tells
<1>2. e.type = "PacketReceived" => e.packet \in Packet
  <2> HIDE DEF Packet
  <2> QED BY DEF Event
<1> QED BY <1>1, <1>2

LEMMA TellsConnected ==
    ASSUME NEW h, NEW r, NEW e \in Event(h), e.remote = r, e.type = "Connected"
    PROVE  Tells(h, r)[e] = <<"Connected">>
BY DEF Tells

LEMMA TellsReceived ==
    ASSUME NEW h, NEW r, NEW e \in Event(h), e.remote = r, e.type = "PacketReceived"
    PROVE  Tells(h, r)[e] = <<e.packet>> /\ e.packet \in Packet
BY TellsIs

\* Nothing of q's is changed but what it is told.
Aside(q) ==
    /\ \A l \in {up(q), down(q)} : wire'[l] = wire[l] /\ sent'[l] = sent[l]
    /\ table'[q] = table[q]
    /\ q \in DOMAIN table'[Server] <=> q \in DOMAIN table[Server]
    /\ q \in DOMAIN table[Server] => table'[Server][q] = table[Server][q]
    /\ q \in DOMAIN clients' <=> q \in DOMAIN clients
    /\ q \in DOMAIN clients => clients'[q] = clients[q]

LEMMA LookedAside ==
    ASSUME TypeInv, NEW e \in Event(Server), NEW q \in Client, ServerLook(e, q), e.remote # q,
           Aside(q), Good(q)
    PROVE  Good(q)'
<1>1. Tells(Server, q)[e] = <<>>
  BY TellsIs
<1>2. PICK s \in Seq(Sign) : s = Heard(Server, q, events'[Server])
  BY HeardIs DEF ServerLook
<1>3. Heard(Server, q, events'[Server]) = Heard(Server, q, events[Server])
  <2>1. <<>> \o s = s
    BY ConcatEmptySeq
  <2> QED BY <1>1, <1>2, <2>1 DEF ServerLook
<1>4. Untouched(q)
  BY <1>3 DEF Untouched, Aside, ServerLook
<1> QED BY <1>4, UntouchedGood

LEMMA ServerHearsIs ==
    ASSUME TypeInv, NEW e, NEW q \in Client, ServerLook(e, q),
           table'[q] = table[q], wire'[up(q)] = wire[up(q)], sent'[up(q)] = sent[up(q)]
    PROVE  ServerHears(q, Tells(Server, q)[e])
BY DEF ServerLook, ServerHears

LEMMA ServerHandlesGood ==
    ASSUME Uncompressing, TypeInv, GoodInv, events[Server] # <<>>, ServerHandles(Head(events[Server]))
    PROVE  GoodInv'
<1>1. mishap = "fine" /\ \A c \in Client : Good(c)
  BY DEF GoodInv
<1>2. PICK e : e = Head(events[Server])
  OBVIOUS
<1>3. Looks(Server, e) /\ phase' = phase
  BY <1>2 DEF ServerHandles
<1>4. e \in Event(Server)
  <2>1. Server \in Handler
    BY DEF Handler
  <2> QED BY <1>2, <1>3, <2>1, LooksType
<1>5. PICK c \in Client : c = e.remote
  BY <1>4 DEF Event, Remotes
<1>6. \A q \in Client : ServerLook(e, q)
  BY <1>2, <1>3, ServerLookIs
<1>7. mishap' = "fine"
  BY <1>1, <1>5, <1>6 DEF ServerLook
<1>8. clients \in ClientTable
  BY DEF TypeInv, ClientTable
<1>9. SUFFICES Good(c)' /\ \A q \in Client : q # c => Good(q)'
  BY <1>7 DEF GoodInv
<1>10. ASSUME table' = table, wire' = wire, sent' = sent,
              \A q \in Client : q # c =>
                  (q \in DOMAIN clients' <=> q \in DOMAIN clients)
                  /\ (q \in DOMAIN clients => clients'[q] = clients[q])
       PROVE  ServerHears(c, Tells(Server, c)[e]) /\ \A q \in Client : q # c => Good(q)'
  <2>1. ServerHears(c, Tells(Server, c)[e])
    BY <1>6, <1>10, ServerHearsIs
  <2>2. ASSUME NEW q \in Client, q # c PROVE Good(q)'
    <3>1. Aside(q)
      BY <1>10, <2>2 DEF Aside
    <3> QED BY <1>1, <1>4, <1>5, <1>6, <2>2, <3>1, LookedAside
  <2> QED BY <2>1, <2>2
<1>11. CASE /\ e.type = "Connected" /\ clients' = Welcomed(e.remote)
            /\ UNCHANGED <<table, wire, sent>>
  <2>1. \A q : q \in DOMAIN clients' <=> q \in DOMAIN clients \/ q = c
    BY <1>5, <1>8, <1>11, WelcomedType
  <2>2. /\ clients'[c] = NewClientInfo
        /\ \A q \in DOMAIN clients : q # c => clients'[q] = clients[q]
    BY <1>5, <1>11 DEF Welcomed, Set
  <2>3. ServerHears(c, Tells(Server, c)[e]) /\ \A q \in Client : q # c => Good(q)'
    BY <1>10, <1>11, <2>1, <2>2
  <2>4. Tells(Server, c)[e] = <<"Connected">>
    BY <1>4, <1>5, <1>11, TellsConnected
  <2>5. seen' = seen
    BY <1>3, <1>11 DEF Looks
  <2>6. Good(c)'
    BY <1>1, <1>11, <2>1, <2>2, <2>3, <2>4, <2>5, ServerWelcomes DEF Listens
  <2> QED BY <2>3, <2>6
<1>12. CASE /\ e.type = "Disconnected" /\ clients' = Drop(clients, {e.remote})
            /\ UNCHANGED <<table, wire, sent>>
  <2>1. \A q : q \in DOMAIN clients' <=> q \in DOMAIN clients /\ q # c
    BY <1>5, <1>8, <1>12, DropClientType
  <2>2. \A q \in DOMAIN clients : q # c => clients'[q] = clients[q]
    <3>1. ASSUME NEW q \in DOMAIN clients, q # c PROVE Drop(clients, {c})[q] = clients[q]
      <4>1. q \in DOMAIN clients \ {c}
        BY <3>1
      <4> QED BY <4>1 DEF Drop
    <3> QED BY <1>5, <1>12, <3>1
  <2>3. ServerHears(c, Tells(Server, c)[e]) /\ \A q \in Client : q # c => Good(q)'
    BY <1>10, <1>12, <2>1, <2>2
  <2>4. Tells(Server, c)[e] = <<>>
    BY <1>4, <1>12, TellsIs
  <2>5. Leaves(events[Server], c)
    BY <1>5, <1>6, <1>12 DEF ServerLook
  <2>6. ServerHears(c, <<>>)
    BY <2>3, <2>4
  <2>7. Good(c)'
    BY <1>1, <1>12, <2>5, <2>6, ServerBids DEF Listens
  <2> QED BY <2>3, <2>7
<1>13. CASE /\ e.type = "PacketReceived" /\ e.remote \notin DOMAIN clients
            /\ UNCHANGED <<clients, table, wire, sent>>
  <2>1. ServerHears(c, Tells(Server, c)[e]) /\ \A q \in Client : q # c => Good(q)'
    BY <1>10, <1>13
  <2>2. Tells(Server, c)[e] = <<e.packet>> /\ e.packet \in Packet
    BY <1>4, <1>5, <1>13, TellsReceived
  <2>3. Good(c)'
    BY <1>1, <1>5, <1>13, <2>1, <2>2, ServerIgnores DEF Listens
  <2> QED BY <2>1, <2>3
<1>14. CASE /\ e.type = "PacketReceived" /\ e.remote \in DOMAIN clients
            /\ clients' = [clients EXCEPT ![e.remote] = Answer(clients[e.remote], e.packet).info]
            /\ Become(ServerAnswers(e.remote, Now, e.packet, Answer(clients[e.remote], e.packet).packets))
  <2>0. Tells(Server, c)[e] = <<e.packet>> /\ e.packet \in Packet
    BY <1>4, <1>5, <1>14, TellsReceived
  <2>1. PICK p \in Packet : p = e.packet /\ Tells(Server, c)[e] = <<p>>
    BY <2>0
  <2>2. PICK packets \in Seq(Packet) : packets = Answer(clients[c], p).packets
    <3>1. clients[c] \in ClientInfo
      BY <1>5, <1>8, <1>14, ClientTableIs
    <3> QED BY <3>1, AnswerType
  <2>3. PICK t : t = ServerAnswers(c, Now, p, packets)
    OBVIOUS
  <2>4. ServerSays(c, p, packets, t)
    BY <2>3, ServerAnswersParts
  <2>5. Apart(Server, c, t)
    BY <2>4 DEF ServerSays
  <2>6. Become(t)
    BY <1>5, <1>14, <2>1, <2>2, <2>3
  <2>7. /\ DOMAIN clients' = DOMAIN clients
        /\ clients'[c] = Answer(clients[c], p).info
        /\ \A q \in DOMAIN clients : q # c => clients'[q] = clients[q]
    BY <1>5, <1>14, <2>1
  <2>8. /\ Server \in Handler
        /\ \A q \in Client : /\ q \in Handler /\ q # Server
                             /\ up(q) \in Link /\ down(q) \in Link
                             /\ up(q) = <<q, Server>> /\ down(q) = <<Server, q>>
    BY ClientLink
  <2>9. \A q \in Client : /\ table'[q] = table[q]
                          /\ wire'[up(q)] = wire[up(q)] /\ sent'[up(q)] = sent[up(q)]
                          /\ q # c => wire'[down(q)] = wire[down(q)] /\ sent'[down(q)] = sent[down(q)]
    BY <2>5, <2>6, <2>8 DEF Apart, Become
  <2>10. ASSUME NEW q \in Client, q # c PROVE Good(q)'
    <3>1. /\ q \in DOMAIN table'[Server] <=> q \in DOMAIN table[Server]
          /\ q \in DOMAIN table[Server] => table'[Server][q] = table[Server][q]
      BY <2>5, <2>6, <2>10 DEF Apart, Become
    <3>2. Aside(q)
      BY <2>7, <2>9, <2>10, <3>1 DEF Aside
    <3> QED BY <1>1, <1>4, <1>5, <1>6, <2>10, <3>2, LookedAside
  <2>11. ServerHears(c, <<p>>)
    BY <1>6, <2>1, <2>9, ServerHearsIs
  <2>12. seen'[up(c)] = Append(seen[up(c)], p)
    BY <1>5, <1>6, <1>14, <2>1 DEF ServerLook
  <2>13. ServerSays(c, p, Answer(clients[c], p).packets, t)
    BY <2>2, <2>4
  <2>14. Good(c)'
    BY <1>1, <1>5, <1>14, <2>6, <2>7, <2>11, <2>12, <2>13, ServerReplies
  <2> QED BY <2>10, <2>14
<1>15. \/ /\ e.type = "Connected" /\ clients' = Welcomed(e.remote)
          /\ UNCHANGED <<table, wire, sent>>
       \/ /\ e.type = "Disconnected" /\ clients' = Drop(clients, {e.remote})
          /\ UNCHANGED <<table, wire, sent>>
       \/ /\ e.type = "PacketReceived" /\ e.remote \notin DOMAIN clients
          /\ UNCHANGED <<clients, table, wire, sent>>
       \/ /\ e.type = "PacketReceived" /\ e.remote \in DOMAIN clients
          /\ clients' = [clients EXCEPT ![e.remote] = Answer(clients[e.remote], e.packet).info]
          /\ Become(ServerAnswers(e.remote, Now, e.packet, Answer(clients[e.remote], e.packet).packets))
  BY <1>2 DEF ServerHandles
<1> QED BY <1>11, <1>12, <1>13, <1>14, <1>15

-----------------------------------------------------------------------------
(* The user of the client c looks at an event, and is told y with it.      *)
ClientHears(c, y) ==
    /\ c \in running /\ running' = running /\ peer' = peer /\ clients' = clients
    /\ events'[Server] = events[Server] /\ table'[Server] = table[Server]
    /\ wire'[down(c)] = wire[down(c)] /\ sent'[down(c)] = sent[down(c)]
    /\ seen'[up(c)] = seen[up(c)]
    /\ seen'[down(c)] = IF y = "Connected" THEN seen[down(c)] ELSE Append(seen[down(c)], y)
    /\ events'[c] \in Seq(Event(c))
    /\ Heard(c, Server, events[c]) = <<y>> \o Heard(c, Server, events'[c])
    /\ Leaves(events'[c], Server) => Leaves(events[c], Server)

\* What is heard and what is left to hear.
Hearing(c, y) ==
    /\ Heard(c, Server, events[c]) # <<>> /\ phase[c] # "off"
    /\ Downward(c)' \in Seq(Sign) /\ Downward(c) = <<y>> \o Downward(c)'
    /\ Marks(Downward(c)) = Marks(<<y>>) \o Marks(Downward(c)')
    /\ LastIn(Downward(c)', "NetworkSettings") /\ (y = "NetworkSettings" => Downward(c)' = <<>>)

LEMMA ClientHearing ==
    ASSUME TypeInv, NEW c \in Client, Good(c), NEW y \in Sign, ClientHears(c, y)
    PROVE  Hearing(c, y)
<1>1. /\ Server \in Handler /\ c \in Handler /\ Server \in Remotes(c)
      /\ down(c) \in Link /\ down(c) = <<Server, c>>
  BY ClientLink
<1>2. PICK x \in Seq(Sign) : x = <<y>>
  BY OneIsIn
<1>3. PICK a \in Seq(Sign) : a = Heard(c, Server, events'[c])
  BY HeardIs DEF ClientHears
<1>4. PICK b \in Seq(Sign) : b = Spoken(wire[down(c)])
  BY <1>1, SpokenIs DEF TypeInv
<1>5. (x \o a) \o b = x \o (a \o b)
  <2>1. Joining(x, a, b)
    BY SignsJoin
  <2> QED BY <2>1 DEF Joining
<1>6. Downward(c) = (x \o a) \o b
  BY <1>1, <1>2, <1>3, <1>4 DEF Downward, Coming, ClientHears
<1>7. Downward(c)' = a \o b
  BY <1>1, <1>3, <1>4 DEF Downward, Coming, ClientHears
<1>8. PICK v \in Seq(Sign) : v = Downward(c)'
  BY <1>7, ConcatProperties
<1>9. Downward(c) = <<y>> \o v
  BY <1>2, <1>5, <1>6, <1>7, <1>8
<1>10. Heard(c, Server, events[c]) # <<>>
  BY <1>3, HeadIs DEF Begins, ClientHears
<1>11. phase[c] # "off"
  BY <1>10 DEF Good, Ends, IsOff
<1>12. Marks(Downward(c)) = Marks(<<y>>) \o Marks(v)
  BY <1>2, <1>9, MarksAre
<1>13. LastIn(Downward(c), "NetworkSettings")
  BY DEF Good, HearsServer, ClientHears
<1>14. LastIn(v, "NetworkSettings") /\ (y = "NetworkSettings" => v = <<>>)
  BY <1>9, <1>13, LastInTail
<1> QED BY <1>8, <1>9, <1>10, <1>11, <1>12, <1>14 DEF Hearing

LEMMA ClientScript ==
    ASSUME TypeInv, NEW c \in Client, Good(c), NEW y \in Sign, ClientHears(c, y)
    PROVE  Script(c)'
<1>1. down(c) \in Link
  BY ClientLink
<1>2. Hearing(c, y)
  BY ClientHearing
<1>3. PICK v \in Seq(Sign) : v = Downward(c)' /\ Downward(c) = <<y>> \o v
  BY <1>2 DEF Hearing
<1>4. PICK s \in Seq(Packet) : s = seen[down(c)]
  BY <1>1 DEF TypeInv
<1>5. PICK m \in Seq(Packet) : m = sent[down(c)]
  BY <1>1 DEF TypeInv
<1>6. m = s \o Letters(<<y>> \o v) /\ InStory(m) /\ ChunkFirst(m) /\ InStory(s) /\ ChunkFirst(s)
  BY <1>2, <1>3, <1>4, <1>5 DEF Good, Script, Hearing
<1>7. PICK x \in Seq(Sign) : x = <<y>>
  BY OneIsIn
<1>8. PICK k \in Seq(Packet), l \in Seq(Packet) : k = Letters(x) /\ l = Letters(v)
  BY LettersAre
<1>9. Letters(<<y>> \o v) = k \o l
  BY <1>7, <1>8, LettersAre
<1>10. seen'[down(c)] = s \o k
  <2>1. CASE y = "Connected"
    <3>1. k = <<>>
      BY <1>7, <1>8, <2>1, LettersAre
    <3>2. s \o <<>> = s
      BY ConcatEmptySeq
    <3> QED BY <1>4, <2>1, <3>1, <3>2 DEF ClientHears
  <2>2. CASE y # "Connected"
    <3>1. PICK p \in Packet : p = y
      BY <2>2 DEF Sign
    <3>2. k = <<p>>
      BY <1>7, <1>8, <3>1, PacketsAreSigns, LettersAre
    <3>3. Append(s, p) = s \o <<p>>
      BY AppendIsConcat
    <3> QED BY <1>4, <2>2, <3>1, <3>2, <3>3 DEF ClientHears
  <2> QED BY <2>1, <2>2
<1>11. PICK n \in Seq(Packet) : n = s \o k
  BY ConcatProperties
<1>12. m = n \o l
  <2>1. (s \o k) \o l = s \o (k \o l)
    <3>1. Joining(s, k, l)
      BY PacketsJoin
    <3> QED BY <3>1 DEF Joining
  <2>2. m = s \o (k \o l)
    BY <1>6, <1>9
  <2> QED BY <1>11, <2>1, <2>2
<1>13. InStory(n) /\ ChunkFirst(n)
  <2>1. n \in Seq(Sign) /\ l \in Seq(Sign)
    BY PacketsAreSigns
  <2> QED BY <1>6, <1>12, <2>1, InStoryPrefix, ChunkFirstConcat
<1>14. sent'[down(c)] = n \o Letters(Downward(c)')
  BY <1>3, <1>5, <1>8, <1>12 DEF ClientHears
<1> QED BY <1>5, <1>6, <1>10, <1>11, <1>13, <1>14 DEF Script, ClientHears

LEMMA ClientHearsServer ==
    ASSUME TypeInv, NEW c \in Client, Good(c), NEW y \in Sign, ClientHears(c, y),
           \/ y = "NetworkSettings"
           \/ Server \in DOMAIN table[c] =>
                  Server \in DOMAIN table'[c] /\ Resembles(table'[c][Server], table[c][Server])
    PROVE  /\ HearsServer(c)'
           /\ y = "NetworkSettings" => Spoken(wire[down(c)]) = <<>>
<1>1. /\ Server \in Handler /\ c \in Handler /\ Server \in Remotes(c)
      /\ down(c) \in Link /\ down(c) = <<Server, c>>
  BY ClientLink
<1>2. Hearing(c, y)
  BY ClientHearing
<1>3. PICK w \in Seq(Message) : w = wire[down(c)]
  BY <1>1 DEF TypeInv
<1>4. Reads(table[c], Server, w)
  BY <1>3 DEF Good, HearsServer, ClientHears
<1>5. y = "NetworkSettings" => Spoken(w) = <<>>
  <2> SUFFICES ASSUME y = "NetworkSettings" PROVE Spoken(w) = <<>>
    OBVIOUS
  <2>1. PICK a \in Seq(Sign) : a = Heard(c, Server, events'[c])
    BY HeardIs DEF ClientHears
  <2>2. PICK b \in Seq(Sign) : b = Spoken(w)
    BY SpokenIs
  <2>3. a \o b = <<>>
    BY <1>1, <1>2, <1>3, <2>1, <2>2 DEF Downward, Coming, ClientHears, Hearing
  <2> QED BY <2>2, <2>3, NothingJoined
<1>6. Reads(table'[c], Server, w)
  <2>1. CASE y = "NetworkSettings"
    BY <1>4, <1>5, <2>1, Silence
  <2>2. CASE y # "NetworkSettings"
    BY <1>4, <2>2, ReadsAlike
  <2> QED BY <2>1, <2>2
<1> QED BY <1>2, <1>3, <1>5, <1>6 DEF HearsServer, Hearing, ClientHears

LEMMA ClientHearsEnds ==
    ASSUME NEW c \in Client, NEW y, ClientHears(c, y), Ends(c), phase[c] # "off", phase'[c] # "off",
           Server \in running => (Farewell(wire'[up(c)]) => Farewell(wire[up(c)]))
    PROVE  Ends(c)'
BY DEF ClientHears, Ends

(* Whose turn it is then.                                                  *)
LEMMA ClientTurn ==
    ASSUME TypeInv, NEW c \in Client, Good(c), NEW y \in Sign, ClientHears(c, y), Server \in running
    PROVE  /\ ~ Knocks(c) /\ (Greets(c) \/ Switches(c) \/ InStep(c))
           /\ sent[up(c)] = seen[up(c)] \o Letters(Upward(c))
           /\ y = "Connected" => Greets(c) /\ phase[c] = "connecting" /\ Marks(Downward(c)') = <<>>
           /\ y = "NetworkSettings" => Switches(c)
           /\ y \in Steps /\ y # "NetworkSettings" =>
                 /\ InStep(c) /\ Answering(c, phase[c]) /\ y = Story[Number[phase[c]] + 1]
                 /\ Marks(Downward(c)') = <<>>
           /\ y \notin Steps /\ y # "Connected" => Marks(Downward(c)') = Marks(Downward(c))
<1>1. Hearing(c, y)
  BY ClientHearing
<1>2. PICK m \in Seq(Sign) : m = Marks(Downward(c)')
  BY <1>1, MarksAre DEF Hearing
<1>3. Marks(Downward(c)) = Marks(<<y>>) \o m
  BY <1>1, <1>2 DEF Hearing
<1>4. Turn(c) /\ ~ Knocks(c)
  BY <1>1 DEF Good, Knocks, Hearing
<1>5. /\ Greets(c) \/ Switches(c) \/ InStep(c)
      /\ sent[up(c)] = seen[up(c)] \o Letters(Upward(c))
  BY <1>1, <1>4 DEF Turn, Hearing
<1>6. y \notin Steps /\ y # "Connected" => Marks(Downward(c)') = Marks(Downward(c))
  <2>1. <<>> \o m = m
    BY ConcatEmptySeq
  <2> QED BY <1>2, <1>3, <2>1, MarksAre
<1>11. /\ "Connected" \in Sign /\ "Connected" \notin Steps
       /\ "NetworkSettings" \in Sign /\ "NetworkSettings" \in Steps
  BY StepsArePackets
<1>7. SUFFICES ASSUME y \in Steps \/ y = "Connected"
               PROVE  /\ y = "Connected" => Greets(c) /\ phase[c] = "connecting" /\ m = <<>>
                      /\ y = "NetworkSettings" => Switches(c)
                      /\ y \in Steps /\ y # "NetworkSettings" =>
                            /\ InStep(c) /\ Answering(c, phase[c]) /\ y = Story[Number[phase[c]] + 1]
                            /\ m = <<>>
  BY <1>2, <1>4, <1>5, <1>6, <1>11
<1>8. Marks(Downward(c)) = <<y>> \o m
  BY <1>3, <1>7, MarksAre
<1>9. Marks(Downward(c)) # <<>>
  BY <1>8, HeadIs DEF Begins
<1>10. ASSUME NEW x \in Sign, Marks(Downward(c)) = <<x>> PROVE y = x /\ m = <<>>
  <2>1. PICK n : n = <<>> /\ n \in Seq(Sign)
    <3>1. <<>> \in Seq(Sign)
      OBVIOUS
    <3> QED BY <3>1
  <2>2. <<x>> \o n = <<x>>
    BY <2>1, OneIsIn, ConcatEmptySeq
  <2> QED BY <1>8, <1>10, <2>1, <2>2, HeadSame
<1>12. CASE Greets(c)
  <2>1. phase[c] = "connecting" /\ Marks(Downward(c)) = <<"Connected">>
    BY <1>9, <1>12 DEF Greets
  <2> QED BY <1>10, <1>11, <1>12, <2>1
<1>13. CASE Switches(c)
  <2>1. Marks(Downward(c)) = <<"NetworkSettings">>
    BY <1>13 DEF Switches
  <2> QED BY <1>10, <1>11, <1>13, <2>1
<1>14. CASE InStep(c)
  <2>1. Answering(c, phase[c]) /\ phase[c] \in DOMAIN Asks
    BY <1>9, <1>14 DEF InStep, Asking, Playing
  <2>2. PICK f \in DOMAIN Asks : f = phase[c] /\ f # "spawned"
    BY <2>1 DEF Answering
  <2>3. Number[f] + 1 \in 1 .. 5 /\ Number[f] + 1 # 1
    BY <2>2, TurnsAre
  <2>4. Story[Number[f] + 1] \in Steps /\ Story[Number[f] + 1] # "NetworkSettings"
    BY <2>3, StoryIs, TurnsAre
  <2>5. Story[Number[f] + 1] \in Sign /\ Story[Number[f] + 1] # "Connected"
    BY <2>4, StepsArePackets
  <2>6. Marks(Downward(c)) = <<Story[Number[f] + 1]>>
    BY <2>1, <2>2 DEF Answering
  <2>7. y = Story[Number[f] + 1] /\ m = <<>>
    BY <1>10, <2>5, <2>6
  <2> QED BY <1>14, <2>1, <2>2, <2>4, <2>5, <2>7
<1> QED BY <1>5, <1>12, <1>13, <1>14

LEMMA ClientGreetsParts ==
    ASSUME Uncompressing, TypeInv, NEW c \in Client, NEW packets \in Seq(Packet), packets # <<>>
    PROVE  ClientSays(c, "Connected", packets, SendBatchTo(c, {Server}, Now, packets))
<1>1. c \in Handler /\ Server \in Remotes(c) /\ up(c) = <<c, Server>> /\ up(c) \in Link
  BY ClientLink
<1>2. PICK s \in Calls : s = Now
  BY NowCalling
<1>3. PICK R : R = {Server}
  OBVIOUS
<1>4. PICK t \in Calls : t = SendBatchTo(c, R, s, packets)
  <2>1. Calling(SendBatchTo(c, R, Now, packets))
    BY <1>1, SendBatchCalling
  <2> QED BY <1>2, <2>1 DEF Calling
<1>5. Calm(c, R, Now, t)
  BY <1>1, <1>2, <1>4, SendBatchCalm
<1>6. Apart(c, Server, t) /\ (Server \in DOMAIN table[c] => Resembles(t.table[c][Server], table[c][Server]))
  BY <1>1, <1>3, <1>5, CalmApart
<1>7. ASSUME NEW T \in Table(Server), Flowing(T, c, Server, table[c][Server])
      PROVE  /\ Carried(c, Server, Now, t, packets) /\ Reads(T, c, t.wire[up(c)])
             /\ Ready(T, c, t.wire[up(c)], t.table[c][Server])
  <2>1. Flows(T, c, Server, s)
    BY <1>2, <1>7, FlowsNow
  <2>2. Server \in R \intersect Remotes(c)
    BY <1>1, <1>3
  <2>3. Flows(T, c, Server, t) /\ Carried(c, Server, s, t, packets)
    BY <1>1, <1>4, <2>1, <2>2, SendBatchSent
  <2> QED BY <1>1, <1>2, <2>3 DEF Flows
<1>8. SendBatchTo(c, {Server}, Now, packets) = t
  BY <1>2, <1>3, <1>4
<1> QED BY <1>6, <1>7, <1>8 DEF ClientSays

(* What the client sends has been understood by the server, in the end.    *)
Uttered(c, packets) ==
    /\ HeardByServer(c)' /\ Upward(c)' = Upward(c) \o packets
    /\ sent'[up(c)] = seen'[up(c)] \o Letters(Upward(c)')
    /\ AllGame(wire[up(c)]) => AllGame(wire'[up(c)])
    /\ Opens(wire[up(c)]) => Opens(wire'[up(c)])
    /\ Farewell(wire'[up(c)]) => Farewell(wire[up(c)])

LEMMA UpSent ==
    ASSUME TypeInv, NEW c \in Client, NEW y \in Sign, ClientHears(c, y), NEW packets \in Seq(Packet),
           NEW t \in Calls, Carried(c, Server, Now, t, packets), Become(t),
           Reads(table[Server], c, t.wire[up(c)]), sent[up(c)] = seen[up(c)] \o Letters(Upward(c)),
           LastIn(Upward(c) \o packets, "RequestNetworkSettings")
    PROVE  Uttered(c, packets)
<1>1. /\ Server \in Handler /\ c \in Handler /\ c \in Remotes(Server)
      /\ up(c) \in Link /\ up(c) = <<c, Server>>
  BY ClientLink
<1>2. wire' = t.wire /\ sent' = t.sent
  BY DEF Become
<1>3. PICK w \in Seq(Message), v \in Seq(Message) : w = wire[up(c)] /\ v = wire'[up(c)]
  BY <1>1, <1>2 DEF TypeInv, Calls
<1>4. PICK m \in Seq(Packet) : m = sent[up(c)]
  BY <1>1 DEF TypeInv
<1>5. Grown(w, v) /\ Spoken(v) = Spoken(w) \o packets /\ sent'[up(c)] = m \o packets
  BY <1>1, <1>2, <1>3, <1>4, NowIs DEF Carried
<1>6. PICK d \in Seq(Sign) : d = Upward(c)
  BY <1>1, ComingType DEF Upward
<1>7. Upward(c)' = d \o packets
  BY <1>1, <1>3, <1>5, <1>6, ComingMore DEF Upward, ClientHears
<1>8. packets \in Seq(Sign)
  BY PacketsAreSigns
<1>9. HeardByServer(c)'
  <2>1. Reads(table'[Server], c, wire'[up(c)])
    BY <1>2 DEF ClientHears
  <2> QED BY <1>6, <1>7, <2>1 DEF HeardByServer
<1>10. sent'[up(c)] = seen'[up(c)] \o Letters(Upward(c)')
  <2>1. PICK s \in Seq(Packet) : s = seen[up(c)]
    BY <1>1 DEF TypeInv
  <2>2. PICK x \in Seq(Packet) : x = Letters(d)
    BY LettersAre
  <2>3. Letters(d \o packets) = x \o packets
    BY <1>8, <2>2, LettersAre
  <2>4. (s \o x) \o packets = s \o (x \o packets)
    <3>1. Joining(s, x, packets)
      BY PacketsJoin
    <3> QED BY <3>1 DEF Joining
  <2>5. m = s \o x
    BY <1>4, <1>6, <2>1, <2>2
  <2> QED BY <1>5, <1>7, <2>1, <2>3, <2>4, <2>5 DEF ClientHears
<1>11. (AllGame(w) => AllGame(v)) /\ (Opens(w) => Opens(v)) /\ (Farewell(v) => Farewell(w))
  BY <1>5, GrownIs
<1> QED BY <1>3, <1>6, <1>7, <1>9, <1>10, <1>11 DEF Uttered

LEMMA ServerGone ==
    ASSUME NEW c \in Client, Good(c), NEW y, ClientHears(c, y), phase[c] # "off", phase'[c] # "off",
           Server \notin running, HearsServer(c)', Script(c)'
    PROVE  Good(c)'
<1>1. Ends(c)'
  BY ClientHearsEnds DEF Good
<1>2. HeardByServer(c)' /\ Turn(c)'
  BY DEF HeardByServer, Turn, ClientHears
<1> QED BY <1>1, <1>2 DEF Good

LEMMA ClientGreets ==
    ASSUME Uncompressing, TypeInv, NEW c \in Client, Good(c), ClientHears(c, "Connected"),
           phase'[c] = "settings", NEW t, ClientSays(c, "Connected", <<"RequestNetworkSettings">>, t),
           Become(t)
    PROVE  Good(c)'
<1>1. PICK y \in Sign : y = "Connected"
  BY StepsArePackets
<1>2. PICK q \in Packet : q = "RequestNetworkSettings"
  BY DEF Packet
<1>3. PICK packets \in Seq(Packet) : packets = <<q>>
  BY PacketSign
<1>4. Hearing(c, y) /\ Script(c)' /\ ClientHears(c, y)
  BY <1>1, ClientHearing, ClientScript
<1>5. /\ c \in Handler /\ Server \in Handler /\ Server \in Remotes(c) /\ c \in Remotes(Server)
      /\ up(c) \in Link /\ up(c) = <<c, Server>>
  BY ClientLink
<1>6. /\ Server \in DOMAIN table[c] => Server \in DOMAIN table'[c] /\ Resembles(table'[c][Server], table[c][Server])
  BY DEF ClientSays, Apart, Become
<1>7. HearsServer(c)'
  BY <1>4, <1>6, ClientHearsServer
<1>8. CASE Server \notin running
  BY <1>4, <1>7, <1>8, ServerGone DEF Hearing
<1>9. CASE Server \in running
  <2>1. /\ Greets(c) /\ phase[c] = "connecting" /\ Marks(Downward(c)') = <<>>
        /\ sent[up(c)] = seen[up(c)] \o Letters(Upward(c))
    BY <1>1, <1>4, <1>9, ClientTurn
  <2>2. Awaited(c, <<>>) \/ Met(c, <<>>)
    BY <2>1 DEF Greets
  <2>3. <<y>> \o <<>> = <<y>> /\ <<>> \o <<q>> = <<q>>
    <3>1. PICK a \in Seq(Sign), b \in Seq(Sign) : a = <<y>> /\ b = <<q>>
      BY <1>1, <1>2, OneIsIn, PacketSign
    <3> QED BY <3>1, ConcatEmptySeq
  <2>4. \/ Awaited(c, <<>>) /\ Upward(c) = <<y>>
        \/ Met(c, <<>>) /\ Upward(c) = <<y>>
        \/ Met(c, <<>>) /\ Upward(c) = <<>> /\ Fresh(c)
    BY <1>1, <2>2, <2>3 DEF Awaited, Met
  <2>5. LastIn(Upward(c) \o packets, "RequestNetworkSettings")
    <3>1. q \in Sign
      BY PacketSign
    <3>2. <<y>> \o <<q>> = <<y, q>>
      BY <3>1, TwoAre
    <3>3. Upward(c) \o packets = <<y, q>> \/ Upward(c) \o packets = <<q>>
      BY <1>3, <2>3, <2>4, <3>2
    <3>4. y # "RequestNetworkSettings"
      BY <1>1
    <3>5. LastIn(<<y, q>>, "RequestNetworkSettings") /\ LastIn(<<q>>, "RequestNetworkSettings")
      BY <3>4, LastInOne, LastInTwo
    <3> QED BY <3>3, <3>5
  <2>6. Server \in DOMAIN table[c] /\ ~ table[c][Server].initialized /\ ~ table[c][Server].enabled
    BY <2>1 DEF Greets, IsPlain
  <2>7. PICK x \in Processor : x = table[c][Server]
    BY <1>5, <2>6, TableAt
  <2>8. Flowing(table[Server], c, Server, table[c][Server]) /\ table[Server] \in Table(Server)
    <3>1. peer[up(c)] = "Connected"
      BY <2>1 DEF Greets
    <3>2. CASE Awaited(c, <<>>)
      <4>1. Opens(wire[up(c)])
        BY <3>2 DEF Awaited
      <4>2. Leads(x, NewProcessor, 0)
        BY <2>6, <2>7, NewIsPlain, PlainLeads
      <4> QED BY <1>4, <1>9, <2>6, <2>7, <3>1, <4>1, <4>2, UpFlows DEF Hearing
    <3>3. CASE Met(c, <<>>)
      <4>1. AllGame(wire[up(c)]) /\ IsPlain(table[Server], c)
        BY <3>3 DEF Met
      <4>2. PICK z \in Processor : z = table[Server][c]
        BY <1>5, <4>1, TableAt DEF IsPlain
      <4>3. Leads(x, z, Len(wire[up(c)]))
        BY <2>6, <2>7, <4>1, <4>2, PlainLeads DEF IsPlain
      <4>4. c \in DOMAIN table[Server]
        BY <4>1 DEF IsPlain
      <4> QED BY <1>4, <1>9, <2>6, <2>7, <3>1, <4>1, <4>2, <4>3, <4>4, UpFlows DEF Hearing
    <3> QED BY <2>2, <3>2, <3>3
  <2>9. t \in Calls /\ Carried(c, Server, Now, t, packets) /\ Reads(table[Server], c, t.wire[up(c)])
    BY <1>2, <1>3, <2>8 DEF ClientSays, Apart
  <2>10. Uttered(c, packets)
    BY <1>1, <1>4, <2>1, <2>5, <2>9, UpSent
  <2>11. Ends(c)'
    BY <1>4, <2>10, ClientHearsEnds DEF Good, Uttered, Hearing
  <2>12. Greets(c)'
    <3>1. /\ peer'[up(c)] = "Connected" /\ IsPlain(table'[c], Server)
          /\ AllGame(wire'[down(c)]) /\ Marks(sent'[down(c)]) = <<>>
      BY <1>6, <2>1 DEF Greets, IsPlain, Resembles, ClientHears
    <3>2. Upward(c)' = Upward(c) \o packets
      BY <2>10 DEF Uttered
    <3>3. CASE Awaited(c, <<>>) /\ Upward(c) = <<y>>
      <4>1. Awaited(c, <<"RequestNetworkSettings">>)'
        BY <1>1, <1>2, <1>3, <2>10, <3>2, <3>3 DEF Awaited, Uttered, ClientHears
      <4> QED BY <2>1, <3>1, <4>1 DEF Greets
    <3>4. CASE Met(c, <<>>) /\ (Upward(c) = <<y>> \/ (Upward(c) = <<>> /\ Fresh(c)))
      <4>1. Upward(c)' = <<"Connected">> \o <<"RequestNetworkSettings">>
            \/ (Upward(c)' = <<"RequestNetworkSettings">> /\ Fresh(c)')
        BY <1>1, <1>2, <1>3, <2>3, <3>2, <3>4 DEF Fresh, ClientHears
      <4>2. Met(c, <<"RequestNetworkSettings">>)'
        BY <2>10, <3>4, <4>1 DEF Met, Uttered, ClientHears
      <4> QED BY <2>1, <3>1, <4>2 DEF Greets
    <3> QED BY <2>4, <3>3, <3>4
  <2> QED BY <1>4, <1>7, <2>10, <2>11, <2>12 DEF Good, Turn, Uttered
<1> QED BY <1>8, <1>9

LEMMA ClientSwitches ==
    ASSUME Uncompressing, TypeInv, NEW c \in Client, Good(c), ClientHears(c, "NetworkSettings"),
           phase'[c] = "login", NEW t, ClientSays(c, "NetworkSettings", <<"Login">>, t), Become(t)
    PROVE  Good(c)'
<1>1. PICK y \in Sign : y = "NetworkSettings" /\ y # "Connected"
  BY StepsArePackets
<1>2. PICK q \in Packet : q = "Login"
  BY DEF Packet
<1>3. PICK packets \in Seq(Packet) : packets = <<q>>
  BY PacketSign
<1>4. Hearing(c, y) /\ Script(c)' /\ ClientHears(c, y)
  BY <1>1, ClientHearing, ClientScript
<1>5. /\ c \in Handler /\ Server \in Handler /\ Server \in Remotes(c) /\ c \in Remotes(Server)
      /\ up(c) \in Link /\ up(c) = <<c, Server>> /\ down(c) \in Link /\ down(c) = <<Server, c>>
  BY ClientLink
<1>6. HearsServer(c)' /\ Spoken(wire[down(c)]) = <<>>
  BY <1>1, <1>4, ClientHearsServer
<1>7. CASE Server \notin running
  BY <1>4, <1>6, <1>7, ServerGone DEF Hearing
<1>8. CASE Server \in running
  <2>1. Switches(c) /\ sent[up(c)] = seen[up(c)] \o Letters(Upward(c))
    BY <1>1, <1>4, <1>8, ClientTurn
  <2>2. /\ Server \in DOMAIN table[c] /\ ~ table[c][Server].initialized /\ ~ table[c][Server].enabled
        /\ c \in DOMAIN table[Server] /\ Upward(c) = <<>>
        /\ peer[up(c)] = "Connected" /\ peer[down(c)] = "Connected"
        /\ AllGame(wire[up(c)]) /\ AllGame(wire[down(c)])
    BY <2>1 DEF Switches, IsPlain, IsSwitched
  <2>3. PICK x \in Processor : x = table[c][Server]
    BY <1>5, <2>2, TableAt
  <2>4. PICK z \in Processor : z = table[Server][c]
    BY <1>5, <2>2, TableAt
  <2>5. PICK n \in Processor : n = ClientSwitch(x) /\ SwitchedTo(x, n)
    BY <2>2, <2>3, SwitchIs DEF SwitchedTo
  <2>6. /\ n.initialized /\ n.algorithm = Algorithm /\ (n.enabled <=> Ciphers) /\ Started(n)
        /\ z.initialized /\ z.algorithm = Algorithm /\ (z.enabled <=> Ciphers) /\ Started(z)
    BY <2>1, <2>4, <2>5 DEF SwitchedTo, Switches, IsSwitched
  <2>7. Header(n) = Header(z) /\ n.enabled = z.enabled
    BY <2>6 DEF Header, Processor
  <2>8. PICK u \in Seq(Message) : u = wire[up(c)]
    BY <1>5 DEF TypeInv
  <2>9. PICK w \in Seq(Message) : w = wire[down(c)]
    BY <1>5 DEF TypeInv
  <2>10. u = <<>>
    <3>1. Coming(Server, c) = <<>>
      BY <2>2 DEF Upward
    <3>2. Reads(table[Server], c, wire[<<c, Server>>])
      BY <1>5, <1>8 DEF Good, HeardByServer
    <3>3. ~ Farewell(u)
      BY <2>2, <2>8, GameIs
    <3> QED BY <1>5, <2>8, <3>1, <3>2, <3>3, NothingComing
  <2>11. w = <<>>
    <3>1. Reads(table[c], Server, w)
      BY <1>4, <2>9 DEF Good, HearsServer, ClientHears
    <3>2. ~ Farewell(w)
      BY <2>2, <2>9, GameIs
    <3> QED BY <1>6, <2>9, <3>1, <3>2, Silence
  <2>12. Leads(n, z, Len(u))
    BY <2>6, <2>7, <2>10 DEF Leads, Started
  <2>13. Flowing(table[Server], c, Server, n) /\ table[Server] \in Table(Server)
    <3>1. Leads(n, table[Server][c], Len(wire[up(c)]))
      BY <2>4, <2>8, <2>12
    <3> QED BY <1>4, <1>8, <2>2, <3>1, UpFlows DEF Hearing
  <2>14. /\ t \in Calls /\ Carried(c, Server, Now, t, packets) /\ Reads(table[Server], c, t.wire[up(c)])
         /\ Ready(table[Server], c, t.wire[up(c)], t.table[c][Server])
         /\ Resembles(t.table[c][Server], n)
         /\ DOMAIN t.table[c] = DOMAIN table[c]
    BY <1>2, <1>3, <2>2, <2>3, <2>5, <2>13 DEF ClientSays, Apart
  <2>15. LastIn(Upward(c) \o packets, "RequestNetworkSettings") /\ Upward(c) \o packets = <<"Login">>
    <3>1. PICK a \in Seq(Sign) : a = packets
      BY PacketsAreSigns
    <3>2. <<>> \o a = a
      BY ConcatEmptySeq
    <3>3. Upward(c) \o packets = <<q>>
      BY <1>3, <2>2, <3>1, <3>2
    <3> QED BY <1>2, <3>3, LastInOne
  <2>16. Uttered(c, packets)
    BY <1>4, <2>1, <2>14, <2>15, UpSent
  <2>17. Ends(c)'
    BY <1>4, <2>16, ClientHearsEnds DEF Good, Uttered, Hearing
  <2>18. InStep(c)'
    <3>1. /\ phase'[c] \in DOMAIN Asks
          /\ peer'[up(c)] = "Connected" /\ peer'[down(c)] = "Connected"
      BY <2>2, TurnsAre DEF ClientHears
    <3>2. IsSwitched(table'[c], Server)
      BY <2>2, <2>6, <2>14 DEF IsSwitched, Resembles, Become
    <3>3. IsSwitched(table'[Server], c)
      BY <2>1 DEF Switches, ClientHears
    <3>4. AllGame(wire'[up(c)]) /\ AllGame(wire'[down(c)])
      BY <2>2, <2>16 DEF Uttered, ClientHears
    <3>5. Leads(table'[c][Server], table'[Server][c], Len(wire'[up(c)]))
      <4>1. PICK v \in Seq(Message) : v = wire'[up(c)]
        BY <1>5, <2>14 DEF Become, Calls
      <4>2. ~ Opens(v)
        BY <3>4, <4>1, GameIs
      <4> QED BY <2>14, <4>1, <4>2 DEF Ready, Become, ClientHears
    <3>6. Leads(table'[Server][c], table'[c][Server], Len(wire'[down(c)]))
      <4>1. PICK k : k = table'[c][Server] /\ Resembles(k, n)
        BY <2>14 DEF Become
      <4>2. Header(z) = Header(k) /\ z.enabled = k.enabled
        BY <2>7, <4>1 DEF Header, Resembles
      <4>3. z.enabled => z.send_counter = k.recv_counter + 0
        BY <2>6, <2>7, <4>1 DEF Started, Resembles
      <4>4. Leads(z, k, 0)
        BY <4>2, <4>3 DEF Leads
      <4> QED BY <2>4, <2>9, <2>11, <4>1, <4>4 DEF ClientHears
    <3>7. /\ c \in DOMAIN clients' /\ clients'[c].state = "WaitingForLogin"
          /\ ~ clients'[c].chunks_sent
      BY <2>1 DEF Switches, ClientHears
    <3>8. Asking(c, "login")'
      <4>1. Upward(c)' = <<Asks["login"]>>
        BY <2>15, <2>16, TurnsAre DEF Uttered
      <4>2. Marks(Downward(c)') = <<>>
        BY <1>1, <1>4, MarksAre DEF Hearing
      <4>3. Marks(sent'[down(c)]) = SubSeq(Story, 1, Number["login"])
        BY <2>1, TurnsAre DEF Switches, ClientHears
      <4>4. clients'[c].state = Before["login"]
        BY <3>7, TurnsAre
      <4> QED BY <4>1, <4>2, <4>3, <4>4 DEF Asking
    <3> QED BY <3>1, <3>2, <3>3, <3>4, <3>5, <3>6, <3>7, <3>8 DEF InStep
  <2> QED BY <1>4, <1>6, <2>16, <2>17, <2>18 DEF Good, Turn, Uttered
<1> QED BY <1>7, <1>8

\* What follows the turn f.
Follows(f, g, y) ==
    /\ y = Story[Number[f] + 1] /\ y \in DOMAIN Reply
    /\ Reply[y].phase = g /\ Reply[y].packets = <<Asks[g]>>
    /\ Asks[g] # "RequestNetworkSettings" /\ Asks[g] \in Packet
    /\ Number[g] = Number[f] + 1 /\ Before[g] = Behind[f]

LEMMA FollowsIs ==
    ASSUME NEW f \in DOMAIN Asks, f # "spawned"
    PROVE  \E g \in DOMAIN Asks : Follows(f, g, Story[Number[f] + 1])
<1>1. f \in {"login", "stack", "start", "spawn"}
  BY TurnsAre
<1>2. {"login", "stack", "start", "spawn", "spawned"} = DOMAIN Asks
  BY TurnsAre
<1>3. CASE f = "login"
  <2>1. Follows(f, "stack", Story[Number[f] + 1])
    <3>1. Number[f] + 1 = 2
      BY <1>3, TurnsAre
    <3> QED BY <1>3, <3>1, TurnsAre DEF Follows, Reply, Packet
  <2> QED BY <1>2, <2>1
<1>4. CASE f = "stack"
  <2>1. Follows(f, "start", Story[Number[f] + 1])
    <3>1. Number[f] + 1 = 3
      BY <1>4, TurnsAre
    <3> QED BY <1>4, <3>1, TurnsAre DEF Follows, Reply, Packet
  <2> QED BY <1>2, <2>1
<1>5. CASE f = "start"
  <2>1. Follows(f, "spawn", Story[Number[f] + 1])
    <3>1. Number[f] + 1 = 4
      BY <1>5, TurnsAre
    <3> QED BY <1>5, <3>1, TurnsAre DEF Follows, Reply, Packet
  <2> QED BY <1>2, <2>1
<1>6. CASE f = "spawn"
  <2>1. Follows(f, "spawned", Story[Number[f] + 1])
    <3>1. Number[f] + 1 = 5
      BY <1>6, TurnsAre
    <3> QED BY <1>6, <3>1, TurnsAre DEF Follows, Reply, Packet
  <2> QED BY <1>2, <2>1
<1> QED BY <1>1, <1>3, <1>4, <1>5, <1>6

LEMMA ClientReplies ==
    ASSUME Uncompressing, TypeInv, NEW c \in Client, Good(c), NEW y \in DOMAIN Reply,
           y # "NetworkSettings", ClientHears(c, y), phase'[c] = Reply[y].phase, phase'[c] # "off",
           NEW t, ClientSays(c, y, Reply[y].packets, t), Become(t)
    PROVE  Good(c)'
<1>1. y \in Sign /\ y # "Connected" /\ y \in Steps
  BY StepsArePackets DEF Steps
<1>2. Hearing(c, y) /\ Script(c)'
  BY <1>1, ClientHearing, ClientScript
<1>3. /\ c \in Handler /\ Server \in Handler /\ Server \in Remotes(c) /\ c \in Remotes(Server)
      /\ up(c) \in Link /\ up(c) = <<c, Server>> /\ down(c) \in Link /\ down(c) = <<Server, c>>
  BY ClientLink
<1>4. /\ Server \in DOMAIN table[c] => Server \in DOMAIN table'[c] /\ Resembles(table'[c][Server], table[c][Server])
  BY DEF ClientSays, Apart, Become
<1>5. HearsServer(c)'
  BY <1>1, <1>4, ClientHearsServer
<1>6. CASE Server \notin running
  BY <1>2, <1>5, <1>6, ServerGone DEF Hearing
<1>7. CASE Server \in running
  <2>1. /\ InStep(c) /\ Answering(c, phase[c]) /\ y = Story[Number[phase[c]] + 1]
        /\ sent[up(c)] = seen[up(c)] \o Letters(Upward(c)) /\ Marks(Downward(c)') = <<>>
    BY <1>1, <1>7, ClientTurn
  <2>2. PICK f \in DOMAIN Asks : f = phase[c] /\ f # "spawned"
    BY <2>1 DEF InStep, Answering
  <2>3. PICK g \in DOMAIN Asks : Follows(f, g, y)
    BY <2>1, <2>2, FollowsIs
  <2>4. PICK q \in Packet : q = Asks[g] /\ q # "RequestNetworkSettings"
    BY <2>3 DEF Follows
  <2>5. PICK packets \in Seq(Packet) : packets = <<q>>
    BY PacketSign
  <2>6. phase'[c] = g /\ Reply[y].packets = packets
    BY <2>3, <2>4, <2>5 DEF Follows
  <2>7. /\ Server \in DOMAIN table[c] /\ c \in DOMAIN table[Server] /\ Upward(c) = <<>>
        /\ peer[up(c)] = "Connected" /\ peer[down(c)] = "Connected"
        /\ AllGame(wire[up(c)]) /\ AllGame(wire[down(c)])
        /\ Leads(table[c][Server], table[Server][c], Len(wire[up(c)]))
        /\ Leads(table[Server][c], table[c][Server], Len(wire[down(c)]))
    BY <2>1 DEF InStep, IsSwitched, Answering
  <2>8. Flowing(table[Server], c, Server, table[c][Server]) /\ table[Server] \in Table(Server)
    BY <1>2, <1>7, <2>7, UpFlows DEF Hearing
  <2>9. /\ t \in Calls /\ Carried(c, Server, Now, t, packets) /\ Reads(table[Server], c, t.wire[up(c)])
        /\ Ready(table[Server], c, t.wire[up(c)], t.table[c][Server])
        /\ Resembles(t.table[c][Server], table[c][Server])
    BY <2>6, <2>7, <2>8 DEF ClientSays, Apart
  <2>10. LastIn(Upward(c) \o packets, "RequestNetworkSettings") /\ Upward(c) \o packets = <<q>>
    <3>1. PICK a \in Seq(Sign) : a = packets
      BY PacketsAreSigns
    <3>2. <<>> \o a = a
      BY ConcatEmptySeq
    <3>3. Upward(c) \o packets = <<q>>
      BY <2>5, <2>7, <3>1, <3>2
    <3> QED BY <3>3, LastInOne
  <2>11. Uttered(c, packets)
    BY <1>1, <2>1, <2>9, <2>10, UpSent
  <2>12. Ends(c)'
    BY <1>2, <2>11, ClientHearsEnds DEF Good, Uttered, Hearing
  <2>13. InStep(c)'
    <3>1. /\ peer'[up(c)] = "Connected" /\ peer'[down(c)] = "Connected"
      BY <2>7 DEF ClientHears
    <3>2. IsSwitched(table'[c], Server)
      <4>1. IsSwitched(table[c], Server)
        BY <2>1 DEF InStep
      <4> QED BY <1>4, <4>1 DEF IsSwitched, Resembles
    <3>3. IsSwitched(table'[Server], c)
      BY <2>1 DEF InStep, ClientHears
    <3>4. AllGame(wire'[up(c)]) /\ AllGame(wire'[down(c)])
      BY <2>7, <2>11 DEF Uttered, ClientHears
    <3>5. Leads(table'[c][Server], table'[Server][c], Len(wire'[up(c)]))
      <4>1. PICK v \in Seq(Message) : v = wire'[up(c)]
        BY <1>3, <2>9 DEF Become, Calls
      <4>2. ~ Opens(v)
        BY <3>4, <4>1, GameIs
      <4> QED BY <2>9, <4>1, <4>2 DEF Ready, Become, ClientHears
    <3>6. Leads(table'[Server][c], table'[c][Server], Len(wire'[down(c)]))
      <4>1. PICK k : k = table'[c][Server] /\ Resembles(k, table[c][Server])
        BY <2>9 DEF Become
      <4>2. Header(k) = Header(table[c][Server])
        BY <4>1 DEF Header, Resembles
      <4>3. Leads(table[Server][c], k, Len(wire[down(c)]))
        BY <2>7, <4>1, <4>2 DEF Leads, Resembles
      <4> QED BY <4>1, <4>3 DEF ClientHears
    <3>7. /\ c \in DOMAIN clients' /\ clients'[c].state = Behind[f]
          /\ (clients'[c].chunks_sent => clients'[c].state = "Spawned")
      BY <2>1, <2>2 DEF InStep, Answering, ClientHears
    <3>8. Asking(c, g)'
      <4>1. Upward(c)' = <<Asks[g]>>
        BY <2>4, <2>10, <2>11 DEF Uttered
      <4>2. Marks(sent'[down(c)]) = SubSeq(Story, 1, Number[g])
        BY <2>1, <2>2, <2>3 DEF Answering, Follows, ClientHears
      <4>3. clients'[c].state = Before[g]
        BY <2>3, <3>7 DEF Follows
      <4> QED BY <2>1, <4>1, <4>2, <4>3 DEF Asking
    <3>9. phase'[c] \in DOMAIN Asks /\ Asking(c, phase[c])'
      BY <2>6, <3>8
    <3> QED BY <3>1, <3>2, <3>3, <3>4, <3>5, <3>6, <3>7, <3>9 DEF InStep
  <2> QED BY <1>2, <1>5, <2>11, <2>12, <2>13 DEF Good, Turn, Uttered
<1> QED BY <1>6, <1>7

LEMMA ClientIgnores ==
    ASSUME TypeInv, NEW c \in Client, Good(c), NEW y \in Packet, y \notin DOMAIN Reply,
           ClientHears(c, y), phase' = phase, table' = table, wire' = wire, sent' = sent
    PROVE  Good(c)'
<1>1. y \in Sign /\ y # "Connected" /\ y \notin Steps /\ y # "NetworkSettings"
  <2>1. "NetworkSettings" \in DOMAIN Reply
    BY StepsArePackets DEF Steps
  <2> QED BY <2>1, StepsArePackets DEF Steps
<1>2. Hearing(c, y) /\ Script(c)'
  BY <1>1, ClientHearing, ClientScript
<1>3. HearsServer(c)'
  <2>1. \A p : Resembles(p, p)
    BY DEF Resembles
  <2> QED BY <1>1, <2>1, ClientHearsServer
<1>4. CASE Server \notin running
  BY <1>2, <1>3, <1>4, ServerGone DEF Hearing
<1>5. CASE Server \in running
  <2>1. /\ Greets(c) \/ Switches(c) \/ InStep(c)
        /\ sent[up(c)] = seen[up(c)] \o Letters(Upward(c)) /\ Marks(Downward(c)') = Marks(Downward(c))
    BY <1>1, <1>5, ClientTurn
  <2>2. Upward(c)' = Upward(c)
    BY ClientLink DEF Upward, Coming, ClientHears
  <2>3. Ends(c)'
    BY <1>2, ClientHearsEnds DEF Good, Hearing
  <2>4. HeardByServer(c)'
    BY <2>2 DEF Good, HeardByServer, ClientHears
  <2>5. CASE Greets(c)
    <3>1. \A a : Awaited(c, a) => Awaited(c, a)'
      BY <2>2 DEF Awaited, ClientHears
    <3>2. \A a : Met(c, a) => Met(c, a)'
      BY <2>2 DEF Met, Fresh, ClientHears
    <3>3. Greets(c)'
      BY <2>1, <2>5, <3>1, <3>2 DEF Greets, ClientHears
    <3> QED BY <1>2, <1>3, <2>1, <2>2, <2>3, <2>4, <3>3 DEF Good, Turn, ClientHears
  <2>6. CASE Switches(c)
    <3>1. Switches(c)'
      BY <2>1, <2>2, <2>6 DEF Switches, ClientHears
    <3> QED BY <1>2, <1>3, <2>1, <2>2, <2>3, <2>4, <3>1 DEF Good, Turn, ClientHears
  <2>7. CASE InStep(c)
    <3>1. \A f : Asking(c, f) => Asking(c, f)'
      BY <2>1, <2>2 DEF Asking, ClientHears
    <3>2. \A f : Answering(c, f) => Answering(c, f)'
      BY <2>1, <2>2 DEF Answering, ClientHears
    <3>3. \A f : Playing(c, f) => Playing(c, f)'
      BY <2>1, <2>2 DEF Playing, ClientHears
    <3>4. InStep(c)'
      BY <2>7, <3>1, <3>2, <3>3 DEF InStep, ClientHears
    <3> QED BY <1>2, <1>3, <2>1, <2>2, <2>3, <2>4, <3>4 DEF Good, Turn, ClientHears
  <2> QED BY <2>1, <2>5, <2>6, <2>7
<1> QED BY <1>4, <1>5

-----------------------------------------------------------------------------
(* The end of a process.                                                   *)
Byes == {<<>>, <<Plain("DisconnectionNotification")>>}

LEMMA ByesAre ==
    ASSUME NEW bye \in Byes
    PROVE  /\ bye \in Seq(Message) /\ Spoken(bye) = <<>>
           /\ \A i \in 1 .. Len(bye) : i = Len(bye) /\ bye[i].kind = "DisconnectionNotification"
<1>1. PICK m \in Message : m = Plain("DisconnectionNotification")
  BY PlainType DEF Plains
<1>2. m.kind = "DisconnectionNotification"
  BY <1>1 DEF Plain
<1>3. PICK one \in Seq(Message) : one = <<m>>
  BY OneIsIn
<1>4. PICK none \in Seq(Message) : none = <<>>
  <2>1. <<>> \in Seq(Message)
    OBVIOUS
  <2> QED BY <2>1
<1>5. Spoken(one) = <<>> /\ Spoken(none) = <<>>
  <2>1. Says[m] = <<>>
    <3>1. m.kind \notin Accepting
      BY <1>2 DEF Accepting
    <3> QED BY <1>2, <3>1 DEF Says
  <2> QED BY <1>3, <1>4, <2>1, SpokenIs
<1>6. Len(one) = 1 /\ one[1] = m /\ Len(none) = 0
  BY <1>3, <1>4
<1>7. bye = one \/ bye = none
  BY <1>1, <1>3, <1>4 DEF Byes
<1>8. CASE bye = one
  <2>1. \A i \in 1 .. Len(one) : i = Len(one) /\ one[i].kind = "DisconnectionNotification"
    BY <1>2, <1>6
  <2> QED BY <1>5, <1>8, <2>1
<1>9. CASE bye = none
  <2>1. \A i \in 1 .. Len(none) : i = Len(none) /\ none[i].kind = "DisconnectionNotification"
    BY <1>6
  <2> QED BY <1>5, <1>9, <2>1
<1> QED BY <1>7, <1>8, <1>9

LEMMA ByeReads ==
    ASSUME NEW T, NEW r, NEW w \in Seq(Message), Reads(T, r, w), ~ Farewell(w), NEW bye \in Byes
    PROVE  Reads(T, r, w \o bye) /\ Spoken(w \o bye) = Spoken(w)
<1>1. bye \in Seq(Message) /\ Spoken(bye) = <<>>
  BY ByesAre
<1>2. PICK v \in Seq(Message) : v = w \o bye
  BY <1>1, ConcatProperties
<1>3. Joins(w, bye, v) /\ Len(w) \in Nat /\ Len(bye) \in Nat
  BY <1>1, <1>2, JoinsIs
<1>4. Spoken(v) = Spoken(w)
  <2>1. PICK s \in Seq(Sign) : s = Spoken(w)
    BY SpokenIs
  <2>2. s \o <<>> = s
    BY ConcatEmptySeq
  <2> QED BY <1>1, <1>2, <2>1, <2>2, SpokenIs
<1>5. ASSUME NEW i \in 1 .. Len(v)
      PROVE  /\ v[i].kind \in Accepting => i = 1 /\ v[i].kind = Opener(r)
             /\ v[i].kind = "DisconnectionNotification" => i = Len(v)
             /\ v[i].kind = "GamePacket" => Fine(T, r, v, i)
  <2>1. Len(v) = Len(w) + Len(bye)
    BY <1>3 DEF Joins
  <2>2. CASE i <= Len(w)
    <3>1. i \in 1 .. Len(w) /\ v[i] = w[i]
      BY <1>3, <2>2 DEF Joins
    <3>2. v[i].kind # "DisconnectionNotification"
      BY <3>1 DEF Farewell
    <3>3. /\ w[i].kind \in Accepting => i = 1 /\ w[i].kind = Opener(r)
          /\ w[i].kind = "GamePacket" => Fine(T, r, w, i)
      BY <3>1 DEF Reads
    <3>4. Opens(v) <=> Opens(w)
      <4>1. 1 \in 1 .. Len(w) /\ Len(w) > 0 /\ Len(v) > 0
        BY <1>3, <2>1, <3>1
      <4>2. v[1] = w[1]
        BY <1>3, <4>1 DEF Joins
      <4> QED BY <4>1, <4>2 DEF Opens
    <3>5. Fine(T, r, w, i) => Fine(T, r, v, i)
      BY <3>1, <3>4 DEF Fine
    <3> QED BY <3>1, <3>2, <3>3, <3>5
  <2>3. CASE i > Len(w)
    <3>1. i - Len(w) \in 1 .. Len(bye) /\ i = Len(w) + (i - Len(w))
      BY <1>3, <2>1, <2>3
    <3>2. v[i] = bye[i - Len(w)]
      BY <1>3, <3>1 DEF Joins
    <3>3. i - Len(w) = Len(bye) /\ v[i].kind = "DisconnectionNotification"
      BY <3>1, <3>2, ByesAre
    <3>4. v[i].kind \notin Accepting /\ v[i].kind # "GamePacket"
      BY <3>3 DEF Accepting
    <3>5. i = Len(v)
      BY <1>3, <2>1, <3>3
    <3> QED BY <3>4, <3>5
  <2>4. i <= Len(w) \/ i > Len(w)
    BY <1>3
  <2> QED BY <2>2, <2>3, <2>4
<1>6. Reads(T, r, v)
  BY <1>5 DEF Reads
<1> QED BY <1>2, <1>4, <1>6

\* What Ended says, link by link.
LEMMA EndedIs ==
    ASSUME TypeInv, NEW h \in Handler, NEW bye \in Byes, Ended(h, bye)
    PROVE  /\ running' = running \ {h} /\ events'[h] = <<>> /\ table'[h] = <<>>
           /\ \A g \in Handler : g # h => events'[g] = events[g] /\ table'[g] = table[g]
           /\ \A r \in Remotes(h) :
                 /\ peer'[<<h, r>>] = "None" /\ peer'[<<r, h>>] = peer[<<r, h>>]
                 /\ wire'[<<r, h>>] = <<>>
                 /\ wire'[<<h, r>>] = IF peer[<<h, r>>] = "Connected" THEN wire[<<h, r>>] \o bye
                                      ELSE wire[<<h, r>>]
           /\ \A l \in Link : l[1] # h /\ l[2] # h => peer'[l] = peer[l] /\ wire'[l] = wire[l]
<1>1. bye \in Seq(Message)
  BY ByesAre
<1>2. \A g \in Handler : g # h => events'[g] = events[g] /\ table'[g] = table[g]
  BY <1>1, EndedType
<1>3. running' = running \ {h} /\ events'[h] = <<>> /\ table'[h] = <<>>
  BY DEF Ended, TypeInv, Tables
<1>4. \A l \in Link :
        /\ peer'[l] = IF l[1] = h THEN "None" ELSE peer[l]
        /\ wire'[l] = IF l[1] = h /\ peer[l] = "Connected" THEN wire[l] \o bye
                      ELSE IF l[2] = h THEN <<>> ELSE wire[l]
  BY DEF Ended
<1>5. ASSUME NEW r \in Remotes(h)
      PROVE  /\ peer'[<<h, r>>] = "None" /\ peer'[<<r, h>>] = peer[<<r, h>>]
             /\ wire'[<<r, h>>] = <<>>
             /\ wire'[<<h, r>>] = IF peer[<<h, r>>] = "Connected" THEN wire[<<h, r>>] \o bye
                                  ELSE wire[<<h, r>>]
  <2>1. <<h, r>> \in Link /\ <<r, h>> \in Link /\ h # r
    BY RemotesLink
  <2> QED BY <1>4, <2>1
<1> QED BY <1>2, <1>3, <1>4, <1>5

LEMMA ClientEnds ==
    ASSUME TypeInv, GoodInv, NEW c \in Client, NEW bye \in Byes, Ended(c, bye), phase'[c] = "off",
           \A q \in Client : q # c => phase'[q] = phase[q],
           UNCHANGED <<mishap, sent, seen, clients>>
    PROVE  GoodInv'
<1>1. mishap = "fine" /\ \A q \in Client : Good(q)
  BY DEF GoodInv
<1>2. /\ c \in Handler /\ Server \in Handler /\ c # Server /\ Server \in Remotes(c)
      /\ up(c) \in Link /\ up(c) = <<c, Server>> /\ down(c) = <<Server, c>>
  BY ClientLink
<1>3. /\ running' = running \ {c} /\ events'[c] = <<>> /\ table'[c] = <<>>
      /\ events'[Server] = events[Server] /\ table'[Server] = table[Server]
      /\ peer'[up(c)] = "None" /\ peer'[down(c)] = peer[down(c)]
      /\ wire'[up(c)] = IF peer[up(c)] = "Connected" THEN wire[up(c)] \o bye ELSE wire[up(c)]
  BY <1>2, EndedIs
<1>4. Good(c)'
  <2>1. HearsServer(c)' /\ Turn(c)'
    BY <1>3 DEF HearsServer, Turn
  <2>2. HeardByServer(c)'
    <3> SUFFICES ASSUME Server \in running PROVE HeardByServer(c)'
      BY <1>3 DEF HeardByServer
    <3>1. PICK w \in Seq(Message) : w = wire[up(c)]
      BY <1>2 DEF TypeInv
    <3>2. Reads(table[Server], c, w) /\ LastIn(Upward(c), "RequestNetworkSettings")
      BY <1>1, <3>1 DEF Good, HeardByServer
    <3>3. CASE peer[up(c)] = "Connected"
      <4>1. phase[c] # "off"
        BY <1>1, <3>3 DEF Good, Ends, IsOff
      <4>2. ~ Farewell(w)
        BY <1>1, <3>1, <4>1 DEF Good, Ends
      <4>3. Reads(table[Server], c, w \o bye) /\ Spoken(w \o bye) = Spoken(w)
        BY <3>2, <4>2, ByeReads
      <4>4. Upward(c)' = Upward(c)
        BY <1>2, <1>3, <3>1, <3>3, <4>3 DEF Upward, Coming
      <4> QED BY <1>3, <3>1, <3>2, <3>3, <4>3, <4>4 DEF HeardByServer
    <3>4. CASE peer[up(c)] # "Connected"
      <4>1. Upward(c)' = Upward(c)
        BY <1>2, <1>3, <3>4 DEF Upward, Coming
      <4> QED BY <1>3, <3>1, <3>2, <3>4, <4>1 DEF HeardByServer
    <3> QED BY <3>3, <3>4
  <2>3. Ends(c)'
    <3>1. Heard(c, Server, <<>>) = <<>> /\ ~ Leaves(<<>>, Server) /\ Server \notin DOMAIN <<>>
      BY HeardIs DEF Leaves
    <3>2. IsOff(c)'
      BY <1>3, <3>1 DEF IsOff
    <3>3. Server \in running' <=> Server \in running
      BY <1>2, <1>3
    <3> QED BY <1>1, <1>3, <3>1, <3>2, <3>3 DEF Good, Ends
  <2>4. Script(c)'
    BY <1>1 DEF Good, Script
  <2> QED BY <2>1, <2>2, <2>3, <2>4 DEF Good
<1>5. ASSUME NEW q \in Client, q # c PROVE Good(q)'
  <2>1. /\ q \in Handler /\ q # Server /\ up(q) \in Link /\ down(q) \in Link
        /\ up(q)[1] = q /\ up(q)[2] = Server /\ down(q)[1] = Server /\ down(q)[2] = q
    BY ClientLink
  <2>2. \A l \in {up(q), down(q)} : peer'[l] = peer[l] /\ wire'[l] = wire[l]
    BY <1>2, <1>5, <2>1, EndedIs
  <2>3. events'[q] = events[q] /\ table'[q] = table[q]
    BY <1>2, <1>5, <2>1, EndedIs
  <2>4. Untouched(q)
    BY <1>2, <1>3, <1>5, <2>1, <2>2, <2>3 DEF Untouched
  <2> QED BY <1>1, <2>4, UntouchedGood
<1> QED BY <1>1, <1>4, <1>5 DEF GoodInv

LEMMA ServerEnds ==
    ASSUME TypeInv, GoodInv, NEW bye \in Byes, Ended(Server, bye),
           \A q \in Client : phase'[q] = phase[q], UNCHANGED <<mishap, sent, seen>>
    PROVE  GoodInv'
<1>1. mishap = "fine" /\ \A q \in Client : Good(q)
  BY DEF GoodInv
<1>2. ASSUME NEW c \in Client PROVE Good(c)'
  <2>1. /\ c \in Handler /\ Server \in Handler /\ c # Server /\ c \in Remotes(Server)
        /\ down(c) \in Link /\ up(c) = <<c, Server>> /\ down(c) = <<Server, c>>
    BY ClientLink
  <2>2. /\ running' = running \ {Server} /\ table'[Server] = <<>>
        /\ events'[c] = events[c] /\ table'[c] = table[c]
        /\ peer'[down(c)] = "None" /\ peer'[up(c)] = peer[up(c)] /\ wire'[up(c)] = <<>>
        /\ wire'[down(c)] = IF peer[down(c)] = "Connected" THEN wire[down(c)] \o bye ELSE wire[down(c)]
    BY <2>1, EndedIs
  <2>3. (c \in running' <=> c \in running) /\ Server \notin running' /\ Server \in Handler
    BY <2>1, <2>2
  <2>4. HeardByServer(c)' /\ Turn(c)'
    BY <2>3 DEF HeardByServer, Turn
  <2>5. PICK w \in Seq(Message) : w = wire[down(c)]
    BY <2>1 DEF TypeInv
  <2>6. Downward(c)' = Downward(c) /\ HearsServer(c)'
    <3>1. CASE peer[down(c)] = "Connected" /\ c \in running /\ Server \in running
      <4>1. ~ Farewell(w)
        BY <1>1, <2>5, <3>1 DEF Good, Ends
      <4>2. Reads(table[c], Server, w) /\ LastIn(Downward(c), "NetworkSettings")
        BY <1>1, <2>5, <3>1 DEF Good, HearsServer
      <4>3. Reads(table[c], Server, w \o bye) /\ Spoken(w \o bye) = Spoken(w)
        BY <4>1, <4>2, ByeReads
      <4>4. Downward(c)' = Downward(c)
        BY <2>1, <2>2, <2>5, <3>1, <4>3 DEF Downward, Coming
      <4> QED BY <2>2, <2>5, <3>1, <4>2, <4>3, <4>4 DEF HearsServer
    <3>2. CASE peer[down(c)] # "Connected"
      <4>1. Downward(c)' = Downward(c)
        BY <2>1, <2>2, <3>2 DEF Downward, Coming
      <4> QED BY <1>1, <2>2, <2>3, <3>2, <4>1 DEF Good, HearsServer
    <3>3. CASE peer[down(c)] = "Connected" /\ c \notin running
      <4>1. HearsServer(c)'
        BY <2>3, <3>3 DEF HearsServer
      <4>2. Spoken(w \o bye) = Spoken(w)
        <5>1. PICK s \in Seq(Sign) : s = Spoken(w)
          BY SpokenIs
        <5>2. s \o <<>> = s
          BY ConcatEmptySeq
        <5> QED BY <5>1, <5>2, ByesAre, SpokenIs
      <4>3. Downward(c)' = Downward(c)
        BY <2>1, <2>2, <2>5, <3>3, <4>2 DEF Downward, Coming
      <4> QED BY <4>1, <4>3
    <3>4. Server \notin running => peer[down(c)] = "None"
      BY <1>1 DEF Good, Ends
    <3> QED BY <3>1, <3>2, <3>3, <3>4
  <2>7. Ends(c)'
    <3>1. phase[c] = "off" => IsOff(c)'
      <4> SUFFICES ASSUME phase[c] = "off" PROVE IsOff(c)'
        OBVIOUS
      <4>1. IsOff(c)
        BY <1>1 DEF Good, Ends
      <4> QED BY <2>2, <2>3, <4>1 DEF IsOff
    <3>2. c \notin DOMAIN <<>>
      OBVIOUS
    <3> QED BY <1>1, <2>2, <2>3, <3>1, <3>2 DEF Good, Ends
  <2>8. Script(c)'
    BY <1>1, <2>6 DEF Good, Script
  <2> QED BY <2>4, <2>6, <2>7, <2>8 DEF Good
<1> QED BY <1>1, <1>2 DEF GoodInv

-----------------------------------------------------------------------------
(* The user of the client c looks at e.                                    *)
ClientLook(c, e) ==
    /\ c \in running /\ running' = running /\ peer' = peer /\ mishap' = mishap
    /\ events'[Server] = events[Server] /\ events'[c] \in Seq(Event(c))
    /\ seen'[up(c)] = seen[up(c)]
    /\ seen'[down(c)] = IF e.type = "PacketReceived" THEN Append(seen[down(c)], e.packet)
                        ELSE seen[down(c)]
    /\ Heard(c, Server, events[c]) = Tells(c, Server)[e] \o Heard(c, Server, events'[c])
    /\ Leaves(events'[c], Server) => Leaves(events[c], Server)
    /\ \A q \in Client : q # c => /\ events'[q] = events[q]
                                  /\ seen'[up(q)] = seen[up(q)] /\ seen'[down(q)] = seen[down(q)]

LEMMA ClientLookIs ==
    ASSUME TypeInv, NEW c \in Client, events[c] # <<>>, NEW e, e = Head(events[c]), Looks(c, e)
    PROVE  ClientLook(c, e) /\ e \in Event(c) /\ e.remote = Server
<1>1. /\ c \in Handler /\ Server \in Handler /\ c # Server /\ Remotes(c) = {Server}
      /\ up(c) \in Link /\ down(c) \in Link /\ up(c) = <<c, Server>> /\ down(c) = <<Server, c>>
  BY ClientLink
<1>2. PICK evs \in Seq(Event(c)) : evs = events[c]
  BY <1>1 DEF TypeInv
<1>3. /\ c \in running /\ running' = running /\ peer' = peer /\ mishap' = mishap
      /\ events'[c] = Tail(evs) /\ events'[c] \in Seq(Event(c)) /\ e \in Event(c)
      /\ \A g \in Handler : g # c => events'[g] = events[g]
  BY <1>1, <1>2, LooksType
<1>4. evs # <<>>
  BY <1>2
<1>5. /\ Heard(c, Server, evs) = Tells(c, Server)[Head(evs)] \o Heard(c, Server, Tail(evs))
      /\ Leaves(Tail(evs), Server) => Leaves(evs, Server)
  BY <1>4, HeardHead
<1>6. e.remote = Server
  BY <1>1, <1>3 DEF Event
<1>7. \A l \in Link : seen'[l] = IF e.type = "PacketReceived" /\ l = <<Server, c>>
                                 THEN Append(seen[l], e.packet) ELSE seen[l]
  BY <1>6 DEF TypeInv, Looks
<1>8. ASSUME NEW q \in Client, q # c
      PROVE  events'[q] = events[q] /\ seen'[up(q)] = seen[up(q)] /\ seen'[down(q)] = seen[down(q)]
  <2>1. /\ q \in Handler /\ q # Server
        /\ up(q) \in Link /\ down(q) \in Link /\ up(q) = <<q, Server>> /\ down(q) = <<Server, q>>
    BY ClientLink
  <2>2. up(q) # <<Server, c>> /\ down(q) # <<Server, c>>
    BY <1>8, <2>1
  <2> QED BY <1>3, <1>7, <1>8, <2>1, <2>2
<1>9. seen'[up(c)] = seen[up(c)]
  <2>1. up(c) # <<Server, c>>
    BY <1>1
  <2> QED BY <1>1, <1>7, <2>1
<1>10. seen'[down(c)] = IF e.type = "PacketReceived" THEN Append(seen[down(c)], e.packet)
                        ELSE seen[down(c)]
  BY <1>1, <1>7
<1> QED BY <1>1, <1>2, <1>3, <1>5, <1>6, <1>8, <1>9, <1>10 DEF ClientLook

LEMMA ClientHearsIs ==
    ASSUME TypeInv, NEW c \in Client, NEW e \in Event(c), e.remote = Server, ClientLook(c, e),
           e.type # "Disconnected", clients' = clients,
           table'[Server] = table[Server], wire'[down(c)] = wire[down(c)], sent'[down(c)] = sent[down(c)]
    PROVE  /\ e.type = "Connected" => ClientHears(c, "Connected")
           /\ e.type = "PacketReceived" => ClientHears(c, e.packet) /\ e.packet \in Packet
<1>1. CASE e.type = "Connected"
  <2>1. Tells(c, Server)[e] = <<"Connected">>
    BY <1>1, TellsConnected
  <2>2. e.type # "PacketReceived"
    BY <1>1
  <2>3. ClientHears(c, "Connected")
    BY <2>1, <2>2 DEF ClientLook, ClientHears
  <2> QED BY <2>2, <2>3
<1>2. CASE e.type = "PacketReceived"
  <2>1. Tells(c, Server)[e] = <<e.packet>> /\ e.packet \in Packet
    BY <1>2, TellsReceived
  <2>2. e.type # "Connected"
    BY <1>2
  <2>3. e.packet # "Connected"
    BY <2>1 DEF Packet
  <2>4. Tells(c, Server)[e] = <<e.packet>>
    BY <2>1
  <2>5. seen'[down(c)] = IF e.packet = "Connected" THEN seen[down(c)] ELSE Append(seen[down(c)], e.packet)
    BY <1>2, <2>3 DEF ClientLook
  <2>6. ClientHears(c, e.packet)
    BY <2>4, <2>5 DEF ClientLook, ClientHears
  <2> QED BY <2>1, <2>2, <2>6
<1>3. e.type = "Connected" \/ e.type = "PacketReceived" \/ (e.type # "Connected" /\ e.type # "PacketReceived")
  OBVIOUS
<1> QED BY <1>1, <1>2, <1>3

\* The other clients do not notice.
LEMMA OthersGood ==
    ASSUME TypeInv, NEW c \in Client, NEW e, ClientLook(c, e), clients' = clients,
           NEW t, Apart(c, Server, t), Become(t),
           NEW q \in Client, q # c, phase'[q] = phase[q], Good(q)
    PROVE  Good(q)'
<1>1. /\ q \in Handler /\ Server \in Handler /\ q # Server /\ c # Server
      /\ up(q) \in Link /\ down(q) \in Link /\ up(q) = <<q, Server>> /\ down(q) = <<Server, q>>
  BY ClientLink
<1>2. table'[q] = table[q] /\ table'[Server] = table[Server]
  BY <1>1 DEF Apart, Become
<1>3. \A l \in {up(q), down(q)} : wire'[l] = wire[l] /\ sent'[l] = sent[l]
  <2>1. up(q) # <<c, Server>> /\ down(q) # <<c, Server>>
    BY <1>1
  <2> QED BY <1>1, <2>1 DEF Apart, Become
<1>4. Untouched(q)
  BY <1>2, <1>3 DEF Untouched, ClientLook
<1> QED BY <1>4, UntouchedGood

LEMMA ClientHandlesGood ==
    ASSUME Uncompressing, TypeInv, GoodInv, NEW c \in Client, events[c] # <<>>,
           ClientHandles(c, Head(events[c]))
    PROVE  GoodInv'
<1>1. mishap = "fine" /\ \A q \in Client : Good(q)
  BY DEF GoodInv
<1>2. PICK e : e = Head(events[c])
  OBVIOUS
<1>3. /\ c \in Handler /\ Server \in Handler /\ c # Server /\ Server \in Remotes(c)
      /\ down(c) \in Link /\ down(c) = <<Server, c>>
  BY ClientLink
<1>4. phase \in [Client -> Phase]
  BY DEF TypeInv
<1>5. ASSUME Looks(c, e), clients' = clients, NEW t, Apart(c, Server, t), Become(t),
             \A q \in Client : q # c => phase'[q] = phase[q]
      PROVE  /\ mishap' = "fine" /\ \A q \in Client : q # c => Good(q)'
             /\ e \in Event(c) /\ e.remote = Server
             /\ e.type = "Connected" => ClientHears(c, "Connected")
             /\ e.type = "PacketReceived" => ClientHears(c, e.packet) /\ e.packet \in Packet
  <2>1. ClientLook(c, e) /\ e \in Event(c) /\ e.remote = Server
    BY <1>2, <1>5, ClientLookIs
  <2>2. mishap' = "fine"
    BY <1>1, <2>1 DEF ClientLook
  <2>3. \A q \in Client : q # c => Good(q)'
    BY <1>1, <1>5, <2>1, OthersGood
  <2>4. down(c) # <<c, Server>>
    BY <1>3
  <2>5. table'[Server] = table[Server] /\ wire'[down(c)] = wire[down(c)] /\ sent'[down(c)] = sent[down(c)]
    BY <1>3, <1>5, <2>4 DEF Apart, Become
  <2>6. CASE e.type # "Disconnected"
    BY <1>5, <2>1, <2>2, <2>3, <2>5, <2>6, ClientHearsIs
  <2>7. CASE e.type = "Disconnected"
    <3>1. e.type # "Connected" /\ e.type # "PacketReceived"
      BY <2>7
    <3> QED BY <2>1, <2>2, <2>3, <3>1
  <2> QED BY <2>6, <2>7
<1>6. CASE /\ e.type = "Connected" /\ Looks(c, e) /\ clients' = clients
           /\ phase' = [phase EXCEPT ![c] = "settings"]
           /\ Become(SendBatchTo(c, {Server}, Now, <<"RequestNetworkSettings">>))
  <2>1. PICK q \in Packet : q = "RequestNetworkSettings"
    BY DEF Packet
  <2>2. PICK packets \in Seq(Packet) : packets = <<q>> /\ packets # <<>>
    <3>1. <<q>> \in Seq(Packet) /\ <<q>> # <<>>
      BY PacketSign
    <3> QED BY <3>1
  <2>3. PICK t : t = SendBatchTo(c, {Server}, Now, packets)
    OBVIOUS
  <2>4. ClientSays(c, "Connected", packets, t)
    BY <2>2, <2>3, ClientGreetsParts
  <2>5. Become(t)
    BY <1>6, <2>1, <2>2, <2>3
  <2>6. phase'[c] = "settings" /\ \A p \in Client : p # c => phase'[p] = phase[p]
    BY <1>4, <1>6
  <2>7. /\ mishap' = "fine" /\ \A p \in Client : p # c => Good(p)'
        /\ ClientHears(c, "Connected")
    BY <1>5, <1>6, <2>4, <2>5, <2>6 DEF ClientSays
  <2>8. Good(c)'
    BY <1>1, <2>1, <2>2, <2>4, <2>5, <2>6, <2>7, ClientGreets
  <2> QED BY <2>7, <2>8 DEF GoodInv
<1>7. CASE /\ e.type = "PacketReceived" /\ Looks(c, e) /\ clients' = clients
           /\ e.packet \in DOMAIN Reply
           /\ phase' = [phase EXCEPT ![c] = Reply[e.packet].phase]
           /\ Become(ClientAnswers(c, Now, e.packet))
  <2>1. PICK y \in DOMAIN Reply : y = e.packet
    BY <1>7
  <2>2. PICK t : t = ClientAnswers(c, Now, y)
    OBVIOUS
  <2>3. ClientSays(c, y, Reply[y].packets, t)
    BY <2>2, ClientAnswersParts
  <2>4. Become(t)
    BY <1>7, <2>1, <2>2
  <2>5. phase'[c] = Reply[y].phase /\ \A p \in Client : p # c => phase'[p] = phase[p]
    BY <1>4, <1>7, <2>1
  <2>6. /\ mishap' = "fine" /\ \A p \in Client : p # c => Good(p)'
        /\ ClientHears(c, y)
    BY <1>5, <1>7, <2>1, <2>3, <2>4, <2>5 DEF ClientSays
  <2>7. Reply[y].phase # "off"
    BY DEF Reply
  <2>8. CASE y = "NetworkSettings"
    <3>1. Reply[y].phase = "login" /\ Reply[y].packets = <<"Login">>
      BY <2>8 DEF Reply
    <3> QED BY <1>1, <2>3, <2>4, <2>5, <2>6, <2>8, <3>1, ClientSwitches DEF GoodInv
  <2>9. CASE y # "NetworkSettings"
    BY <1>1, <2>3, <2>4, <2>5, <2>6, <2>7, <2>9, ClientReplies DEF GoodInv
  <2> QED BY <2>8, <2>9
<1>8. CASE /\ e.type = "PacketReceived" /\ Looks(c, e) /\ clients' = clients
           /\ e.packet \notin DOMAIN Reply
           /\ UNCHANGED <<phase, table, wire, sent>>
  <2>1. PICK t \in Calls : t = Now
    BY NowCalling
  <2>2. Apart(c, Server, t) /\ Become(t)
    BY <1>8, <2>1, NowIs DEF Apart, Become
  <2>3. /\ mishap' = "fine" /\ \A p \in Client : p # c => Good(p)'
        /\ ClientHears(c, e.packet) /\ e.packet \in Packet
    BY <1>5, <1>8, <2>2
  <2>4. Good(c)'
    BY <1>1, <1>8, <2>3, ClientIgnores
  <2> QED BY <2>3, <2>4 DEF GoodInv
<1>9. CASE /\ Ended(c, <<>>) /\ phase' = [phase EXCEPT ![c] = "off"]
           /\ UNCHANGED <<mishap, sent, seen, clients>>
  <2>1. <<>> \in Byes
    BY DEF Byes
  <2>2. phase'[c] = "off" /\ \A p \in Client : p # c => phase'[p] = phase[p]
    BY <1>4, <1>9
  <2> QED BY <1>9, <2>1, <2>2, ClientEnds
<1>10. \/ /\ e.type = "Connected" /\ Looks(c, e) /\ clients' = clients
          /\ phase' = [phase EXCEPT ![c] = "settings"]
          /\ Become(SendBatchTo(c, {Server}, Now, <<"RequestNetworkSettings">>))
       \/ /\ e.type = "PacketReceived" /\ Looks(c, e) /\ clients' = clients
          /\ e.packet \in DOMAIN Reply
          /\ phase' = [phase EXCEPT ![c] = Reply[e.packet].phase]
          /\ Become(ClientAnswers(c, Now, e.packet))
       \/ /\ e.type = "PacketReceived" /\ Looks(c, e) /\ clients' = clients
          /\ e.packet \notin DOMAIN Reply
          /\ UNCHANGED <<phase, table, wire, sent>>
       \/ /\ Ended(c, <<>>) /\ phase' = [phase EXCEPT ![c] = "off"]
          /\ UNCHANGED <<mishap, sent, seen, clients>>
  BY <1>2 DEF ClientHandles
<1> QED BY <1>6, <1>7, <1>8, <1>9, <1>10

-----------------------------------------------------------------------------
(* connect.                                                                *)
Accepted == <<Plain("ConnectionRequestAccepted")>>

LEMMA AcceptedIs ==
    /\ Accepted \in Seq(Message) /\ Len(Accepted) = 1 /\ ~ Farewell(Accepted)
    /\ Spoken(Accepted) = <<"Connected">>
    /\ \A T : Reads(T, Server, Accepted)
<1> DEFINE m == Plain("ConnectionRequestAccepted")
<1>1. m \in Message
  BY PlainType DEF Plains, Accepting
<1>2. m.kind = "ConnectionRequestAccepted"
  BY DEF Plain
<1>3. m.kind \in Accepting
  BY <1>2 DEF Accepting
<1>5. Accepted = <<m>>
  BY DEF Accepted
<1> HIDE DEF m, Message
<1>4. Says[m] = <<"Connected">>
  <2>1. m.kind # "GamePacket"
    BY <1>2
  <2> QED BY <1>1, <1>3, <2>1 DEF Says
<1>6. <<m>> \in Seq(Message) /\ Len(<<m>>) = 1 /\ <<m>>[1] = m
  BY <1>1
<1>7. Spoken(<<m>>) = <<"Connected">>
  BY <1>1, <1>4, SpokenIs
<1>8. \A i \in 1 .. Len(Accepted) : i = 1 /\ Accepted[i].kind = "ConnectionRequestAccepted"
  BY <1>2, <1>5, <1>6
<1>9. Opener(Server) = "ConnectionRequestAccepted"
  BY DEF Opener
<1>10. \A T : Reads(T, Server, Accepted)
  BY <1>8, <1>9 DEF Reads
<1> QED BY <1>5, <1>6, <1>7, <1>8, <1>10 DEF Farewell

LEMMA ConnectIs ==
    ASSUME TypeInv, NEW c \in Client, Connect(c)
    PROVE  /\ Server \in running /\ events[Server] = <<>> /\ phase[c] = "off"
           /\ running' = running \union {c} /\ phase'[c] = "connecting"
           /\ UNCHANGED <<table, events, mishap, clients>>
           /\ peer'[up(c)] = "Connecting" /\ peer'[down(c)] = "Connecting"
           /\ wire'[up(c)] = <<>> /\ wire'[down(c)] = Accepted
           /\ sent'[up(c)] = <<>> /\ sent'[down(c)] = <<>>
           /\ seen'[up(c)] = <<>> /\ seen'[down(c)] = <<>>
           /\ \A q \in Client : q # c => Untouched(q)
<1>1. /\ Server \in Handler /\ c \in Handler /\ c # Server
      /\ up(c) \in Link /\ down(c) \in Link /\ up(c) = <<c, Server>> /\ down(c) = <<Server, c>>
  BY ClientLink
<1>2. up(c) # down(c)
  BY <1>1
<1>3. /\ Server \in running /\ events[Server] = <<>> /\ phase[c] = "off"
      /\ running' = running \union {c}
      /\ peer' = [peer EXCEPT ![<<c, Server>>] = "Connecting", ![<<Server, c>>] = "Connecting"]
      /\ wire' = [wire EXCEPT ![<<c, Server>>] = <<>>, ![<<Server, c>>] = Accepted]
      /\ sent' = [sent EXCEPT ![<<c, Server>>] = <<>>, ![<<Server, c>>] = <<>>]
      /\ seen' = [seen EXCEPT ![<<c, Server>>] = <<>>, ![<<Server, c>>] = <<>>]
      /\ phase' = [phase EXCEPT ![c] = "connecting"]
      /\ UNCHANGED <<table, events, mishap, clients>>
  BY DEF Connect, Accepted
<1>4. \A l \in Link :
        /\ peer'[l] = IF l \in {up(c), down(c)} THEN "Connecting" ELSE peer[l]
        /\ wire'[l] = IF l = down(c) THEN Accepted ELSE IF l = up(c) THEN <<>> ELSE wire[l]
        /\ sent'[l] = IF l \in {up(c), down(c)} THEN <<>> ELSE sent[l]
        /\ seen'[l] = IF l \in {up(c), down(c)} THEN <<>> ELSE seen[l]
  <2>1. DOMAIN peer = Link /\ DOMAIN wire = Link /\ DOMAIN sent = Link /\ DOMAIN seen = Link
    BY DEF TypeInv
  <2> QED BY <1>1, <1>2, <1>3, <2>1
<1>5. \A q \in Client : phase'[q] = IF q = c THEN "connecting" ELSE phase[q]
  BY <1>3 DEF TypeInv
<1>6. ASSUME NEW q \in Client, q # c PROVE Untouched(q)
  <2>1. /\ q \in Handler /\ q # Server
        /\ up(q) \in Link /\ down(q) \in Link /\ up(q) = <<q, Server>> /\ down(q) = <<Server, q>>
    BY ClientLink
  <2>2. up(q) \notin {up(c), down(c)} /\ down(q) \notin {up(c), down(c)}
    BY <1>1, <1>6, <2>1
  <2>3. \A l \in {up(q), down(q)} : /\ peer'[l] = peer[l] /\ wire'[l] = wire[l]
                                    /\ sent'[l] = sent[l] /\ seen'[l] = seen[l]
    BY <1>4, <2>1, <2>2
  <2>4. (q \in running' <=> q \in running) /\ (Server \in running' <=> Server \in running)
    BY <1>1, <1>3, <1>6
  <2>5. phase'[q] = phase[q]
    BY <1>5, <1>6
  <2> QED BY <1>3, <2>3, <2>4, <2>5 DEF Untouched
<1>7. phase'[c] = "connecting"
  BY <1>5
<1> QED BY <1>1, <1>2, <1>3, <1>4, <1>6, <1>7

LEMMA NothingHeard ==
    ASSUME NEW h, NEW r
    PROVE  Heard(h, r, <<>>) = <<>> /\ ~ Leaves(<<>>, r)
BY HeardIs DEF Leaves

LEMMA ConnectGood ==
    ASSUME TypeInv, GoodInv, NEW c \in Client, Connect(c)
    PROVE  GoodInv'
<1>1. /\ Server \in running /\ events[Server] = <<>> /\ phase[c] = "off"
      /\ running' = running \union {c} /\ phase'[c] = "connecting"
      /\ UNCHANGED <<table, events, mishap, clients>>
      /\ peer'[up(c)] = "Connecting" /\ peer'[down(c)] = "Connecting"
      /\ wire'[up(c)] = <<>> /\ wire'[down(c)] = Accepted
      /\ sent'[up(c)] = <<>> /\ sent'[down(c)] = <<>>
      /\ seen'[up(c)] = <<>> /\ seen'[down(c)] = <<>>
      /\ \A q \in Client : q # c => Untouched(q)
  BY ConnectIs
<1>2. mishap = "fine" /\ \A q \in Client : Good(q)
  BY DEF GoodInv
<1>3. /\ Server \notin DOMAIN table[c] /\ Heard(c, Server, events[c]) = <<>>
      /\ ~ Leaves(events[c], Server)
  BY <1>1, <1>2 DEF Good, Ends, IsOff
<1>4. /\ Heard(Server, c, events'[Server]) = <<>> /\ ~ Leaves(events'[Server], c)
      /\ Heard(c, Server, events'[c]) = <<>> /\ ~ Leaves(events'[c], Server)
  BY <1>1, <1>3, NothingHeard
<1>5. Upward(c)' = <<>> /\ Downward(c)' = <<"Connected">>
  <2>1. /\ Upward(c)' = Heard(Server, c, events'[Server]) \o Spoken(wire'[up(c)])
        /\ Downward(c)' = Heard(c, Server, events'[c]) \o Spoken(wire'[down(c)])
    BY ClientLink DEF Upward, Downward, Coming, up, down
  <2>2. /\ Spoken(wire'[up(c)]) = <<>> /\ Spoken(wire'[down(c)]) = <<"Connected">>
    BY <1>1, SpokenIs, AcceptedIs
  <2>3. <<"Connected">> \in Seq(Sign) /\ <<>> \in Seq(Sign)
    BY PacketsAreSigns
  <2>4. <<>> \o <<"Connected">> = <<"Connected">> /\ <<>> \o <<>> = <<>>
    OBVIOUS
  <2> QED BY <1>4, <2>1, <2>2, <2>4
<1>6. HearsServer(c)'
  BY <1>1, <1>5, AcceptedIs, LastInOne DEF HearsServer
<1>7. HeardByServer(c)'
  <2>1. \A T, r : Reads(T, r, <<>>)
    BY DEF Reads
  <2> QED BY <1>1, <1>5, <2>1, LastInOne DEF HeardByServer
<1>8. Ends(c)'
  <2>1. ~ Farewell(<<>>)
    BY DEF Farewell
  <2>2. c \in running' /\ Server \in running' /\ phase'[c] # "off"
    BY <1>1
  <2>3. ~ Farewell(wire'[up(c)]) /\ ~ Farewell(wire'[down(c)])
    BY <1>1, <2>1, AcceptedIs
  <2> QED BY <1>4, <2>2, <2>3 DEF Ends
<1>9. Script(c)' /\ sent'[up(c)] = seen'[up(c)] \o Letters(Upward(c)')
  <2>1. InStory(<<>>) /\ ChunkFirst(<<>>)
    <3>1. Marks(<<>>) = Prefix(0)
      BY MarksAre, StoryIs DEF Prefix
    <3>2. \E n \in 0 .. 5 : Marks(<<>>) = Prefix(n)
      BY <3>1
    <3> QED BY <3>2, InStoryIs DEF ChunkFirst
  <2>2. Letters(<<"Connected">>) = <<>> /\ Letters(<<>>) = <<>> /\ <<>> \o <<>> = <<>>
    BY LettersAre
  <2> QED BY <1>1, <1>5, <2>1, <2>2 DEF Script
<1>10. Knocks(c)'
  BY <1>1, <1>3, <1>4 DEF Knocks, Accepted
<1>11. Good(c)'
  BY <1>6, <1>7, <1>8, <1>9, <1>10 DEF Good, Turn
<1>12. ASSUME NEW q \in Client PROVE Good(q)'
  <2>1. CASE q = c
    BY <1>11, <2>1
  <2>2. CASE q # c
    BY <1>1, <1>2, <2>2, UntouchedGood
  <2> QED BY <2>1, <2>2
<1> QED BY <1>1, <1>2, <1>12 DEF GoodInv

-----------------------------------------------------------------------------
(* shutdown, and a crash.                                                  *)
LEMMA EndGood ==
    ASSUME TypeInv, GoodInv, NEW h \in Handler, NEW bye \in Byes, End(h, bye)
    PROVE  GoodInv'
<1>1. /\ Ended(h, bye)
      /\ clients' = IF h = Server THEN <<>> ELSE clients
      /\ phase' = [c \in Client |-> IF c = h THEN "off" ELSE phase[c]]
      /\ UNCHANGED <<mishap, sent, seen>>
  BY DEF End
<1>2. CASE h = Server
  <2>1. Server \notin Client
    BY ServerAssumption
  <2>2. \A q \in Client : phase'[q] = phase[q]
    BY <1>1, <1>2, <2>1
  <2>3. Ended(Server, bye)
    BY <1>1, <1>2
  <2> QED BY <1>1, <2>2, <2>3, ServerEnds
<1>3. CASE h # Server
  <2>1. h \in Client
    BY <1>3 DEF Handler
  <2>2. phase'[h] = "off" /\ \A q \in Client : q # h => phase'[q] = phase[q]
    BY <1>1, <2>1
  <2>3. UNCHANGED <<mishap, sent, seen, clients>>
    BY <1>1, <1>3
  <2> QED BY <1>1, <2>1, <2>2, <2>3, ClientEnds
<1> QED BY <1>2, <1>3

-----------------------------------------------------------------------------
(* What the server sends besides the login is no step of it.               *)
Besides(packets) ==
    /\ packets \in Seq(Packet) /\ packets # <<>>
    /\ Marks(packets) = <<>> /\ ChunkFirst(packets) /\ LastIn(packets, "NetworkSettings")

Spreads(R, packets, t) ==
    /\ Server \in running
    /\ UNCHANGED <<running, peer, events, mishap, seen, clients, phase>>
    /\ t = SendBatchTo(Server, R, Now, packets) /\ Become(t)

\* What the server's sending of it leaves of c: whatever is not sent, and the
\* processor but for what it encodes next.
SpreadParts(R, c, packets, t) ==
    /\ t \in Calls /\ table'[c] = table[c] /\ wire'[up(c)] = wire[up(c)] /\ sent'[up(c)] = sent[up(c)]
    /\ c \in DOMAIN table'[Server] <=> c \in DOMAIN table[Server]
    /\ c \in DOMAIN table[Server] => Resembles(table'[Server][c], table[Server][c])
    /\ c \notin R => Untouched(c)
    /\ ~ Goes(Server, c, Now) => wire'[down(c)] = wire[down(c)] /\ sent'[down(c)] = sent[down(c)]
    /\ Upward(c)' = Upward(c)

LEMMA ResemblesItself == \A p : Resembles(p, p)
BY DEF Resembles

LEMMA SpreadIs ==
    ASSUME TypeInv, NEW c \in Client, NEW R, NEW packets, Besides(packets), NEW t, Spreads(R, packets, t)
    PROVE  SpreadParts(R, c, packets, t)
<1>1. /\ Server \in Handler /\ c \in Handler /\ c # Server /\ Server \in Remotes(c) /\ c \in Remotes(Server)
      /\ up(c) \in Link /\ down(c) \in Link /\ up(c) = <<c, Server>> /\ down(c) = <<Server, c>>
  BY ClientLink
<1>2. PICK s \in Calls : s = Now
  BY NowCalling
<1>3. Calm(Server, R, s, t)
  BY <1>1, <1>2, SendBatchCalm DEF Spreads
<1>4. t \in Calls
  BY <1>1, <1>2, SendBatchToType DEF Spreads, Besides
<1>5. table' = t.table /\ wire' = t.wire /\ sent' = t.sent
  BY DEF Spreads, Become
<1>6. /\ table'[c] = table[c]
      /\ DOMAIN table'[Server] = DOMAIN table[Server]
      /\ \A q \in DOMAIN table[Server] :
            IF q \in R THEN Resembles(table'[Server][q], table[Server][q])
            ELSE table'[Server][q] = table[Server][q]
      /\ \A l \in Link : ~ (l[1] = Server /\ l[2] \in R /\ Goes(Server, l[2], s)) =>
                             wire'[l] = wire[l] /\ sent'[l] = sent[l]
  BY <1>1, <1>2, <1>3, <1>5, NowIs DEF Calm
<1>7. wire'[up(c)] = wire[up(c)] /\ sent'[up(c)] = sent[up(c)]
  <2>1. up(c)[1] # Server
    BY <1>1
  <2> QED BY <1>1, <1>6, <2>1
<1>8. c \notin R \/ ~ Goes(Server, c, Now) => wire'[down(c)] = wire[down(c)] /\ sent'[down(c)] = sent[down(c)]
  <2>1. down(c)[1] = Server /\ down(c)[2] = c
    BY <1>1
  <2> QED BY <1>1, <1>2, <1>6, <2>1
<1>9. c \in DOMAIN table[Server] => Resembles(table'[Server][c], table[Server][c])
  BY <1>6, ResemblesItself
<1>10. Upward(c)' = Upward(c)
  BY <1>1, <1>7 DEF Upward, Coming, Spreads
<1>11. c \notin R => Untouched(c)
  <2>1. SUFFICES ASSUME c \notin R PROVE Untouched(c)
    OBVIOUS
  <2>2. c \in DOMAIN table[Server] => table'[Server][c] = table[Server][c]
    BY <1>6, <2>1
  <2>3. \A l \in {up(c), down(c)} : wire'[l] = wire[l] /\ sent'[l] = sent[l]
    BY <1>7, <1>8, <2>1
  <2> QED BY <1>6, <2>2, <2>3 DEF Untouched, Spreads
<1> QED BY <1>4, <1>6, <1>7, <1>8, <1>9, <1>10, <1>11 DEF SpreadParts

\* What c says is understood as before.
LEMMA SpreadHeard ==
    ASSUME NEW c \in Client, Good(c), NEW R, NEW packets, NEW t, Spreads(R, packets, t),
           SpreadParts(R, c, packets, t)
    PROVE  HeardByServer(c)'
<1>1. Reads(table[Server], c, wire[up(c)]) /\ LastIn(Upward(c), "RequestNetworkSettings")
  BY DEF Good, HeardByServer, Spreads
<1>2. c \in DOMAIN table[Server] => c \in DOMAIN table'[Server] /\ Resembles(table'[Server][c], table[Server][c])
  BY DEF SpreadParts
<1>3. Reads(table'[Server], c, wire[up(c)])
  BY <1>1, <1>2, ReadsAlike
<1> QED BY <1>1, <1>3 DEF HeardByServer, SpreadParts

\* Nothing goes out to c.
LEMMA SpreadSilent ==
    ASSUME TypeInv, NEW c \in Client, Good(c), NEW R, NEW packets, NEW t, Spreads(R, packets, t),
           SpreadParts(R, c, packets, t), ~ Goes(Server, c, Now)
    PROVE  Good(c)'
<1>0. down(c) = <<Server, c>>
  BY ClientLink
<1>1. HeardByServer(c)'
  BY SpreadHeard
<1>2. wire'[down(c)] = wire[down(c)] /\ sent'[down(c)] = sent[down(c)]
  BY DEF SpreadParts
<1>3. Downward(c)' = Downward(c)
  BY <1>0, <1>2 DEF Downward, Coming, Spreads
<1>4. HearsServer(c)' /\ Ends(c)' /\ Script(c)'
  <2>1. HearsServer(c)'
    BY <1>2, <1>3 DEF Good, HearsServer, Spreads, SpreadParts
  <2>2. Ends(c)'
    BY <1>2 DEF Good, Ends, IsOff, Spreads, SpreadParts
  <2>3. Script(c)'
    BY <1>2, <1>3 DEF Good, Script, Spreads
  <2> QED BY <2>1, <2>2, <2>3
<1>5. ASSUME phase[c] # "off" PROVE (Knocks(c) \/ Greets(c))' /\ (sent[up(c)] = seen[up(c)] \o Letters(Upward(c)))'
  <2>1. /\ Knocks(c) \/ Greets(c) \/ Switches(c) \/ InStep(c)
        /\ sent[up(c)] = seen[up(c)] \o Letters(Upward(c))
    BY <1>5 DEF Good, Turn, Spreads
  <2>2. (sent[up(c)] = seen[up(c)] \o Letters(Upward(c)))'
    BY <2>1 DEF Spreads, SpreadParts
  <2>3. c \notin DOMAIN table[Server] \/ peer[down(c)] # "Connected"
    BY <1>0, GoesNow
  <2>4. ~ Switches(c) /\ ~ InStep(c)
    BY <2>3 DEF Switches, InStep, IsSwitched
  <2>5. ~ Met(c, <<>>) /\ ~ Met(c, <<"RequestNetworkSettings">>)
    BY <2>3 DEF Met, IsPlain
  <2>6. CASE Knocks(c)
    BY <1>2, <2>2, <2>6 DEF Knocks, Spreads, SpreadParts
  <2>7. CASE Greets(c)
    <3>1. Awaited(c, <<>>) => Awaited(c, <<>>)'
      BY DEF Awaited, Spreads, SpreadParts
    <3>2. Awaited(c, <<"RequestNetworkSettings">>) => Awaited(c, <<"RequestNetworkSettings">>)'
      BY DEF Awaited, Spreads, SpreadParts
    <3>3. /\ (peer[up(c)] = "Connected")' /\ IsPlain(table[c], Server)' /\ AllGame(wire[down(c)])'
          /\ (Marks(sent[down(c)]) = <<>>)'
      BY <1>2, <2>7 DEF Greets, Spreads, SpreadParts
    <3>4. \/ /\ phase'[c] = "connecting" /\ Marks(Downward(c)') = <<"Connected">> /\ Awaited(c, <<>>)
          \/ /\ phase'[c] = "settings" /\ Marks(Downward(c)') = <<>>
             /\ Awaited(c, <<"RequestNetworkSettings">>)
      BY <1>3, <2>5, <2>7 DEF Greets, Spreads
    <3>5. Greets(c)'
      BY <3>1, <3>2, <3>3, <3>4 DEF Greets
    <3> QED BY <2>2, <3>5
  <2> QED BY <2>1, <2>4, <2>6, <2>7
<1>6. Turn(c)'
  BY <1>5 DEF Turn, Spreads
<1> QED BY <1>1, <1>4, <1>6 DEF Good

\* It goes out to one that is gone.
LEMMA SpreadLost ==
    ASSUME TypeInv, NEW c \in Client, Good(c), NEW R, NEW packets, NEW t, Spreads(R, packets, t),
           SpreadParts(R, c, packets, t), Goes(Server, c, Now), phase[c] = "off"
    PROVE  Good(c)'
<1>0. down(c) = <<Server, c>>
  BY ClientLink
<1>1. HeardByServer(c)'
  BY SpreadHeard
<1>2. peer[down(c)] = "Connected"
  BY <1>0, GoesNow
<1>3. c \notin running
  BY <1>2 DEF Good, Ends, IsOff
<1>4. HearsServer(c)' /\ Turn(c)'
  BY <1>3 DEF HearsServer, Turn, Spreads
<1>5. Script(c)'
  BY DEF Good, Script, Spreads
<1>6. Ends(c)'
  BY <1>3 DEF Good, Ends, IsOff, Spreads, SpreadParts
<1> QED BY <1>1, <1>4, <1>5, <1>6 DEF Good

\* It goes out to c, in whose login the processors suit each other.
SpreadReaches(R, c, packets, t) ==
    /\ Delivered(c, packets)
    /\ Marks(Downward(c)') = Marks(Downward(c)) /\ Marks(sent'[down(c)]) = Marks(sent[down(c)])
    /\ AllGame(wire'[down(c)])
    /\ Leads(table'[Server][c], table'[c][Server], Len(wire'[down(c)]))

LEMMA SpreadDelivers ==
    ASSUME Uncompressing, TypeInv, NEW c \in Client, Good(c), NEW R, c \in R,
           NEW packets, Besides(packets), NEW t, Spreads(R, packets, t),
           SpreadParts(R, c, packets, t), phase[c] # "off",
           peer[down(c)] = "Connected", AllGame(wire[down(c)]),
           Server \in DOMAIN table[c], c \in DOMAIN table[Server],
           Leads(table[Server][c], table[c][Server], Len(wire[down(c)])),
           Lacks(Marks(Downward(c)), "NetworkSettings"), InStory(sent[down(c)])
    PROVE  SpreadReaches(R, c, packets, t)
<1>1. /\ Server \in Handler /\ c \in Handler /\ c # Server /\ Server \in Remotes(c) /\ c \in Remotes(Server)
      /\ down(c) \in Link /\ down(c) = <<Server, c>>
  BY ClientLink
<1>2. PICK s \in Calls : s = Now
  BY NowCalling
<1>3. t \in Calls /\ t = SendBatchTo(Server, R, s, packets) /\ Become(t)
  BY <1>2 DEF SpreadParts, Spreads
<1>4. table[c] \in Table(c) /\ Flowing(table[c], Server, c, table[Server][c])
  BY DownFlows DEF Spreads
<1>5. Flows(table[c], Server, c, s)
  BY <1>2, <1>4, FlowsNow
<1>6. c \in R \intersect Remotes(Server) /\ packets \in Seq(Packet) /\ packets # <<>>
  BY <1>1 DEF Besides
<1>7. Flows(table[c], Server, c, t) /\ Carried(Server, c, s, t, packets)
  BY <1>1, <1>3, <1>4, <1>5, <1>6, SendBatchSent
<1>8. Reads(table[c], Server, t.wire[down(c)]) /\ Ready(table[c], Server, t.wire[down(c)], t.table[Server][c])
  BY <1>1, <1>7 DEF Flows
<1>9. PICK m \in Seq(Sign), d \in Seq(Sign) : m = sent[down(c)] /\ d = Downward(c)
  <2>1. PICK m \in Seq(Packet) : m = sent[down(c)]
    BY <1>1 DEF TypeInv
  <2>2. m \in Seq(Sign)
    BY PacketsAreSigns
  <2>3. Downward(c) \in Seq(Sign)
    BY <1>1, ComingType DEF Downward
  <2> QED BY <2>1, <2>2, <2>3
<1>10. packets \in Seq(Sign) /\ Marks(packets) = <<>>
  BY PacketsAreSigns DEF Besides
<1>11. Marks(m) \o <<>> = Marks(m) /\ Marks(d) \o <<>> = Marks(d)
  BY MarksAre, ConcatEmptySeq
<1>12. Marks(m \o packets) = Marks(m)
  BY <1>10, <1>11, MarksAre
<1>13. InStory(sent[down(c)] \o packets)
  BY <1>9, <1>12 DEF InStory
<1>14. StaysPut(c)
  BY DEF StaysPut, Spreads, SpreadParts
<1>15. Delivered(c, packets)
  BY <1>2, <1>3, <1>7, <1>8, <1>13, <1>14, DownSent DEF Besides
<1>16. Marks(Downward(c)') = Marks(Downward(c)) /\ Marks(sent'[down(c)]) = Marks(sent[down(c)]) /\ AllGame(wire'[down(c)])
  BY <1>9, <1>10, <1>11, <1>15 DEF Delivered
<1>17. Leads(table'[Server][c], table'[c][Server], Len(wire'[down(c)]))
  <2>1. PICK w \in Seq(Message) : w = wire'[down(c)]
    BY <1>1, <1>3 DEF Become, Calls
  <2>2. ~ Opens(w)
    BY <1>16, <2>1, GameIs
  <2>3. Ready(table[c], Server, w, table'[Server][c])
    BY <1>3, <1>8, <2>1 DEF Become
  <2>4. table'[c] = table[c]
    BY <1>14 DEF StaysPut
  <2> QED BY <2>1, <2>2, <2>3, <2>4 DEF Ready
<1> QED BY <1>15, <1>16, <1>17 DEF SpreadReaches

LEMMA SpreadReached ==
    ASSUME Uncompressing, TypeInv, NEW c \in Client, Good(c), NEW R, c \in R,
           NEW packets, Besides(packets), NEW t, Spreads(R, packets, t),
           SpreadParts(R, c, packets, t), Goes(Server, c, Now), phase[c] # "off",
           c \in DOMAIN clients => clients[c].state # "WaitingForLogin"
    PROVE  Good(c)'
<1>0. /\ Server \in Handler /\ c \in Handler /\ c # Server
      /\ up(c) \in Link /\ down(c) \in Link /\ up(c) = <<c, Server>> /\ down(c) = <<Server, c>>
  BY ClientLink
<1>1. HeardByServer(c)'
  BY SpreadHeard
<1>2. peer[down(c)] = "Connected" /\ c \in DOMAIN table[Server]
  BY <1>0, GoesNow
<1>3. /\ Knocks(c) \/ Greets(c) \/ Switches(c) \/ InStep(c)
      /\ sent[up(c)] = seen[up(c)] \o Letters(Upward(c))
  BY DEF Good, Turn, Spreads
<1>4. (sent[up(c)] = seen[up(c)] \o Letters(Upward(c)))'
  BY <1>3 DEF Spreads, SpreadParts
<1>5. ~ Knocks(c) /\ ~ Awaited(c, <<>>) /\ ~ Awaited(c, <<"RequestNetworkSettings">>)
  BY <1>2 DEF Knocks, Awaited
<1>6. ~ Switches(c)
  <2>1. SUFFICES ASSUME Switches(c) PROVE FALSE
    OBVIOUS
  <2>2. c \in DOMAIN clients /\ clients[c] = [state |-> "WaitingForLogin", chunks_sent |-> FALSE]
    BY <2>1 DEF Switches
  <2>3. clients[c].state = "WaitingForLogin"
    BY <2>2
  <2> QED BY <2>2, <2>3
<1>7. InStory(sent[down(c)])
  BY DEF Good, Script
<1>8. ASSUME SpreadReaches(R, c, packets, t) PROVE HearsServer(c)' /\ Script(c)' /\ Ends(c)'
  <2>1. Farewell(wire'[down(c)]) => Farewell(wire[down(c)])
    BY <1>8 DEF SpreadReaches, Delivered
  <2>2. Ends(c)'
    BY <2>1 DEF Good, Ends, Spreads, SpreadParts
  <2> QED BY <1>8, <2>2 DEF SpreadReaches, Delivered
<1>9. c \in DOMAIN table'[Server] /\ Resembles(table'[Server][c], table[Server][c])
  BY <1>2 DEF SpreadParts
<1>10. CASE Greets(c)
  <2>1. Server \in DOMAIN table[c] /\ IsPlain(table[c], Server) /\ AllGame(wire[down(c)])
    BY <1>10 DEF Greets, IsPlain
  <2>2. \/ phase[c] = "connecting" /\ Marks(Downward(c)) = <<"Connected">> /\ Met(c, <<>>)
        \/ phase[c] = "settings" /\ Marks(Downward(c)) = <<>> /\ Met(c, <<"RequestNetworkSettings">>)
    BY <1>5, <1>10 DEF Greets
  <2>3. IsPlain(table[Server], c)
    BY <2>2 DEF Met
  <2>4. PICK a \in Processor, b \in Processor : a = table[Server][c] /\ b = table[c][Server]
    BY <1>0, <1>2, <2>1, TableAt
  <2>5. Leads(a, b, Len(wire[down(c)]))
    BY <2>1, <2>3, <2>4, PlainLeads DEF IsPlain
  <2>6. Lacks(Marks(Downward(c)), "NetworkSettings")
    <3>1. Lacks(<<"Connected">>, "NetworkSettings") /\ Lacks(<<>>, "NetworkSettings")
      BY DEF Lacks
    <3> QED BY <2>2, <3>1
  <2>7. SpreadReaches(R, c, packets, t)
    BY <1>2, <1>7, <2>1, <2>4, <2>5, <2>6, SpreadDelivers
  <2>8. IsPlain(table'[Server], c)
    BY <1>9, <2>3 DEF IsPlain, Resembles
  <2>9. \A q : Met(c, q) => Met(c, q)'
    BY <2>8 DEF Met, Fresh, Spreads, SpreadParts
  <2>10. Greets(c)'
    <3>1. /\ peer'[up(c)] = "Connected" /\ IsPlain(table'[c], Server)
          /\ AllGame(wire'[down(c)])
          /\ Marks(sent'[down(c)]) = <<>>
      BY <1>10, <2>7 DEF Greets, SpreadReaches, Spreads, SpreadParts
    <3>2. \/ phase'[c] = "connecting" /\ Marks(Downward(c)') = <<"Connected">> /\ Met(c, <<>>)'
          \/ phase'[c] = "settings" /\ Marks(Downward(c)') = <<>> /\ Met(c, <<"RequestNetworkSettings">>)'
      BY <2>2, <2>7, <2>9 DEF SpreadReaches, Spreads
    <3> QED BY <3>1, <3>2 DEF Greets
  <2> QED BY <1>1, <1>4, <1>8, <2>7, <2>10 DEF Good, Turn
<1>11. CASE InStep(c)
  <2>1. PICK f \in DOMAIN Asks : f = phase[c]
    BY <1>11 DEF InStep
  <2>2. Server \in DOMAIN table[c] /\ IsSwitched(table[Server], c) /\ AllGame(wire[down(c)])
    BY <1>11 DEF InStep, IsSwitched
  <2>3. Lacks(Marks(Downward(c)), "NetworkSettings")
    <3>1. Marks(Downward(c)) = <<>> \/ (f # "spawned" /\ Marks(Downward(c)) = <<Story[Number[f] + 1]>>)
      BY <1>11, <2>1 DEF InStep, Asking, Answering, Playing
    <3>2. f # "spawned" => Story[Number[f] + 1] # "NetworkSettings"
      <4>1. f # "spawned" => Number[f] + 1 \in 1 .. 5 /\ Number[f] + 1 # 1
        BY TurnsAre
      <4>2. Story[1] = "NetworkSettings" /\ 1 \in 1 .. 5
        BY TurnsAre
      <4> QED BY <4>1, <4>2, StoryIs
    <3> QED BY <3>1, <3>2 DEF Lacks
  <2>4. Leads(table[Server][c], table[c][Server], Len(wire[down(c)]))
    BY <1>11 DEF InStep
  <2>5. SpreadReaches(R, c, packets, t)
    BY <1>2, <1>7, <2>2, <2>3, <2>4, SpreadDelivers
  <2>6. IsSwitched(table'[Server], c)
    BY <1>9, <2>2 DEF IsSwitched, Resembles
  <2>7. Leads(table'[c][Server], table'[Server][c], Len(wire'[up(c)]))
    <3>1. Leads(table[c][Server], table[Server][c], Len(wire[up(c)]))
      BY <1>11 DEF InStep
    <3> QED BY <1>9, <3>1 DEF Leads, Header, Resembles, SpreadParts
  <2>8. /\ Asking(c, f) => Asking(c, f)'
        /\ Answering(c, f) => Answering(c, f)'
        /\ Playing(c, f) => Playing(c, f)'
    BY <2>5 DEF Asking, Answering, Playing, SpreadReaches, Spreads, SpreadParts
  <2>9. InStep(c)'
    BY <1>11, <2>1, <2>5, <2>6, <2>7, <2>8 DEF InStep, SpreadReaches, Spreads, SpreadParts
  <2> QED BY <1>1, <1>4, <1>8, <2>5, <2>9 DEF Good, Turn
<1> QED BY <1>3, <1>5, <1>6, <1>10, <1>11

LEMMA SpreadGood ==
    ASSUME Uncompressing, TypeInv, GoodInv, NEW R, NEW packets, Besides(packets),
           NEW t, Spreads(R, packets, t),
           \A c \in R \intersect DOMAIN clients : clients[c].state # "WaitingForLogin"
    PROVE  GoodInv'
<1>1. ASSUME NEW c \in Client PROVE Good(c)'
  <2>1. Good(c) /\ SpreadParts(R, c, packets, t)
    BY SpreadIs DEF GoodInv
  <2>2. CASE c \notin R
    BY <2>1, <2>2, UntouchedGood DEF SpreadParts
  <2>3. CASE ~ Goes(Server, c, Now)
    BY <2>1, <2>3, SpreadSilent
  <2>4. CASE Goes(Server, c, Now) /\ phase[c] = "off"
    BY <2>1, <2>4, SpreadLost
  <2>5. CASE c \in R /\ Goes(Server, c, Now) /\ phase[c] # "off"
    <3>1. c \in DOMAIN clients => clients[c].state # "WaitingForLogin"
      BY <2>5
    <3> QED BY <2>1, <2>5, <3>1, SpreadReached
  <2> QED BY <2>2, <2>3, <2>4, <2>5
<1> QED BY <1>1 DEF GoodInv, Spreads

LEMMA ClockIs == Besides(<<"SetTime">>)
<1>1. PICK p \in Packet : p = "SetTime"
  BY DEF Packet
<1>2. p \notin Steps /\ p # "PlayerSpawn" /\ p # "NetworkSettings"
  BY <1>1, StepsArePackets
<1>3. <<p>> \in Seq(Packet) /\ Marks(<<p>>) = <<>>
  BY <1>2, PacketSign
<1>4. ChunkFirst(<<p>>)
  BY <1>2 DEF ChunkFirst
<1> QED BY <1>1, <1>3, <1>4, LastInOne DEF Besides

LEMMA MoveIs == Besides(<<"MovePlayer", "SetTime">>)
<1>1. PICK p \in Packet, q \in Packet : p = "MovePlayer" /\ q = "SetTime"
  BY DEF Packet
<1>2. /\ p \notin Steps /\ p # "PlayerSpawn" /\ p # "NetworkSettings"
      /\ q \notin Steps /\ q # "PlayerSpawn" /\ q # "NetworkSettings"
  BY <1>1, StepsArePackets
<1>3. <<p, q>> \in Seq(Packet)
  BY TwoAre
<1>4. Marks(<<p, q>>) = <<>>
  <2>1. p \in Sign /\ q \in Sign /\ Marks(<<p>>) = <<>> /\ Marks(<<q>>) = <<>>
    BY <1>2, PacketSign
  <2>2. Marks(<<p, q>>) = Marks(<<p>>) \o Marks(<<q>>)
    BY <2>1, MarksTwo
  <2>3. <<>> \o <<>> = <<>>
    OBVIOUS
  <2> QED BY <2>1, <2>2, <2>3
<1>5. ChunkFirst(<<p, q>>)
  BY <1>2 DEF ChunkFirst
<1>6. LastIn(<<p, q>>, "NetworkSettings")
  BY <1>2, LastInTwo
<1> QED BY <1>1, <1>3, <1>4, <1>5, <1>6 DEF Besides

LEMMA ExtraSpreads ==
    ASSUME Extra, NEW R, NEW packets, Become(SendBatchTo(Server, R, Now, packets))
    PROVE  Spreads(R, packets, SendBatchTo(Server, R, Now, packets))
BY DEF Extra, Spreads

LEMMA ExtrasGood ==
    ASSUME Uncompressing, ~ BroadcastAnyTime, TypeInv, GoodInv,
           TimeSync \/ Broadcast \/ \E c \in Client : SendBatch(c)
    PROVE  GoodInv'
<1>1. CASE TimeSync
  <2>1. Extra /\ Become(SendBatchTo(Server, Spawned, Now, <<"SetTime">>))
    BY <1>1 DEF TimeSync
  <2>2. \A c \in Spawned \intersect DOMAIN clients : clients[c].state # "WaitingForLogin"
    BY DEF Spawned
  <2>3. Spreads(Spawned, <<"SetTime">>, SendBatchTo(Server, Spawned, Now, <<"SetTime">>))
    BY <2>1, ExtraSpreads
  <2> QED BY <2>2, <2>3, ClockIs, SpreadGood
<1>2. CASE Broadcast
  <2>1. PICK R : R = {r \in Remotes(Server) : peer[<<Server, r>>] # "None"}
    OBVIOUS
  <2>2. Extra /\ Become(SendBatchTo(Server, R, Now, <<"SetTime">>))
    BY <1>2, <2>1 DEF Broadcast, Broadcasted
  <2>3. \A c \in R \intersect DOMAIN clients : clients[c].state # "WaitingForLogin"
    BY <1>2 DEF Broadcast
  <2>4. Spreads(R, <<"SetTime">>, SendBatchTo(Server, R, Now, <<"SetTime">>))
    BY <2>2, ExtraSpreads
  <2> QED BY <2>3, <2>4, ClockIs, SpreadGood
<1>3. CASE \E c \in Client : SendBatch(c)
  <2>1. PICK c \in Client : SendBatch(c)
    BY <1>3
  <2>2. Extra /\ Become(SendBatchTo(Server, {c}, Now, <<"MovePlayer", "SetTime">>)) /\ c \in Spawned
    BY <2>1 DEF SendBatch
  <2>3. \A q \in {c} \intersect DOMAIN clients : clients[q].state # "WaitingForLogin"
    BY <2>2 DEF Spawned
  <2>4. Spreads({c}, <<"MovePlayer", "SetTime">>,
                SendBatchTo(Server, {c}, Now, <<"MovePlayer", "SetTime">>))
    BY <2>2, ExtraSpreads
  <2> QED BY <2>3, <2>4, MoveIs, SpreadGood
<1> QED BY <1>1, <1>2, <1>3

-----------------------------------------------------------------------------
LEMMA StartsGood == Init => GoodInv
<1> SUFFICES ASSUME Init PROVE GoodInv
  OBVIOUS
<1>1. ASSUME NEW c \in Client PROVE Good(c)
  <2>1. /\ Server \in Handler /\ c \in Handler
        /\ up(c) \in Link /\ down(c) \in Link /\ up(c) = <<c, Server>> /\ down(c) = <<Server, c>>
    BY ClientLink
  <2>2. \A l \in Link : peer[l] = "None" /\ wire[l] = <<>> /\ sent[l] = <<>> /\ seen[l] = <<>>
    BY DEF Init, HandlersInit
  <2>3. \A h \in Handler : h \in running /\ table[h] = <<>> /\ events[h] = <<>>
    BY DEF Init, HandlersInit
  <2>4. phase[c] = "off"
    BY DEF Init
  <2>5. DOMAIN <<>> = {}
    OBVIOUS
  <2>6. \A h, r : Heard(h, r, <<>>) = <<>> /\ ~ Leaves(<<>>, r)
    BY NothingHeard
  <2>7. ~ Farewell(<<>>) /\ \A T, r : Reads(T, r, <<>>)
    BY DEF Farewell, Reads
  <2>8. Upward(c) = <<>> /\ Downward(c) = <<>>
    <3>1. Spoken(<<>>) = <<>> /\ <<>> \o <<>> = <<>>
      BY SpokenIs
    <3> QED BY <2>1, <2>2, <2>3, <2>6, <3>1 DEF Upward, Downward, Coming
  <2>9. HearsServer(c) /\ HeardByServer(c)
    BY <2>1, <2>2, <2>7, <2>8, LastInOne DEF HearsServer, HeardByServer
  <2>10. Ends(c)
    <3>1. IsOff(c)
      BY <2>1, <2>2, <2>3, <2>5, <2>6 DEF IsOff
    <3> QED BY <2>1, <2>2, <2>3, <2>4, <2>6, <2>7, <3>1 DEF Ends
  <2>11. Script(c)
    <3>1. Marks(<<>>) = Prefix(0)
      BY MarksAre, StoryIs DEF Prefix
    <3>2. \E n \in 0 .. 5 : Marks(<<>>) = Prefix(n)
      BY <3>1
    <3>3. InStory(<<>>)
      BY <3>2, InStoryIs
    <3> QED BY <2>1, <2>2, <2>4, <3>3 DEF Script, ChunkFirst
  <2> QED BY <2>4, <2>9, <2>10, <2>11 DEF Good, Turn
<1>2. mishap = "fine"
  BY DEF Init, HandlersInit
<1> QED BY <1>1, <1>2 DEF GoodInv

LEMMA StaysGood ==
    ASSUME Uncompressing, ~ BroadcastAnyTime, ~ LateTaken, TypeInv, LateInv, GoodInv, [Next]_vars
    PROVE  GoodInv'
<1>1. ASSUME NEW h \in Handler, HandleNext(h) PROVE GoodInv'
  <2>1. events[h] # <<>>
    BY <1>1 DEF HandleNext
  <2>2. CASE h = Server
    <3>1. ServerHandles(Head(events[Server])) /\ events[Server] # <<>>
      BY <1>1, <2>2 DEF HandleNext
    <3> QED BY <3>1, ServerHandlesGood
  <2>3. CASE h # Server
    <3>1. h \in Client /\ ClientHandles(h, Head(events[h]))
      BY <1>1, <2>3 DEF HandleNext, Handler
    <3> QED BY <2>1, <3>1, ClientHandlesGood
  <2> QED BY <2>2, <2>3
<1>2. ASSUME NEW h \in Handler, Shutdown(h) PROVE GoodInv'
  <2>1. End(h, <<Plain("DisconnectionNotification")>>)
    BY <1>2 DEF Shutdown
  <2>2. <<Plain("DisconnectionNotification")>> \in Byes
    BY DEF Byes
  <2> QED BY <2>1, <2>2, EndGood
<1>3. ASSUME NEW c \in Client, Crash(c) PROVE GoodInv'
  <2>1. <<>> \in Byes /\ c \in Handler /\ End(c, <<>>)
    BY <1>3 DEF Byes, Crash, Handler
  <2> QED BY <2>1, EndGood
<1>4. ASSUME UNCHANGED <<running, peer, table, wire, events, mishap, sent, seen, clients, phase>>
      PROVE  GoodInv'
  <2>1. \A c \in Client : Untouched(c)
    BY <1>4 DEF Untouched
  <2>2. \A c \in Client : Good(c)'
    BY <2>1, UntouchedGood DEF GoodInv
  <2> QED BY <1>4, <2>2 DEF GoodInv
<1>5. CASE UNCHANGED vars
  BY <1>4, <1>5 DEF vars, handlers
<1>6. ASSUME NEW l \in Link, LateMessage(l) PROVE GoodInv'
  BY <1>4, <1>6, LateMessageEffect
<1>7. CASE Next
  <2>1. \/ \E h \in Handler : TickSome(h)
        \/ \E h \in Handler : HandleNext(h)
        \/ \E h \in Handler : Shutdown(h)
        \/ \E l \in Link : LateMessage(l)
        \/ \E c \in Client : Connect(c)
        \/ \E c \in Client : Crash(c)
        \/ TimeSync \/ Broadcast \/ \E c \in Client : SendBatch(c)
    BY <1>7 DEF Next
  <2> QED BY <1>1, <1>2, <1>3, <1>6, <2>1, TickGood, ConnectGood, ExtrasGood
<1> QED BY <1>5, <1>7

LEMMA AlwaysGood ==
    ASSUME Uncompressing, ~ BroadcastAnyTime, ~ LateTaken
    PROVE  Spec => [](TypeInv /\ GoodInv)
<1>1. Init => TypeInv /\ GoodInv
  BY InitHolds, StartsGood DEF IInv
<1>2. IInv /\ TypeInv /\ GoodInv /\ [Next]_vars => GoodInv'
  BY StaysGood DEF IInv
<1>3. IInv => TypeInv
  BY DEF IInv
<1> QED BY <1>1, <1>2, <1>3, AlwaysHolds, PTL DEF Spec

-----------------------------------------------------------------------------
(* What the properties are read from.                                      *)
LEMMA LinkIs ==
    ASSUME NEW l \in Link
    PROVE  \E c \in Client : l = up(c) \/ l = down(c)
<1>1. l[2] \in Remotes(l[1]) /\ l[1] \in Handler /\ l = <<l[1], l[2]>>
  BY DEF Link
<1>2. CASE l[1] = Server
  BY <1>1, <1>2 DEF Remotes, down
<1>3. CASE l[1] # Server
  <2>1. l[1] \in Client /\ l[2] = Server
    BY <1>1, <1>3 DEF Handler, Remotes
  <2> QED BY <1>1, <2>1 DEF up
<1> QED BY <1>2, <1>3

LEMMA WhatComes ==
    ASSUME TypeInv, NEW h, NEW r, h \in Handler, <<r, h>> \in Link, NEW before \in Seq(Packet)
    PROVE  before \o Letters(Coming(h, r)) = (before \o Told(h, r)) \o InFlight(r, h)
<1>1. PICK a \in Seq(Packet) : a = Told(h, r)
  <2>1. Heard(h, r, events[h]) \in Seq(Sign)
    BY HeardIs DEF TypeInv
  <2> QED BY <2>1, ToldAre, LettersAre
<1>2. PICK b \in Seq(Packet) : b = InFlight(r, h)
  <2>1. PICK w \in Seq(Message) : w = wire[<<r, h>>]
    BY DEF TypeInv
  <2>2. Spoken(w) \in Seq(Sign)
    BY SpokenIs
  <2> QED BY <2>1, <2>2, InFlightAre, LettersAre
<1>3. Letters(Coming(h, r)) = a \o b
  BY <1>1, <1>2, ComingLetters
<1>4. (before \o a) \o b = before \o (a \o b)
  <2>1. Joining(before, a, b)
    BY PacketsJoin
  <2> QED BY <2>1 DEF Joining
<1> QED BY <1>1, <1>2, <1>3, <1>4

LEMMA StreamGood ==
    ASSUME TypeInv, GoodInv
    PROVE  StreamIntact
<1>1. ASSUME NEW l \in Link, peer[l] = "Connected", peer[<<l[2], l[1]>>] = "Connected"
      PROVE  sent[l] = (seen[l] \o Told(l[2], l[1])) \o InFlight(l[1], l[2])
  <2>1. PICK c \in Client : l = up(c) \/ l = down(c)
    BY LinkIs
  <2>2. /\ Server \in Handler /\ c \in Handler
        /\ up(c) \in Link /\ down(c) \in Link /\ up(c) = <<c, Server>> /\ down(c) = <<Server, c>>
    BY ClientLink
  <2>3. peer[up(c)] = "Connected" /\ peer[down(c)] = "Connected"
    BY <1>1, <2>1, <2>2
  <2>4. phase[c] # "off" /\ Server \in running
    BY <2>3 DEF GoodInv, Good, Ends, IsOff
  <2>5. sent[down(c)] = seen[down(c)] \o Letters(Downward(c)) /\ sent[up(c)] = seen[up(c)] \o Letters(Upward(c))
    BY <2>4 DEF GoodInv, Good, Script, Turn
  <2>6. PICK a \in Seq(Packet), b \in Seq(Packet) : a = seen[up(c)] /\ b = seen[down(c)]
    BY <2>2 DEF TypeInv
  <2>7. CASE l = up(c)
    <3>1. a \o Letters(Upward(c)) = (a \o Told(Server, c)) \o InFlight(c, Server)
      BY <2>2, WhatComes DEF Upward
    <3>2. l[1] = c /\ l[2] = Server
      BY <2>2, <2>7
    <3> QED BY <2>5, <2>6, <2>7, <3>1, <3>2
  <2>8. CASE l = down(c)
    <3>1. b \o Letters(Downward(c)) = (b \o Told(c, Server)) \o InFlight(Server, c)
      BY <2>2, WhatComes DEF Downward
    <3>2. l[1] = Server /\ l[2] = c
      BY <2>2, <2>8
    <3> QED BY <2>5, <2>6, <2>8, <3>1, <3>2
  <2> QED BY <2>1, <2>7, <2>8
<1> QED BY <1>1 DEF StreamIntact

LEMMA AllBatches ==
    ASSUME TypeInv, NEW l \in Link, AllGame(wire[l])
    PROVE  Cardinality(Batches(l[1], l[2])) = Len(wire[l])
<1>1. PICK w \in Seq(Message) : w = wire[l]
  BY DEF TypeInv
<1>2. wire[<<l[1], l[2]>>] = w /\ Len(w) \in Nat /\ DOMAIN w = 1 .. Len(w)
  BY <1>1 DEF Link
<1>3. Batches(l[1], l[2]) = 1 .. Len(w)
  BY <1>1, <1>2 DEF Batches, AllGame
<1> QED BY <1>1, <1>2, <1>3, FS_Interval

LEMMA CipherGood ==
    ASSUME TypeInv, GoodInv
    PROVE  CipherInStep
<1>1. ASSUME NEW l \in Link, NEW h, NEW r, h = l[1], r = l[2], r \in DOMAIN table[h], h \in DOMAIN table[r],
             table[h][r].enabled, table[r][h].enabled
      PROVE  table[h][r].send_counter = table[r][h].recv_counter + Cardinality(Batches(h, r))
  <2>1. PICK c \in Client : l = up(c) \/ l = down(c)
    BY LinkIs
  <2>2. /\ Server \in Handler /\ c \in Handler
        /\ up(c) \in Link /\ down(c) \in Link /\ up(c) = <<c, Server>> /\ down(c) = <<Server, c>>
    BY ClientLink
  <2>3. /\ Server \in DOMAIN table[c] /\ c \in DOMAIN table[Server]
        /\ table[c][Server].enabled /\ table[Server][c].enabled
    BY <1>1, <2>1, <2>2
  <2>4. Good(c)
    BY DEF GoodInv
  <2>5. phase[c] # "off" /\ Server \in running
    BY <2>3, <2>4 DEF Good, Ends, IsOff
  <2>6. ~ Knocks(c) /\ ~ Greets(c) /\ ~ Switches(c)
    BY <2>3 DEF Knocks, Greets, Switches, IsPlain
  <2>7. InStep(c)
    BY <2>4, <2>5, <2>6 DEF Good, Turn
  <2>8. AllGame(wire[l]) /\ table[h][r].send_counter = table[r][h].recv_counter + Len(wire[l])
    <3>1. CASE l = up(c)
      <4>1. h = c /\ r = Server
        BY <1>1, <2>2, <3>1
      <4> QED BY <2>3, <2>7, <3>1, <4>1 DEF InStep, Leads
    <3>2. CASE l = down(c)
      <4>1. h = Server /\ r = c
        BY <1>1, <2>2, <3>2
      <4> QED BY <2>3, <2>7, <3>2, <4>1 DEF InStep, Leads
    <3> QED BY <2>1, <3>1, <3>2
  <2> QED BY <1>1, <2>8, AllBatches
<1> QED BY <1>1 DEF CipherInStep

LEMMA PhasesGood ==
    ASSUME TypeInv, GoodInv
    PROVE  PhasesAgree
<1>1. ASSUME NEW c \in Client, Established(c), phase[c] \in DOMAIN Fits
      PROVE  c \in DOMAIN clients /\ clients[c].state \in Fits[phase[c]]
  <2>1. DOMAIN Fits = {"login", "stack", "start", "spawn", "spawned"}
    BY DEF Fits
  <2>2. Good(c) /\ phase[c] # "off" /\ phase[c] # "connecting" /\ phase[c] # "settings"
    BY <1>1, <2>1 DEF GoodInv
  <2>3. peer[down(c)] = "Connected"
    BY <1>1, ClientLink DEF Established
  <2>4. Server \in running
    BY <2>2, <2>3 DEF Good, Ends
  <2>5. InStep(c)
    BY <2>2, <2>4 DEF Good, Turn, Knocks, Greets, Switches
  <2>6. PICK f \in {"login", "stack", "start", "spawn", "spawned"} : f = phase[c]
    BY <1>1, <2>1
  <2>7. \/ clients[c].state = Before[f]
        \/ f # "spawned" /\ clients[c].state = Behind[f]
        \/ f = "spawned" /\ clients[c].state = "Spawned"
    BY <2>5, <2>6 DEF InStep, Asking, Answering, Playing
  <2>8. Before[f] \in Fits[f] /\ (f # "spawned" => Behind[f] \in Fits[f]) /\ (f = "spawned" => "Spawned" \in Fits[f])
    <3>1. /\ Fits.login = {"WaitingForLogin", "WaitingForResourcePackResponse"}
          /\ Fits.stack = {"WaitingForResourcePackResponse"}
          /\ Fits.start = {"WaitingForResourcePackResponse", "WaitingForChunkRadiusRequest"}
          /\ Fits.spawn = {"WaitingForChunkRadiusRequest", "Spawned"}
          /\ Fits.spawned = {"Spawned"}
      BY DEF Fits
    <3> QED BY <3>1, TurnsAre
  <2> QED BY <2>5, <2>6, <2>7, <2>8 DEF InStep
<1> QED BY <1>1 DEF PhasesAgree

InOrder(q) ==
    /\ \A i, j \in DOMAIN q : q[i] \in Steps /\ q[i] = q[j] => i = j
    /\ \A i \in DOMAIN q : q[i] = "PlayerSpawn" => \E j \in 1 .. i : q[j] = "LevelChunk"

LEMMA InOrderIs ==
    ASSUME NEW q \in Seq(Packet), InStory(q), ChunkFirst(q)
    PROVE  InOrder(q)
<1>1. q \in Seq(Sign) /\ DOMAIN q = 1 .. Len(q) /\ Len(q) \in Nat
  BY PacketsAreSigns
<1>2. ASSUME NEW i \in 1 .. Len(q), NEW j \in 1 .. Len(q), q[i] \in Steps, q[i] = q[j]
      PROVE  i = j
  <2>1. ~ (i < j)
    BY <1>1, <1>2, InStoryOnce
  <2>2. q[j] \in Steps /\ q[j] = q[i]
    BY <1>2
  <2>3. ~ (j < i)
    BY <1>1, <2>2, InStoryOnce
  <2> QED BY <1>1, <2>1, <2>3
<1> QED BY <1>1, <1>2 DEF InOrder, ChunkFirst

LEMMA SeenGood ==
    ASSUME TypeInv, GoodInv
    PROVE  StepsOnce /\ ChunksBeforeSpawn
<1>1. ASSUME NEW c \in Client
      PROVE  InOrder(seen[<<Server, c>>])
  <2>1. down(c) \in Link /\ down(c) = <<Server, c>>
    BY ClientLink
  <2>2. PICK q \in Seq(Packet) : q = seen[down(c)]
    BY <2>1 DEF TypeInv
  <2>3. InStory(q) /\ ChunkFirst(q)
    BY <2>2 DEF GoodInv, Good, Script
  <2> QED BY <2>1, <2>2, <2>3, InOrderIs
<1> QED BY <1>1 DEF InOrder, Steps, StepsOnce, ChunksBeforeSpawn

-----------------------------------------------------------------------------
(* What follows from the invariant, for any clients and bounds, when what  *)
(* is announced compresses nothing (the other case is a finding), the      *)
(* server does not broadcast to a client that has yet to switch, and what  *)
(* is left of an earlier session comes only when it is discarded: at a     *)
(* remote that is not connected, or after the message with its index.      *)

(* No batch meets a processor that takes it for something else: although a *)
(* tick decodes all that has come before its user can react, the switch is *)
(* made between the same two batches on both sides, in every session.      *)
THEOREM BatchesUnderstood ==
    ASSUME Uncompressing, ~ BroadcastAnyTime, ~ LateTaken
    PROVE  Spec => []EveryBatchUnderstood
<1>1. TypeInv /\ GoodInv => EveryBatchUnderstood
  BY DEF GoodInv, EveryBatchUnderstood
<1> QED BY <1>1, AlwaysGood, PTL

(* While a session lasts, no packet that a user sent is lost, repeated or  *)
(* overtaken in the ticks and events of the two ends, over any number of   *)
(* sessions of an address that is seen to leave or is not.                 *)
THEOREM StreamsIntact ==
    ASSUME Uncompressing, ~ BroadcastAnyTime, ~ LateTaken
    PROVE  Spec => []StreamIntact
<1>1. TypeInv /\ GoodInv => StreamIntact
  BY StreamGood
<1> QED BY <1>1, AlwaysGood, PTL

(* The counters of the cipher differ by what is on the way, in each        *)
(* direction, once both sides have enabled it.                             *)
THEOREM CiphersInStep ==
    ASSUME Uncompressing, ~ BroadcastAnyTime, ~ LateTaken
    PROVE  Spec => []CipherInStep
<1>1. TypeInv /\ GoodInv => CipherInStep
  BY CipherGood
<1> QED BY <1>1, AlwaysGood, PTL

(* The state the server keeps of a client fits what the client waits for,  *)
(* though the server's handlers check no order.                            *)
THEOREM LoginPhasesAgree ==
    ASSUME Uncompressing, ~ BroadcastAnyTime, ~ LateTaken
    PROVE  Spec => []PhasesAgree
<1>1. TypeInv /\ GoodInv => PhasesAgree
  BY PhasesGood
<1> QED BY <1>1, AlwaysGood, PTL

(* In a session a client is handed each step of the login once at most.    *)
THEOREM LoginStepsOnce ==
    ASSUME Uncompressing, ~ BroadcastAnyTime, ~ LateTaken
    PROVE  Spec => []StepsOnce
<1>1. TypeInv /\ GoodInv => StepsOnce
  BY SeenGood
<1> QED BY <1>1, AlwaysGood, PTL

(* A client is handed its chunks before it is made to enter the world,     *)
(* whatever sessions its address had before.                               *)
THEOREM LoginChunksFirst ==
    ASSUME Uncompressing, ~ BroadcastAnyTime, ~ LateTaken
    PROVE  Spec => []ChunksBeforeSpawn
<1>1. TypeInv /\ GoodInv => ChunksBeforeSpawn
  BY SeenGood
<1> QED BY <1>1, AlwaysGood, PTL

(* With every batch understood, the server's user and its connection       *)
(* handler always agree on who is there.                                   *)
THEOREM ServerAlwaysKnowsItsClients ==
    ASSUME Uncompressing, ~ BroadcastAnyTime, ~ LateTaken
    PROVE  Spec => []ClientsMatchConnections
<1>1. Spec => []EveryBatchUnderstood
  BY BatchesUnderstood
<1> QED BY <1>1, ServerKnowsItsClients, PTL
=============================================================================
