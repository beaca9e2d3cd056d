-------------------------- MODULE LoginFlow_proof --------------------------
(***************************************************************************)
(* Proofs about LoginFlow and the ConnectionHandler under it, for any      *)
(* finite set of clients and all bounds.                                   *)
(***************************************************************************)
EXTENDS LoginFlow, BatchFrame_proof, FiniteSetTheorems

-----------------------------------------------------------------------------
(* The types.                                                              *)
Packet ==
    {"RequestNetworkSettings", "NetworkSettings", "Login", "PlayStatus",
     "ResourcePacksInfo", "ResponseNone", "ResourcePackStack",
     "ResponseCompleted", "StartGame", "RequestChunkRadius",
     "ChunkRadiusUpdated", "LevelChunk", "PlayerSpawn", "SetLocalPlayerAsInit",
     "SetTime", "MovePlayer"}

Processor ==
    [initialized : BOOLEAN, algorithm : {"None", Algorithm}, enabled : BOOLEAN,
     send_counter : Nat, recv_counter : Nat]

Batch ==
    [packets : Seq(Packet), header : {"none", "0x00", "0x01", "0xFF"},
     body : {"stored", "deflated"}, cipher : Int]

Plains == Accepting \union {"DisconnectionNotification"}

Message == [kind : Plains] \union [kind : {"GamePacket"}, batch : Batch]

Table(h) == UNION {[D -> Processor] : D \in SUBSET Remotes(h)}

Event(h) ==
    [type : {"Connected", "Disconnected"}, remote : Remotes(h)]
    \union [type : {"PacketReceived"}, remote : Remotes(h), packet : Packet]

ClientInfo ==
    [state : {"WaitingForRequestNetworkSettings", "WaitingForLogin",
              "WaitingForResourcePackResponse", "WaitingForChunkRadiusRequest",
              "Spawned"},
     chunks_sent : BOOLEAN]

Phase ==
    {"off", "connecting", "settings", "login", "stack", "start", "spawn", "spawned"}

Tables == {t \in [Handler -> UNION {Table(h) : h \in Handler}] :
              \A h \in Handler : t[h] \in Table(h)}

Outcome == {"fine", "garbled", "throws"}

TypeInv ==
    /\ running \in SUBSET Handler
    /\ peer \in [Link -> {"None", "Connecting", "Connected"}]
    /\ table \in Tables
    /\ wire \in [Link -> Seq(Message)]
    /\ DOMAIN events = Handler
    /\ \A h \in Handler : events[h] \in Seq(Event(h))
    /\ mishap \in Outcome
    /\ sent \in [Link -> Seq(Packet)]
    /\ seen \in [Link -> Seq(Packet)]
    /\ clients \in UNION {[D -> ClientInfo] : D \in SUBSET Client}
    /\ phase \in [Client -> Phase]

LEMMA RemotesLink ==
    ASSUME NEW h \in Handler, NEW r \in Remotes(h)
    PROVE  /\ r \in Handler
           /\ h \in Remotes(r)
           /\ <<h, r>> \in Link
           /\ <<r, h>> \in Link
           /\ h # r
<1>1. h \in Client \union {Server} /\ Server \notin Client
  BY ServerAssumption DEF Handler
<1> QED BY <1>1 DEF Handler, Remotes, Link

LEMMA LinkEnds ==
    ASSUME NEW l \in Link
    PROVE  /\ l[1] \in Handler
           /\ l[2] \in Remotes(l[1])
           /\ l = <<l[1], l[2]>>
BY DEF Link

LEMMA TypesHold == TypeInv /\ DOMAIN late = Link => TypeOK
BY DEF TypeInv, TypeOK, Tables, Table, Outcome, Phase

LEMMA TableIs ==
    ASSUME NEW h, NEW t
    PROVE  t \in Table(h) <=> /\ t = [r \in DOMAIN t |-> t[r]]
                              /\ DOMAIN t \in SUBSET Remotes(h)
                              /\ \A r \in DOMAIN t : t[r] \in Processor
BY DEF Table

LEMMA InitType == Init => TypeInv
<1>1. \A h : <<>> \in Table(h)
  <2>1. <<>> = [x \in {} |-> <<>>[x]] /\ DOMAIN <<>> = {}
    OBVIOUS
  <2> QED BY <2>1, TableIs
<1>2. <<>> \in UNION {[D -> ClientInfo] : D \in SUBSET Client}
  <2>1. <<>> = [x \in {} |-> <<>>[x]] /\ DOMAIN <<>> = {}
    OBVIOUS
  <2>2. <<>> \in [{} -> ClientInfo]
    BY <2>1
  <2> QED BY <2>2
<1>3. [h \in Handler |-> <<>>] \in Tables
  BY <1>1 DEF Tables
<1> SUFFICES ASSUME Init PROVE TypeInv
  OBVIOUS
<1>4. table \in Tables /\ clients \in UNION {[D -> ClientInfo] : D \in SUBSET Client}
  BY <1>2, <1>3 DEF Init, HandlersInit
<1>5. /\ wire \in [Link -> Seq(Message)]
      /\ sent \in [Link -> Seq(Packet)] /\ seen \in [Link -> Seq(Packet)]
      /\ DOMAIN events = Handler /\ \A h \in Handler : events[h] \in Seq(Event(h))
  <2>1. \A S : <<>> \in Seq(S)
    OBVIOUS
  <2> QED BY <2>1 DEF Init, HandlersInit
<1>6. /\ running \in SUBSET Handler /\ mishap \in Outcome
      /\ peer \in [Link -> {"None", "Connecting", "Connected"}]
      /\ phase \in [Client -> Phase]
  BY DEF Init, HandlersInit, Outcome, Phase
<1> QED BY <1>4, <1>5, <1>6 DEF TypeInv

-----------------------------------------------------------------------------
(* Processors.                                                             *)
LEMMA ProcessorTypes ==
    ASSUME NEW p \in Processor
    PROVE  /\ encoded(p) \in Processor
           /\ decoded(p) \in Processor
           /\ ServerSwitch(p) \in Processor
           /\ ClientSwitch(p) \in Processor
<1>1. encoded(p) \in Processor
  BY DEF Processor, encoded
<1>2. decoded(p) \in Processor
  BY DEF Processor, decoded
<1>3. ASSUME NEW q \in Processor
      PROVE  Cipher(q) \in Processor
  BY DEF Processor, Cipher, enable
<1>4. ASSUME NEW a \in {"None", Algorithm}
      PROVE  setCompression(p, a) \in Processor
  BY DEF Processor, setCompression
<1>5. setCompressionInitialized(p) \in Processor
  BY DEF Processor, setCompressionInitialized
<1> QED BY <1>1, <1>2, <1>3, <1>4, <1>5 DEF ServerSwitch, ClientSwitch

LEMMA NewProcessorType == NewProcessor \in Processor
BY DEF NewProcessor, Processor

LEMMA EncodeType ==
    ASSUME NEW p \in Processor, NEW packets \in Seq(Packet)
    PROVE  encode(p, packets) \in Batch
BY DEF encode, Batch, Processor, compress, compressionHeaderByte

LEMMA DecodeOutcome ==
    ASSUME NEW p, NEW d
    PROVE  decode(p, d) \in Outcome
BY DEF decode, decrypt, decompressBatch, decompress, Outcome

-----------------------------------------------------------------------------
(* Tables: adding and removing a remote.                                   *)
LEMMA SetDomain ==
    ASSUME NEW t, NEW r, NEW v
    PROVE  DOMAIN Set(t, r, v) = DOMAIN t \union {r}
BY DEF Set

LEMMA DropDomain ==
    ASSUME NEW t, NEW S
    PROVE  DOMAIN Drop(t, S) = DOMAIN t \ S
BY DEF Drop

LEMMA SetType ==
    ASSUME NEW h, NEW t \in Table(h), NEW r \in Remotes(h), NEW v \in Processor
    PROVE  Set(t, r, v) \in Table(h)
<1>1. DOMAIN t \in SUBSET Remotes(h) /\ \A q \in DOMAIN t : t[q] \in Processor
  BY TableIs
<1>2. DOMAIN t \union {r} \in SUBSET Remotes(h)
  BY <1>1
<1>3. Set(t, r, v) \in [DOMAIN t \union {r} -> Processor]
  BY <1>1 DEF Set
<1> QED BY <1>2, <1>3 DEF Table

LEMMA DropType ==
    ASSUME NEW h, NEW t \in Table(h), NEW S
    PROVE  Drop(t, S) \in Table(h)
<1>1. DOMAIN t \in SUBSET Remotes(h) /\ \A q \in DOMAIN t : t[q] \in Processor
  BY TableIs
<1>2. DOMAIN t \ S \in SUBSET Remotes(h)
  BY <1>1
<1>3. Drop(t, S) \in [DOMAIN t \ S -> Processor]
  BY <1>1 DEF Drop
<1> QED BY <1>2, <1>3 DEF Table

LEMMA InTables ==
    ASSUME NEW t \in Tables, NEW h \in Handler
    PROVE  t[h] \in Table(h)
BY DEF Tables

LEMMA TablesExcept ==
    ASSUME NEW t \in Tables, NEW h \in Handler, NEW u \in Table(h)
    PROVE  [t EXCEPT ![h] = u] \in Tables
BY DEF Tables

-----------------------------------------------------------------------------
(* The calls of the user: they change no table's remotes.                  *)
Calls == [table : Tables, wire : [Link -> Seq(Message)], sent : [Link -> Seq(Packet)]]

SameRemotes(s, t) == \A h \in Handler : DOMAIN t.table[h] = DOMAIN s.table[h]

LEMMA SendBatchToType ==
    ASSUME NEW h \in Handler, NEW R, NEW s \in Calls, NEW packets \in Seq(Packet)
    PROVE  /\ SendBatchTo(h, R, s, packets) \in Calls
           /\ SameRemotes(s, SendBatchTo(h, R, s, packets))
<1> DEFINE known == R \intersect DOMAIN s.table[h]
           Goes(l) == l[1] = h /\ l[2] \in known /\ peer[l] = "Connected"
           u == [r \in DOMAIN s.table[h] |->
                    IF r \in known THEN encoded(s.table[h][r]) ELSE s.table[h][r]]
           w == [l \in Link |->
                    IF Goes(l)
                      THEN Append(s.wire[l], Game(encode(s.table[h][l[2]], packets)))
                      ELSE s.wire[l]]
           n == [l \in Link |-> IF Goes(l) THEN s.sent[l] \o packets ELSE s.sent[l]]
           t == [s.table EXCEPT ![h] = u]
<1>1. s.table \in Tables /\ s.wire \in [Link -> Seq(Message)] /\ s.sent \in [Link -> Seq(Packet)]
  BY DEF Calls
<1>2. s.table[h] \in Table(h)
  BY <1>1, InTables
<1>3. \A r \in DOMAIN s.table[h] : s.table[h][r] \in Processor
  BY <1>2, TableIs
<1>4. u \in Table(h)
  <2>1. DOMAIN s.table[h] \in SUBSET Remotes(h)
    BY <1>2, TableIs
  <2>2. \A r \in DOMAIN s.table[h] : encoded(s.table[h][r]) \in Processor
    BY <1>3, ProcessorTypes
  <2> QED BY <1>3, <2>1, <2>2 DEF Table
<1>5. t \in Tables /\ DOMAIN u = DOMAIN s.table[h]
  <2> HIDE DEF u
  <2>1. t \in Tables
    BY <1>1, <1>4, TablesExcept
  <2> QED BY <2>1 DEF u
<1>6. w \in [Link -> Seq(Message)]
  <2>1. ASSUME NEW l \in Link
        PROVE  w[l] \in Seq(Message)
    <3>1. CASE Goes(l)
      <4>1. encode(s.table[h][l[2]], packets) \in Batch
        BY <3>1, <1>3, EncodeType
      <4>2. Game(encode(s.table[h][l[2]], packets)) \in Message
        BY <4>1 DEF Game, Message
      <4>3. s.wire[l] \in Seq(Message)
        BY <1>1
      <4> HIDE DEF Message
      <4> QED BY <3>1, <4>2, <4>3
    <3>2. CASE ~ Goes(l)
      BY <1>1, <3>2
    <3> QED BY <3>1, <3>2
  <2> HIDE DEF w
  <2>2. w = [l \in Link |-> w[l]]
    BY DEF w
  <2> QED BY <2>1, <2>2
<1>7. n \in [Link -> Seq(Packet)]
  <2>1. ASSUME NEW l \in Link
        PROVE  n[l] \in Seq(Packet)
    BY <1>1
  <2> HIDE DEF n
  <2>2. n = [l \in Link |-> n[l]]
    BY DEF n
  <2> QED BY <2>1, <2>2
<1>8. SendBatchTo(h, R, s, packets) = [table |-> t, wire |-> w, sent |-> n]
  BY DEF SendBatchTo
<1>9. \A g \in Handler : DOMAIN t[g] = DOMAIN s.table[g]
  <2>1. DOMAIN s.table = Handler
    BY <1>1 DEF Tables
  <2> HIDE DEF u
  <2> QED BY <1>5, <2>1
<1> HIDE DEF t, w, n
<1> QED BY <1>5, <1>6, <1>7, <1>8, <1>9 DEF Calls, SameRemotes

LEMMA ConfigureType ==
    ASSUME NEW h \in Handler, NEW r \in Remotes(h), NEW s \in Calls
    PROVE  /\ Configure(h, r, s, ServerSwitch) \in Calls
           /\ SameRemotes(s, Configure(h, r, s, ServerSwitch))
           /\ Configure(h, r, s, ClientSwitch) \in Calls
           /\ SameRemotes(s, Configure(h, r, s, ClientSwitch))
<1>1. s.table \in Tables /\ s.wire \in [Link -> Seq(Message)] /\ s.sent \in [Link -> Seq(Packet)]
  BY DEF Calls
<1>2. s.table[h] \in Table(h) /\ DOMAIN s.table = Handler
  BY <1>1, InTables DEF Tables
<1>3. CASE r \notin DOMAIN s.table[h]
  BY <1>3 DEF Configure, SameRemotes
<1>4. CASE r \in DOMAIN s.table[h]
  <2>1. s.table[h][r] \in Processor
    BY <1>2, <1>4, TableIs
  <2>2. ASSUME NEW v \in Processor
        PROVE  /\ [table |-> [s.table EXCEPT ![h] = Set(@, r, v)],
                   wire |-> s.wire, sent |-> s.sent] \in Calls
               /\ SameRemotes(s, [table |-> [s.table EXCEPT ![h] = Set(@, r, v)],
                                  wire |-> s.wire, sent |-> s.sent])
    <3> DEFINE u == Set(s.table[h], r, v)
               t == [s.table EXCEPT ![h] = u]
    <3>1. u \in Table(h) /\ DOMAIN u = DOMAIN s.table[h]
      <4>1. u \in Table(h)
        BY <1>2, SetType
      <4>2. DOMAIN u = DOMAIN s.table[h] \union {r}
        BY SetDomain
      <4> QED BY <1>4, <4>1, <4>2
    <3> HIDE DEF u
    <3>2. t \in Tables
      BY <1>1, <3>1, TablesExcept
    <3>3. \A g \in Handler : DOMAIN t[g] = DOMAIN s.table[g]
      BY <1>2, <3>1
    <3> HIDE DEF t
    <3>4. /\ [table |-> t, wire |-> s.wire, sent |-> s.sent] \in Calls
          /\ SameRemotes(s, [table |-> t, wire |-> s.wire, sent |-> s.sent])
      BY <1>1, <3>2, <3>3 DEF Calls, SameRemotes
    <3> QED BY <3>4 DEF t, u
  <2>3. ServerSwitch(s.table[h][r]) \in Processor /\ ClientSwitch(s.table[h][r]) \in Processor
    BY <2>1, ProcessorTypes
  <2> QED BY <1>4, <2>2, <2>3 DEF Configure
<1> QED BY <1>3, <1>4
-----------------------------------------------------------------------------
(* The four loops, each as its run of states.                              *)
SendOne(h, r, s, p) == SendBatchTo(h, {r}, s, <<p>>)

SendRun(run, h, r, s, packets) ==
    /\ run[0] = s
    /\ \A k \in 1 .. Len(packets) : run[k] = SendOne(h, r, run[k - 1], packets[k])
    /\ SendEach(h, r, s, packets) = run[Len(packets)]

LEMMA SendEachRun ==
    ASSUME NEW h, NEW r, NEW s, NEW packets, Len(packets) \in Nat
    PROVE  \E run : SendRun(run, h, r, s, packets)
<1> DEFINE N == Len(packets)
           Step(t, k) == SendOne(h, r, t, packets[k])
           IsRun(f, n) == f = [k \in 0 .. n |-> IF k = 0 THEN s ELSE Step(f[k - 1], k)]
           G == {n \in 0 .. N : \E f : IsRun(f, n)}
<1>1. 0 \in G
  <2> DEFINE f == [k \in 0 .. 0 |-> s]
  <2>1. f = [k \in 0 .. 0 |-> IF k = 0 THEN s ELSE Step(f[k - 1], k)]
    OBVIOUS
  <2>2. IsRun(f, 0)
    BY <2>1
  <2> HIDE DEF f, IsRun
  <2> QED BY <2>2
<1>2. ASSUME NEW n \in 1 .. N, n - 1 \in G
      PROVE  n \in G
  <2>1. PICK f : IsRun(f, n - 1)
    BY <1>2
  <2> DEFINE g == [k \in 0 .. n |-> IF k = n THEN Step(f[n - 1], n) ELSE f[k]]
  <2>2. ASSUME NEW k \in 0 .. n
        PROVE  g[k] = IF k = 0 THEN s ELSE Step(g[k - 1], k)
    <3> HIDE DEF Step
    <3>1. CASE k = n
      <4>1. g[k] = Step(f[n - 1], n)
        BY <3>1
      <4>2. g[n - 1] = f[n - 1]
        OBVIOUS
      <4> QED BY <3>1, <4>1, <4>2
    <3>2. CASE k = 0
      <4>1. f[0] = s
        BY <2>1
      <4> QED BY <3>2, <4>1
    <3>3. CASE k \in 1 .. (n - 1)
      <4>1. f[k] = Step(f[k - 1], k)
        BY <2>1, <3>3
      <4>2. g[k] = f[k] /\ g[k - 1] = f[k - 1] /\ k # 0
        BY <3>3
      <4> QED BY <4>1, <4>2
    <3> QED BY <3>1, <3>2, <3>3
  <2>3. DOMAIN g = 0 .. n /\ g = [k \in 0 .. n |-> g[k]]
    OBVIOUS
  <2> HIDE DEF g
  <2>4. g = [k \in 0 .. n |-> IF k = 0 THEN s ELSE Step(g[k - 1], k)]
    <3> HIDE DEF Step
    <3> QED BY <2>2, <2>3
  <2>5. IsRun(g, n)
    BY <2>4
  <2> HIDE DEF IsRun
  <2> QED BY <2>5
<1>3. N \in G
  <2>1. \A k \in 0 .. N : k \in G
    <3> HIDE DEF G
    <3> QED BY <1>1, <1>2, StepsInduction
  <2> HIDE DEF G
  <2> QED BY <2>1
<1> DEFINE run == CHOOSE f : IsRun(f, N)
<1>4. IsRun(run, N)
  BY <1>3
<1>5. SendEach(h, r, s, packets) = run[N]
  BY DEF SendEach, SendOne
<1> HIDE DEF run, Step
<1>6. run[0] = s
  BY <1>4
<1>7. \A k \in 1 .. N : run[k] = Step(run[k - 1], k)
  BY <1>4
<1> USE DEF Step
<1> QED BY <1>5, <1>6, <1>7 DEF SendRun

MessageRun(run, s, r, messages) ==
    /\ run[0] = s
    /\ \A k \in 1 .. Len(messages) : run[k] = OnMessage(run[k - 1], r, messages[k])
    /\ OnMessages(s, r, messages) = run[Len(messages)]

LEMMA OnMessagesRun ==
    ASSUME NEW r, NEW s, NEW messages, Len(messages) \in Nat
    PROVE  \E run : MessageRun(run, s, r, messages)
<1> DEFINE N == Len(messages)
           Step(t, k) == OnMessage(t, r, messages[k])
           IsRun(f, n) == f = [k \in 0 .. n |-> IF k = 0 THEN s ELSE Step(f[k - 1], k)]
           G == {n \in 0 .. N : \E f : IsRun(f, n)}
<1>1. 0 \in G
  <2> DEFINE f == [k \in 0 .. 0 |-> s]
  <2>1. f = [k \in 0 .. 0 |-> IF k = 0 THEN s ELSE Step(f[k - 1], k)]
    OBVIOUS
  <2>2. IsRun(f, 0)
    BY <2>1
  <2> HIDE DEF f, IsRun
  <2> QED BY <2>2
<1>2. ASSUME NEW n \in 1 .. N, n - 1 \in G
      PROVE  n \in G
  <2>1. PICK f : IsRun(f, n - 1)
    BY <1>2
  <2> DEFINE g == [k \in 0 .. n |-> IF k = n THEN Step(f[n - 1], n) ELSE f[k]]
  <2>2. ASSUME NEW k \in 0 .. n
        PROVE  g[k] = IF k = 0 THEN s ELSE Step(g[k - 1], k)
    <3> HIDE DEF Step
    <3>1. CASE k = n
      <4>1. g[k] = Step(f[n - 1], n)
        BY <3>1
      <4>2. g[n - 1] = f[n - 1]
        OBVIOUS
      <4> QED BY <3>1, <4>1, <4>2
    <3>2. CASE k = 0
      <4>1. f[0] = s
        BY <2>1
      <4> QED BY <3>2, <4>1
    <3>3. CASE k \in 1 .. (n - 1)
      <4>1. f[k] = Step(f[k - 1], k)
        BY <2>1, <3>3
      <4>2. g[k] = f[k] /\ g[k - 1] = f[k - 1] /\ k # 0
        BY <3>3
      <4> QED BY <4>1, <4>2
    <3> QED BY <3>1, <3>2, <3>3
  <2>3. DOMAIN g = 0 .. n /\ g = [k \in 0 .. n |-> g[k]]
    OBVIOUS
  <2> HIDE DEF g
  <2>4. g = [k \in 0 .. n |-> IF k = 0 THEN s ELSE Step(g[k - 1], k)]
    <3> HIDE DEF Step
    <3> QED BY <2>2, <2>3
  <2>5. IsRun(g, n)
    BY <2>4
  <2> HIDE DEF IsRun
  <2> QED BY <2>5
<1>3. N \in G
  <2>1. \A k \in 0 .. N : k \in G
    <3> HIDE DEF G
    <3> QED BY <1>1, <1>2, StepsInduction
  <2> HIDE DEF G
  <2> QED BY <2>1
<1> DEFINE run == CHOOSE f : IsRun(f, N)
<1>4. IsRun(run, N)
  BY <1>3
<1>5. OnMessages(s, r, messages) = run[N]
  BY DEF OnMessages
<1> HIDE DEF run, Step
<1>6. run[0] = s
  BY <1>4
<1>7. \A k \in 1 .. N : run[k] = Step(run[k - 1], k)
  BY <1>4
<1> USE DEF Step
<1> QED BY <1>5, <1>6, <1>7 DEF MessageRun

ArrivalRun(run, s, order, received) ==
    /\ run[0] = s
    /\ \A k \in 1 .. Len(order) :
          run[k] = OnMessages(run[k - 1], order[k], received[order[k]])
    /\ Arrivals(s, order, received) = run[Len(order)]

LEMMA ArrivalsRun ==
    ASSUME NEW s, NEW order, NEW received, Len(order) \in Nat
    PROVE  \E run : ArrivalRun(run, s, order, received)
<1> DEFINE N == Len(order)
           Step(t, k) == OnMessages(t, order[k], received[order[k]])
           IsRun(f, n) == f = [k \in 0 .. n |-> IF k = 0 THEN s ELSE Step(f[k - 1], k)]
           G == {n \in 0 .. N : \E f : IsRun(f, n)}
<1>1. 0 \in G
  <2> DEFINE f == [k \in 0 .. 0 |-> s]
  <2>1. f = [k \in 0 .. 0 |-> IF k = 0 THEN s ELSE Step(f[k - 1], k)]
    OBVIOUS
  <2>2. IsRun(f, 0)
    BY <2>1
  <2> HIDE DEF f, IsRun
  <2> QED BY <2>2
<1>2. ASSUME NEW n \in 1 .. N, n - 1 \in G
      PROVE  n \in G
  <2>1. PICK f : IsRun(f, n - 1)
    BY <1>2
  <2> DEFINE g == [k \in 0 .. n |-> IF k = n THEN Step(f[n - 1], n) ELSE f[k]]
  <2>2. ASSUME NEW k \in 0 .. n
        PROVE  g[k] = IF k = 0 THEN s ELSE Step(g[k - 1], k)
    <3> HIDE DEF Step
    <3>1. CASE k = n
      <4>1. g[k] = Step(f[n - 1], n)
        BY <3>1
      <4>2. g[n - 1] = f[n - 1]
        OBVIOUS
      <4> QED BY <3>1, <4>1, <4>2
    <3>2. CASE k = 0
      <4>1. f[0] = s
        BY <2>1
      <4> QED BY <3>2, <4>1
    <3>3. CASE k \in 1 .. (n - 1)
      <4>1. f[k] = Step(f[k - 1], k)
        BY <2>1, <3>3
      <4>2. g[k] = f[k] /\ g[k - 1] = f[k - 1] /\ k # 0
        BY <3>3
      <4> QED BY <4>1, <4>2
    <3> QED BY <3>1, <3>2, <3>3
  <2>3. DOMAIN g = 0 .. n /\ g = [k \in 0 .. n |-> g[k]]
    OBVIOUS
  <2> HIDE DEF g
  <2>4. g = [k \in 0 .. n |-> IF k = 0 THEN s ELSE Step(g[k - 1], k)]
    <3> HIDE DEF Step
    <3> QED BY <2>2, <2>3
  <2>5. IsRun(g, n)
    BY <2>4
  <2> HIDE DEF IsRun
  <2> QED BY <2>5
<1>3. N \in G
  <2>1. \A k \in 0 .. N : k \in G
    <3> HIDE DEF G
    <3> QED BY <1>1, <1>2, StepsInduction
  <2> HIDE DEF G
  <2> QED BY <2>1
<1> DEFINE run == CHOOSE f : IsRun(f, N)
<1>4. IsRun(run, N)
  BY <1>3
<1>5. Arrivals(s, order, received) = run[N]
  BY DEF Arrivals
<1> HIDE DEF run, Step
<1>6. run[0] = s
  BY <1>4
<1>7. \A k \in 1 .. N : run[k] = Step(run[k - 1], k)
  BY <1>4
<1> USE DEF Step
<1> QED BY <1>5, <1>6, <1>7 DEF ArrivalRun

DepartureRun(run, s, order, received) ==
    /\ run[0] = s
    /\ \A k \in 1 .. Len(order) :
          run[k] = OnLeft(run[k - 1], order[k], received[order[k]])
    /\ Departures(s, order, received) = run[Len(order)]

LEMMA DeparturesRun ==
    ASSUME NEW s, NEW order, NEW received, Len(order) \in Nat
    PROVE  \E run : DepartureRun(run, s, order, received)
<1> DEFINE N == Len(order)
           Step(t, k) == OnLeft(t, order[k], received[order[k]])
           IsRun(f, n) == f = [k \in 0 .. n |-> IF k = 0 THEN s ELSE Step(f[k - 1], k)]
           G == {n \in 0 .. N : \E f : IsRun(f, n)}
<1>1. 0 \in G
  <2> DEFINE f == [k \in 0 .. 0 |-> s]
  <2>1. f = [k \in 0 .. 0 |-> IF k = 0 THEN s ELSE Step(f[k - 1], k)]
    OBVIOUS
  <2>2. IsRun(f, 0)
    BY <2>1
  <2> HIDE DEF f, IsRun
  <2> QED BY <2>2
<1>2. ASSUME NEW n \in 1 .. N, n - 1 \in G
      PROVE  n \in G
  <2>1. PICK f : IsRun(f, n - 1)
    BY <1>2
  <2> DEFINE g == [k \in 0 .. n |-> IF k = n THEN Step(f[n - 1], n) ELSE f[k]]
  <2>2. ASSUME NEW k \in 0 .. n
        PROVE  g[k] = IF k = 0 THEN s ELSE Step(g[k - 1], k)
    <3> HIDE DEF Step
    <3>1. CASE k = n
      <4>1. g[k] = Step(f[n - 1], n)
        BY <3>1
      <4>2. g[n - 1] = f[n - 1]
        OBVIOUS
      <4> QED BY <3>1, <4>1, <4>2
    <3>2. CASE k = 0
      <4>1. f[0] = s
        BY <2>1
      <4> QED BY <3>2, <4>1
    <3>3. CASE k \in 1 .. (n - 1)
      <4>1. f[k] = Step(f[k - 1], k)
        BY <2>1, <3>3
      <4>2. g[k] = f[k] /\ g[k - 1] = f[k - 1] /\ k # 0
        BY <3>3
      <4> QED BY <4>1, <4>2
    <3> QED BY <3>1, <3>2, <3>3
  <2>3. DOMAIN g = 0 .. n /\ g = [k \in 0 .. n |-> g[k]]
    OBVIOUS
  <2> HIDE DEF g
  <2>4. g = [k \in 0 .. n |-> IF k = 0 THEN s ELSE Step(g[k - 1], k)]
    <3> HIDE DEF Step
    <3> QED BY <2>2, <2>3
  <2>5. IsRun(g, n)
    BY <2>4
  <2> HIDE DEF IsRun
  <2> QED BY <2>5
<1>3. N \in G
  <2>1. \A k \in 0 .. N : k \in G
    <3> HIDE DEF G
    <3> QED BY <1>1, <1>2, StepsInduction
  <2> HIDE DEF G
  <2> QED BY <2>1
<1> DEFINE run == CHOOSE f : IsRun(f, N)
<1>4. IsRun(run, N)
  BY <1>3
<1>5. Departures(s, order, received) = run[N]
  BY DEF Departures
<1> HIDE DEF run, Step
<1>6. run[0] = s
  BY <1>4
<1>7. \A k \in 1 .. N : run[k] = Step(run[k - 1], k)
  BY <1>4
<1> USE DEF Step
<1> QED BY <1>5, <1>6, <1>7 DEF DepartureRun

LEMMA SendEachType ==
    ASSUME NEW h \in Handler, NEW r, NEW s \in Calls, NEW packets \in Seq(Packet)
    PROVE  /\ SendEach(h, r, s, packets) \in Calls
           /\ SameRemotes(s, SendEach(h, r, s, packets))
<1> DEFINE N == Len(packets)
<1>0. N \in Nat
  OBVIOUS
<1>1. PICK run : /\ run[0] = s
                 /\ \A k \in 1 .. N :
                       run[k] = SendOne(h, r, run[k - 1], packets[k])
                 /\ SendEach(h, r, s, packets) = run[N]
  <2>1. \E run : SendRun(run, h, r, s, packets)
    BY <1>0, SendEachRun
  <2> QED BY <2>1 DEF SendRun
<1> DEFINE G == {k \in 0 .. N : run[k] \in Calls /\ SameRemotes(s, run[k])}
<1>2. 0 \in G
  BY <1>1 DEF SameRemotes
<1>3. ASSUME NEW k \in 1 .. N, k - 1 \in G
      PROVE  k \in G
  <2>1. PICK u : u = run[k - 1]
    OBVIOUS
  <2>2. u \in Calls /\ SameRemotes(s, u)
    BY <1>3, <2>1
  <2>3. <<packets[k]>> \in Seq(Packet)
    <3>1. packets[k] \in Packet
      OBVIOUS
    <3> QED BY <3>1
  <2>4. /\ SendBatchTo(h, {r}, u, <<packets[k]>>) \in Calls
        /\ SameRemotes(u, SendBatchTo(h, {r}, u, <<packets[k]>>))
    BY <2>2, <2>3, SendBatchToType
  <2>5. run[k] = SendBatchTo(h, {r}, u, <<packets[k]>>)
    BY <1>1, <2>1 DEF SendOne
  <2>6. run[k] \in Calls /\ SameRemotes(u, run[k])
    BY <2>4, <2>5
  <2>7. SameRemotes(s, run[k])
    BY <2>2, <2>6 DEF SameRemotes
  <2> QED BY <2>6, <2>7
<1>4. \A k \in 0 .. N : k \in G
  <2> HIDE DEF G
  <2> QED BY <1>0, <1>2, <1>3, StepsInduction
<1>5. N \in 0 .. N
  OBVIOUS
<1>6. run[N] \in Calls /\ SameRemotes(s, run[N])
  BY <1>4, <1>5
<1> QED BY <1>1, <1>6

-----------------------------------------------------------------------------
(* Whom events leave connected, of the remotes R that were connected       *)
(* before: those whose last connection or disconnection is the former.     *)
Connects(e, r) == e.type = "Connected" /\ e.remote = r

Disconnects(e, r) == e.type = "Disconnected" /\ e.remote = r

Known(R, evs, r) ==
    \E i \in 0 .. Len(evs) :
        /\ (i = 0 /\ r \in R) \/ (i > 0 /\ Connects(evs[i], r))
        /\ \A j \in (i + 1) .. Len(evs) : ~ Disconnects(evs[j], r)

LEMMA KnownEmpty ==
    ASSUME NEW R, NEW r
    PROVE  Known(R, <<>>, r) <=> r \in R
<1>1. Len(<<>>) = 0
  OBVIOUS
<1>2. Known(R, <<>>, r) => r \in R
  BY <1>1 DEF Known
<1>3. r \in R => Known(R, <<>>, r)
  BY <1>1 DEF Known
<1> QED BY <1>2, <1>3

LEMMA KnownAppend ==
    ASSUME NEW S, NEW R, NEW evs \in Seq(S), NEW e \in S, NEW r
    PROVE  Known(R, Append(evs, e), r) <=>
               Connects(e, r) \/ (Known(R, evs, r) /\ ~ Disconnects(e, r))
<1> DEFINE n == Len(evs)
           all == Append(evs, e)
<1>1. /\ n \in Nat /\ Len(all) = n + 1 /\ all[n + 1] = e
      /\ \A i \in 1 .. n : all[i] = evs[i]
  OBVIOUS
<1> HIDE DEF all
<1>2. ASSUME Known(R, all, r)
      PROVE  Connects(e, r) \/ (Known(R, evs, r) /\ ~ Disconnects(e, r))
  <2>1. PICK i \in 0 .. (n + 1) :
            /\ (i = 0 /\ r \in R) \/ (i > 0 /\ Connects(all[i], r))
            /\ \A j \in (i + 1) .. (n + 1) : ~ Disconnects(all[j], r)
    BY <1>1, <1>2 DEF Known
  <2>2. CASE i = n + 1
    BY <1>1, <2>1, <2>2
  <2>3. CASE i # n + 1
    <3>1. i \in 0 .. n /\ n + 1 \in (i + 1) .. (n + 1)
      BY <1>1, <2>3
    <3>2. ~ Disconnects(e, r)
      BY <1>1, <2>1, <3>1
    <3>3. /\ (i = 0 /\ r \in R) \/ (i > 0 /\ Connects(evs[i], r))
          /\ \A j \in (i + 1) .. n : ~ Disconnects(evs[j], r)
      BY <1>1, <2>1, <3>1
    <3> QED BY <3>1, <3>2, <3>3 DEF Known
  <2> QED BY <2>2, <2>3
<1>3. ASSUME Connects(e, r)
      PROVE  Known(R, all, r)
  BY <1>1, <1>3 DEF Known
<1>4. ASSUME Known(R, evs, r), ~ Disconnects(e, r)
      PROVE  Known(R, all, r)
  <2>1. PICK i \in 0 .. n :
            /\ (i = 0 /\ r \in R) \/ (i > 0 /\ Connects(evs[i], r))
            /\ \A j \in (i + 1) .. n : ~ Disconnects(evs[j], r)
    BY <1>4 DEF Known
  <2>2. /\ i \in 0 .. (n + 1)
        /\ (i = 0 /\ r \in R) \/ (i > 0 /\ Connects(all[i], r))
    BY <1>1, <2>1
  <2>3. ASSUME NEW j \in (i + 1) .. (n + 1)
        PROVE  ~ Disconnects(all[j], r)
    <3>1. CASE j = n + 1
      BY <1>1, <1>4, <3>1
    <3>2. CASE j # n + 1
      <4>1. j \in (i + 1) .. n /\ j \in 1 .. n
        BY <1>1, <3>2
      <4> QED BY <1>1, <2>1, <4>1
    <3> QED BY <3>1, <3>2
  <2> QED BY <1>1, <2>2, <2>3 DEF Known
<1> QED BY <1>2, <1>3, <1>4 DEF all

LEMMA KnownConcat ==
    ASSUME NEW S, NEW R, NEW evs \in Seq(S), NEW more \in Seq(S), NEW r,
           \A j \in 1 .. Len(more) : ~ Connects(more[j], r) /\ ~ Disconnects(more[j], r)
    PROVE  Known(R, evs \o more, r) <=> Known(R, evs, r)
<1> DEFINE n == Len(evs)
           m == Len(more)
           all == evs \o more
<1>1. /\ n \in Nat /\ m \in Nat /\ Len(all) = n + m
      /\ \A i \in 1 .. n : all[i] = evs[i]
      /\ \A i \in (n + 1) .. (n + m) : all[i] = more[i - n] /\ i - n \in 1 .. m
  OBVIOUS
<1> HIDE DEF all
<1>2. \A i \in (n + 1) .. (n + m) : ~ Connects(all[i], r) /\ ~ Disconnects(all[i], r)
  BY <1>1
<1>3. ASSUME Known(R, all, r)
      PROVE  Known(R, evs, r)
  <2>1. PICK i \in 0 .. (n + m) :
            /\ (i = 0 /\ r \in R) \/ (i > 0 /\ Connects(all[i], r))
            /\ \A j \in (i + 1) .. (n + m) : ~ Disconnects(all[j], r)
    BY <1>1, <1>3 DEF Known
  <2>2. i \in 0 .. n
    <3>1. ~ (i \in (n + 1) .. (n + m))
      BY <1>1, <1>2, <2>1
    <3> QED BY <1>1, <3>1
  <2>3. /\ (i = 0 /\ r \in R) \/ (i > 0 /\ Connects(evs[i], r))
        /\ \A j \in (i + 1) .. n : ~ Disconnects(evs[j], r)
    BY <1>1, <2>1, <2>2
  <2> QED BY <2>2, <2>3 DEF Known
<1>4. ASSUME Known(R, evs, r)
      PROVE  Known(R, all, r)
  <2>1. PICK i \in 0 .. n :
            /\ (i = 0 /\ r \in R) \/ (i > 0 /\ Connects(evs[i], r))
            /\ \A j \in (i + 1) .. n : ~ Disconnects(evs[j], r)
    BY <1>4 DEF Known
  <2>2. /\ i \in 0 .. (n + m)
        /\ (i = 0 /\ r \in R) \/ (i > 0 /\ Connects(all[i], r))
    BY <1>1, <2>1
  <2>3. ASSUME NEW j \in (i + 1) .. (n + m)
        PROVE  ~ Disconnects(all[j], r)
    <3>1. j \in ((i + 1) .. n) \intersect (1 .. n) \/ j \in (n + 1) .. (n + m)
      BY <1>1
    <3> QED BY <1>1, <1>2, <2>1, <3>1
  <2> QED BY <1>1, <2>2, <2>3 DEF Known
<1> QED BY <1>3, <1>4 DEF all

LEMMA KnownTail ==
    ASSUME NEW S, NEW R, NEW Q, NEW evs \in Seq(S), evs # <<>>, NEW r,
           r \in Q <=> Connects(Head(evs), r) \/ (r \in R /\ ~ Disconnects(Head(evs), r))
    PROVE  Known(R, evs, r) <=> Known(Q, Tail(evs), r)
<1> DEFINE n == Len(evs)
           rest == Tail(evs)
<1>1. /\ n \in Nat \ {0} /\ Len(rest) = n - 1 /\ Head(evs) = evs[1]
      /\ \A i \in 1 .. (n - 1) : rest[i] = evs[i + 1]
  OBVIOUS
<1> HIDE DEF rest
<1>2. ASSUME Known(R, evs, r)
      PROVE  Known(Q, rest, r)
  <2>1. PICK i \in 0 .. n :
            /\ (i = 0 /\ r \in R) \/ (i > 0 /\ Connects(evs[i], r))
            /\ \A j \in (i + 1) .. n : ~ Disconnects(evs[j], r)
    BY <1>2 DEF Known
  <2>2. CASE i \in 0 .. 1
    <3>1. r \in Q
      BY <1>1, <2>1, <2>2
    <3>2. \A j \in 1 .. (n - 1) : ~ Disconnects(rest[j], r)
      <4>1. ASSUME NEW j \in 1 .. (n - 1) PROVE j + 1 \in (i + 1) .. n
        BY <1>1, <2>2
      <4> QED BY <1>1, <2>1, <4>1
    <3> QED BY <1>1, <3>1, <3>2 DEF Known
  <2>3. CASE i \in 2 .. n
    <3>1. i - 1 \in 1 .. (n - 1) /\ rest[i - 1] = evs[i]
      BY <1>1, <2>3
    <3>2. ASSUME NEW j \in i .. (n - 1)
          PROVE  ~ Disconnects(rest[j], r)
      <4>1. j + 1 \in (i + 1) .. n /\ j \in 1 .. (n - 1)
        BY <1>1, <2>3
      <4> QED BY <1>1, <2>1, <4>1
    <3>3. (i - 1) + 1 = i /\ i - 1 \in 0 .. (n - 1) /\ i - 1 > 0
      BY <1>1, <2>3
    <3>4. Connects(rest[i - 1], r)
      BY <2>1, <2>3, <3>1
    <3> QED BY <1>1, <3>2, <3>3, <3>4 DEF Known
  <2> QED BY <1>1, <2>2, <2>3
<1>3. ASSUME Known(Q, rest, r)
      PROVE  Known(R, evs, r)
  <2>1. PICK i \in 0 .. (n - 1) :
            /\ (i = 0 /\ r \in Q) \/ (i > 0 /\ Connects(rest[i], r))
            /\ \A j \in (i + 1) .. (n - 1) : ~ Disconnects(rest[j], r)
    BY <1>1, <1>3 DEF Known
  <2>2. \A j \in (i + 2) .. n : ~ Disconnects(evs[j], r)
    <3>1. ASSUME NEW j \in (i + 2) .. n
          PROVE  j - 1 \in (i + 1) .. (n - 1) /\ rest[j - 1] = evs[j]
      BY <1>1
    <3> QED BY <2>1, <3>1
  <2>3. CASE i > 0
    <3>1. rest[i] = evs[i + 1] /\ i + 1 \in 0 .. n /\ i + 1 > 0 /\ (i + 1) + 1 = i + 2
      BY <1>1, <2>3
    <3> QED BY <2>1, <2>2, <2>3, <3>1 DEF Known
  <2>4. CASE i = 0
    <3>1. CASE Connects(evs[1], r)
      <4>1. 1 \in 0 .. n /\ 1 > 0 /\ 1 + 1 = i + 2
        BY <1>1, <2>4
      <4> QED BY <2>2, <3>1, <4>1 DEF Known
    <3>2. CASE r \in R /\ ~ Disconnects(evs[1], r)
      <4>1. 0 \in 0 .. n
        BY <1>1
      <4>2. ASSUME NEW j \in (0 + 1) .. n
            PROVE  ~ Disconnects(evs[j], r)
        <5>1. j = 1 \/ j \in (i + 2) .. n
          BY <2>4
        <5> QED BY <2>2, <3>2, <5>1
      <4> QED BY <3>2, <4>1, <4>2 DEF Known
    <3> QED BY <1>1, <2>1, <2>4, <3>1, <3>2
  <2> QED BY <2>3, <2>4
<1> QED BY <1>2, <1>3 DEF rest

-----------------------------------------------------------------------------
(* A tick from its start s to a state t: the events say what happened to   *)
(* the table, and an exception stays.                                      *)
Ticking(h) == [table : Table(h), events : Seq(Event(h)), result : Outcome]

Tracks(R, s) == \A r : r \in DOMAIN s.table <=> Known(R, s.events, r)

Evolves(h, R, s, t) ==
    /\ t \in Ticking(h)
    /\ Tracks(R, s) => Tracks(R, t)
    /\ t.result # "throws" => s.result # "throws"

LEMMA EvolvesOn ==
    ASSUME NEW h, NEW R, NEW s, NEW t, NEW u, Evolves(h, R, s, t), Evolves(h, R, t, u)
    PROVE  Evolves(h, R, s, u)
BY DEF Evolves

LEMMA EvolvesNot ==
    ASSUME NEW h, NEW R, NEW s \in Ticking(h)
    PROVE  Evolves(h, R, s, s)
BY DEF Evolves

LEMMA OnConnectedEffect ==
    ASSUME NEW h, NEW R, NEW s \in Ticking(h), NEW r \in Remotes(h)
    PROVE  /\ Evolves(h, R, s, OnConnected(s, r))
           /\ \A q : q \in DOMAIN OnConnected(s, r).table <=> q \in DOMAIN s.table \/ q = r
<1> DEFINE e == [type |-> "Connected", remote |-> r]
           T == Set(s.table, r, NewProcessor)
           E == Append(s.events, e)
           t == [table |-> T, events |-> E, result |-> s.result]
<1>1. t = OnConnected(s, r)
  BY DEF OnConnected
<1>2. s.table \in Table(h) /\ s.events \in Seq(Event(h)) /\ s.result \in Outcome
  BY DEF Ticking
<1>3. e \in Event(h) /\ ~ Disconnects(e, r) /\ Connects(e, r)
  BY DEF Event, Disconnects, Connects
<1>4. \A q : q # r => ~ Disconnects(e, q) /\ ~ Connects(e, q)
  BY DEF Disconnects, Connects
<1> HIDE DEF e
<1>5. T \in Table(h)
  BY <1>2, NewProcessorType, SetType
<1>6. \A q : q \in DOMAIN T <=> q \in DOMAIN s.table \/ q = r
  <2>1. DOMAIN T = DOMAIN s.table \union {r}
    BY SetDomain
  <2> QED BY <2>1
<1>7. \A q : Known(R, E, q) <=> Connects(e, q) \/ (Known(R, s.events, q) /\ ~ Disconnects(e, q))
  BY <1>2, <1>3, KnownAppend
<1>8. E \in Seq(Event(h))
  BY <1>2, <1>3
<1> HIDE DEF T, E
<1>9. t \in Ticking(h) /\ t.table = T /\ t.events = E /\ t.result = s.result
  BY <1>2, <1>5, <1>8 DEF Ticking
<1> HIDE DEF t
<1>10. ASSUME Tracks(R, s)
       PROVE  Tracks(R, t)
  BY <1>3, <1>4, <1>6, <1>7, <1>9, <1>10 DEF Tracks
<1> QED BY <1>1, <1>6, <1>9, <1>10 DEF Evolves

LEMMA OnDisconnectedEffect ==
    ASSUME NEW h, NEW R, NEW s \in Ticking(h), NEW r \in Remotes(h)
    PROVE  /\ Evolves(h, R, s, OnDisconnected(s, r))
           /\ \A q : q \in DOMAIN OnDisconnected(s, r).table <=> q \in DOMAIN s.table /\ q # r
<1> DEFINE e == [type |-> "Disconnected", remote |-> r]
           T == Drop(s.table, {r})
           E == Append(s.events, e)
           t == [table |-> T, events |-> E, result |-> s.result]
<1>1. t = OnDisconnected(s, r)
  BY DEF OnDisconnected
<1>2. s.table \in Table(h) /\ s.events \in Seq(Event(h)) /\ s.result \in Outcome
  BY DEF Ticking
<1>3. e \in Event(h) /\ Disconnects(e, r) /\ ~ Connects(e, r)
  BY DEF Event, Disconnects, Connects
<1>4. \A q : q # r => ~ Disconnects(e, q) /\ ~ Connects(e, q)
  BY DEF Disconnects, Connects
<1> HIDE DEF e
<1>5. T \in Table(h)
  BY <1>2, DropType
<1>6. \A q : q \in DOMAIN T <=> q \in DOMAIN s.table /\ q # r
  <2>1. DOMAIN T = DOMAIN s.table \ {r}
    BY DropDomain
  <2> QED BY <2>1
<1>7. \A q : Known(R, E, q) <=> Connects(e, q) \/ (Known(R, s.events, q) /\ ~ Disconnects(e, q))
  BY <1>2, <1>3, KnownAppend
<1>8. E \in Seq(Event(h))
  BY <1>2, <1>3
<1> HIDE DEF T, E
<1>9. t \in Ticking(h) /\ t.table = T /\ t.events = E /\ t.result = s.result
  BY <1>2, <1>5, <1>8 DEF Ticking
<1> HIDE DEF t
<1>10. ASSUME Tracks(R, s)
       PROVE  Tracks(R, t)
  BY <1>3, <1>4, <1>6, <1>7, <1>9, <1>10 DEF Tracks
<1> QED BY <1>1, <1>6, <1>9, <1>10 DEF Evolves

LEMMA AllReceivedType ==
    ASSUME NEW h, NEW r \in Remotes(h), NEW packets \in Seq(Packet)
    PROVE  /\ AllReceived(r, packets) \in Seq(Event(h))
           /\ \A q : \A j \in 1 .. Len(AllReceived(r, packets)) :
                 /\ ~ Connects(AllReceived(r, packets)[j], q)
                 /\ ~ Disconnects(AllReceived(r, packets)[j], q)
<1> DEFINE all == AllReceived(r, packets)
<1>1. /\ Len(packets) \in Nat
      /\ all = [i \in 1 .. Len(packets) |-> PacketReceived(r, packets[i])]
  BY DEF AllReceived
<1>2. ASSUME NEW i \in 1 .. Len(packets)
      PROVE  /\ PacketReceived(r, packets[i]) \in Event(h)
             /\ PacketReceived(r, packets[i]).type = "PacketReceived"
  <2>1. packets[i] \in Packet
    OBVIOUS
  <2> QED BY <2>1 DEF PacketReceived, Event
<1> HIDE DEF all
<1>3. all \in Seq(Event(h)) /\ Len(all) = Len(packets)
  <2>1. all \in [1 .. Len(packets) -> Event(h)]
    BY <1>1, <1>2
  <2> HIDE DEF all
  <2> QED BY <1>1, <2>1
<1>4. \A j \in 1 .. Len(all) : all[j].type = "PacketReceived"
  BY <1>1, <1>2, <1>3
<1>5. \A q : \A j \in 1 .. Len(all) : ~ Connects(all[j], q) /\ ~ Disconnects(all[j], q)
  BY <1>4 DEF Connects, Disconnects
<1> QED BY <1>3, <1>5 DEF all

LEMMA OnGamePacketEffect ==
    ASSUME NEW h, NEW R, NEW s \in Ticking(h), NEW r \in Remotes(h), NEW d \in Batch
    PROVE  /\ s.result # "throws" => Evolves(h, R, s, OnGamePacket(s, r, d))
           /\ \A q : q \in DOMAIN OnGamePacket(s, r, d).table <=> q \in DOMAIN s.table
<1>1. CASE r \notin DOMAIN s.table
  BY <1>1, EvolvesNot DEF OnGamePacket
<1>2. CASE r \in DOMAIN s.table
  <2> DEFINE outcome == decode(s.table[r], d)
             T == Set(s.table, r, decoded(s.table[r]))
             more == AllReceived(r, d.packets)
             E == IF outcome = "fine" THEN s.events \o more ELSE s.events
             res == IF outcome = "fine" THEN s.result ELSE outcome
             t == [table |-> T, events |-> E, result |-> res]
  <2>1. t = OnGamePacket(s, r, d)
    BY <1>2 DEF OnGamePacket
  <2>2. s.table \in Table(h) /\ s.events \in Seq(Event(h)) /\ s.result \in Outcome
    BY DEF Ticking
  <2>3. d.packets \in Seq(Packet)
    BY DEF Batch
  <2>4. /\ more \in Seq(Event(h))
        /\ \A q : \A j \in 1 .. Len(more) : ~ Connects(more[j], q) /\ ~ Disconnects(more[j], q)
    BY <2>3, AllReceivedType
  <2> HIDE DEF more
  <2>5. T \in Table(h)
    <3>1. s.table[r] \in Processor
      BY <1>2, <2>2, TableIs
    <3>2. decoded(s.table[r]) \in Processor
      BY <3>1, ProcessorTypes
    <3> QED BY <2>2, <3>2, SetType
  <2>6. \A q : q \in DOMAIN T <=> q \in DOMAIN s.table
    <3>1. DOMAIN T = DOMAIN s.table \union {r}
      BY SetDomain
    <3> QED BY <1>2, <3>1
  <2>7. E \in Seq(Event(h))
    BY <2>2, <2>4
  <2>8. \A q : Known(R, E, q) <=> Known(R, s.events, q)
    <3>1. \A q : Known(R, s.events \o more, q) <=> Known(R, s.events, q)
      BY <2>2, <2>4, KnownConcat
    <3> QED BY <3>1
  <2>9. outcome \in Outcome
    BY DecodeOutcome
  <2> HIDE DEF outcome
  <2>10. res \in Outcome
    BY <2>2, <2>9
  <2> HIDE DEF T, E, res
  <2>11. t \in Ticking(h) /\ t.table = T /\ t.events = E
    BY <2>5, <2>7, <2>10 DEF Ticking
  <2> HIDE DEF t
  <2>12. Tracks(R, s) => Tracks(R, t)
    BY <2>6, <2>8, <2>11 DEF Tracks
  <2> QED BY <2>1, <2>6, <2>11, <2>12 DEF Evolves
<1> QED BY <1>1, <1>2

LEMMA OnMessageEffect ==
    ASSUME NEW h, NEW R, NEW s \in Ticking(h), NEW r \in Remotes(h), NEW m \in Message
    PROVE  /\ Evolves(h, R, s, OnMessage(s, r, m))
           /\ s.result # "throws" =>
                 \A q : q \in DOMAIN OnMessage(s, r, m).table <=>
                            q \in DOMAIN s.table \/ (q = r /\ m.kind \in Accepting)
<1>1. CASE s.result = "throws"
  <2>1. OnMessage(s, r, m) = s
    BY <1>1 DEF OnMessage
  <2> QED BY <1>1, <2>1, EvolvesNot
<1>2. CASE s.result # "throws" /\ m.kind \in Accepting
  <2>1. OnMessage(s, r, m) = OnConnected(s, r)
    BY <1>2 DEF OnMessage, Accepting
  <2>2. Evolves(h, R, s, OnConnected(s, r))
    BY OnConnectedEffect
  <2>3. \A q : q \in DOMAIN OnConnected(s, r).table <=> q \in DOMAIN s.table \/ q = r
    BY OnConnectedEffect
  <2> QED BY <1>2, <2>1, <2>2, <2>3
<1>3. CASE s.result # "throws" /\ m.kind = "GamePacket"
  <2>1. OnMessage(s, r, m) = OnGamePacket(s, r, m.batch) /\ m.kind \notin Accepting
    BY <1>3 DEF OnMessage, Accepting
  <2>2. m.batch \in Batch
    BY <1>3 DEF Message, Plains, Accepting
  <2> QED BY <1>3, <2>1, <2>2, OnGamePacketEffect
<1>4. CASE s.result # "throws" /\ m.kind \notin Accepting /\ m.kind # "GamePacket"
  <2>1. OnMessage(s, r, m) = s
    BY <1>4 DEF OnMessage
  <2> QED BY <1>4, <2>1, EvolvesNot
<1> QED BY <1>1, <1>2, <1>3, <1>4

(* What a tick adds to the table and what it takes away.                   *)
Gains(s, t, A) ==
    t.result # "throws" =>
        \A q : q \in DOMAIN t.table <=> q \in DOMAIN s.table \/ q \in A

Loses(s, t, A) ==
    t.result # "throws" =>
        \A q : q \in DOMAIN t.table <=> q \in DOMAIN s.table /\ q \notin A

LEMMA GainsOn ==
    ASSUME NEW s, NEW t, NEW u, NEW A, NEW B, NEW C,
           Gains(s, t, A), Gains(t, u, B), u.result # "throws" => t.result # "throws",
           \A q : q \in C <=> q \in A \/ q \in B
    PROVE  Gains(s, u, C)
BY DEF Gains

LEMMA LosesOn ==
    ASSUME NEW s, NEW t, NEW u, NEW A, NEW B, NEW C,
           Loses(s, t, A), Loses(t, u, B), u.result # "throws" => t.result # "throws",
           \A q : q \in C <=> q \in A \/ q \in B
    PROVE  Loses(s, u, C)
BY DEF Loses

Accepts(messages) == \E i \in 1 .. Len(messages) : messages[i].kind \in Accepting

LEMMA AcceptsKinds ==
    ASSUME NEW messages \in Seq(Message)
    PROVE  Accepts(messages) <=> Kinds(messages) \intersect Accepting # {}
<1>1. DOMAIN messages = 1 .. Len(messages)
  OBVIOUS
<1> QED BY <1>1 DEF Accepts, Kinds

Opening(r, messages) == {q \in {r} : Accepts(messages)}

Opened(h, order, received) ==
    {q \in Remotes(h) : /\ \E i \in 1 .. Len(order) : order[i] = q
                        /\ Accepts(received[q])}

Closing(r, messages) == {q \in {r} : Left(messages)}

Closed(h, order, received) ==
    {q \in Remotes(h) : /\ \E i \in 1 .. Len(order) : order[i] = q
                        /\ Left(received[q])}

LEMMA OnMessagesEffect ==
    ASSUME NEW h, NEW R, NEW s \in Ticking(h), NEW r \in Remotes(h),
           NEW messages \in Seq(Message)
    PROVE  /\ Evolves(h, R, s, OnMessages(s, r, messages))
           /\ Gains(s, OnMessages(s, r, messages), Opening(r, messages))
<1> DEFINE N == Len(messages)
           A(k) == {q \in {r} : \E i \in 1 .. k : messages[i].kind \in Accepting}
<1>0. N \in Nat
  OBVIOUS
<1>1. PICK run : /\ run[0] = s
                 /\ \A k \in 1 .. N : run[k] = OnMessage(run[k - 1], r, messages[k])
                 /\ OnMessages(s, r, messages) = run[N]
  <2>1. \E run : MessageRun(run, s, r, messages)
    BY <1>0, OnMessagesRun
  <2> QED BY <2>1 DEF MessageRun
<1> DEFINE G == {k \in 0 .. N : Evolves(h, R, s, run[k]) /\ Gains(s, run[k], A(k))}
<1>2. 0 \in G
  <2>1. Evolves(h, R, s, s)
    BY EvolvesNot
  <2>2. Gains(s, s, A(0))
    BY DEF Gains
  <2> HIDE DEF A
  <2> QED BY <1>0, <1>1, <2>1, <2>2
<1>3. ASSUME NEW k \in 1 .. N, k - 1 \in G
      PROVE  k \in G
  <2>1. PICK u : u = run[k - 1]
    OBVIOUS
  <2>2. Evolves(h, R, s, u) /\ Gains(s, u, A(k - 1))
    BY <1>3, <2>1
  <2>3. PICK m : m = messages[k]
    OBVIOUS
  <2>4. PICK t : t = OnMessage(u, r, m)
    OBVIOUS
  <2>5. u \in Ticking(h) /\ m \in Message
    BY <2>2, <2>3 DEF Evolves
  <2>6. Evolves(h, R, u, t)
    BY <2>4, <2>5, OnMessageEffect
  <2>7. u.result # "throws" =>
            \A q : q \in DOMAIN t.table <=>
                       q \in DOMAIN u.table \/ (q = r /\ m.kind \in Accepting)
    BY <2>4, <2>5, OnMessageEffect
  <2>8. PICK B : B = {q \in {r} : m.kind \in Accepting}
    OBVIOUS
  <2>9. Gains(u, t, B)
    <3>1. \A q : q \in B <=> q = r /\ m.kind \in Accepting
      BY <2>8
    <3>2. t.result # "throws" => u.result # "throws"
      BY <2>6 DEF Evolves
    <3> QED BY <2>7, <3>1, <3>2 DEF Gains
  <2>10. \A q : q \in A(k) <=> q \in A(k - 1) \/ q \in B
    <3>1. (\E i \in 1 .. k : messages[i].kind \in Accepting) <=>
              \/ \E i \in 1 .. (k - 1) : messages[i].kind \in Accepting
              \/ m.kind \in Accepting
      <4>1. \A i \in 1 .. k : i \in 1 .. (k - 1) \/ i = k
        OBVIOUS
      <4>2. \A i \in 1 .. (k - 1) : i \in 1 .. k
        OBVIOUS
      <4> QED BY <2>3, <4>1, <4>2
    <3> QED BY <2>8, <3>1
  <2>11. Evolves(h, R, s, t)
    BY <2>2, <2>6, EvolvesOn
  <2> HIDE DEF A
  <2>12. Gains(s, t, A(k))
    <3>1. t.result # "throws" => u.result # "throws"
      BY <2>6 DEF Evolves
    <3> QED BY <2>2, <2>9, <2>10, <3>1, GainsOn
  <2>13. run[k] = t
    BY <1>1, <2>1, <2>3, <2>4
  <2> QED BY <2>11, <2>12, <2>13
<1>4. \A k \in 0 .. N : k \in G
  <2> HIDE DEF G
  <2> QED BY <1>0, <1>2, <1>3, StepsInduction
<1>5. Evolves(h, R, s, run[N]) /\ Gains(s, run[N], A(N))
  <2> HIDE DEF A
  <2> QED BY <1>0, <1>4
<1>6. A(N) = Opening(r, messages)
  BY DEF Opening, Accepts
<1> QED BY <1>1, <1>5, <1>6

LEMMA ArrivalsEffect ==
    ASSUME NEW h, NEW R, NEW s \in Ticking(h), NEW order \in Seq(Remotes(h)),
           NEW received, \A r \in Remotes(h) : received[r] \in Seq(Message)
    PROVE  /\ Evolves(h, R, s, Arrivals(s, order, received))
           /\ Gains(s, Arrivals(s, order, received),
                    Opened(h, order, received))
<1> DEFINE N == Len(order)
           A(k) == {q \in Remotes(h) : /\ \E i \in 1 .. k : order[i] = q
                                       /\ Accepts(received[q])}
<1>0. N \in Nat
  OBVIOUS
<1>1. PICK run : /\ run[0] = s
                 /\ \A k \in 1 .. N :
                       run[k] = OnMessages(run[k - 1], order[k], received[order[k]])
                 /\ Arrivals(s, order, received) = run[N]
  <2>1. \E run : ArrivalRun(run, s, order, received)
    BY <1>0, ArrivalsRun
  <2> QED BY <2>1 DEF ArrivalRun
<1> DEFINE G == {k \in 0 .. N : Evolves(h, R, s, run[k]) /\ Gains(s, run[k], A(k))}
<1>2. 0 \in G
  <2>1. Evolves(h, R, s, s)
    BY EvolvesNot
  <2>2. Gains(s, s, A(0))
    BY DEF Gains
  <2> HIDE DEF A
  <2> QED BY <1>0, <1>1, <2>1, <2>2
<1>3. ASSUME NEW k \in 1 .. N, k - 1 \in G
      PROVE  k \in G
  <2>1. PICK u : u = run[k - 1]
    OBVIOUS
  <2>2. Evolves(h, R, s, u) /\ Gains(s, u, A(k - 1))
    BY <1>3, <2>1
  <2>3. PICK r \in Remotes(h) : r = order[k]
    OBVIOUS
  <2>4. PICK messages \in Seq(Message) : messages = received[r]
    OBVIOUS
  <2>5. PICK t : t = OnMessages(u, r, messages)
    OBVIOUS
  <2>6. u \in Ticking(h)
    BY <2>2 DEF Evolves
  <2>7. PICK B : B = Opening(r, messages)
    OBVIOUS
  <2>8. Evolves(h, R, u, t)
    BY <2>5, <2>6, OnMessagesEffect
  <2>9. Gains(u, t, B)
    <3>1. Gains(u, OnMessages(u, r, messages), Opening(r, messages))
      BY <2>6, OnMessagesEffect
    <3> QED BY <2>5, <2>7, <3>1
  <2>10. \A q : q \in A(k) <=> q \in A(k - 1) \/ q \in B
    <3>1. \A q : q \in B <=> q = r /\ Accepts(received[q])
      BY <2>4, <2>7 DEF Opening, Closing
    <3>2. \A q : (\E i \in 1 .. k : order[i] = q) <=>
                     (\E i \in 1 .. (k - 1) : order[i] = q) \/ q = r
      <4>1. \A i \in 1 .. k : i \in 1 .. (k - 1) \/ i = k
        OBVIOUS
      <4>2. \A i \in 1 .. (k - 1) : i \in 1 .. k
        OBVIOUS
      <4> QED BY <2>3, <4>1, <4>2
    <3> QED BY <3>1, <3>2
  <2>11. Evolves(h, R, s, t)
    BY <2>2, <2>8, EvolvesOn
  <2> HIDE DEF A
  <2>12. Gains(s, t, A(k))
    <3>1. t.result # "throws" => u.result # "throws"
      BY <2>8 DEF Evolves
    <3> QED BY <2>2, <2>9, <2>10, <3>1, GainsOn
  <2>13. run[k] = t
    BY <1>1, <2>1, <2>3, <2>4, <2>5
  <2> QED BY <2>11, <2>12, <2>13
<1>4. \A k \in 0 .. N : k \in G
  <2> HIDE DEF G
  <2> QED BY <1>0, <1>2, <1>3, StepsInduction
<1>5. Evolves(h, R, s, run[N]) /\ Gains(s, run[N], A(N))
  <2> HIDE DEF A
  <2> QED BY <1>0, <1>4
<1> QED BY <1>1, <1>5 DEF Opened

LEMMA OnLeftEffect ==
    ASSUME NEW h, NEW R, NEW s \in Ticking(h), NEW r \in Remotes(h), NEW messages
    PROVE  /\ Evolves(h, R, s, OnLeft(s, r, messages))
           /\ Loses(s, OnLeft(s, r, messages), Closing(r, messages))
<1>1. CASE s.result # "throws" /\ Left(messages)
  <2>1. OnLeft(s, r, messages) = OnDisconnected(s, r)
    BY <1>1 DEF OnLeft
  <2>2. Evolves(h, R, s, OnDisconnected(s, r))
    BY OnDisconnectedEffect
  <2>3. \A q : q \in DOMAIN OnDisconnected(s, r).table <=> q \in DOMAIN s.table /\ q # r
    BY OnDisconnectedEffect
  <2>4. Loses(s, OnDisconnected(s, r), Closing(r, messages))
    BY <1>1, <2>3 DEF Loses, Closing
  <2> QED BY <2>1, <2>2, <2>4
<1>2. CASE s.result = "throws"
  <2>1. OnLeft(s, r, messages) = s
    BY <1>2 DEF OnLeft
  <2>2. Evolves(h, R, s, s)
    BY EvolvesNot
  <2>3. Loses(s, s, Closing(r, messages))
    BY <1>2 DEF Loses, Closing
  <2> QED BY <2>1, <2>2, <2>3
<1>3. CASE ~ Left(messages)
  <2>1. OnLeft(s, r, messages) = s
    BY <1>3 DEF OnLeft
  <2>2. Evolves(h, R, s, s)
    BY EvolvesNot
  <2>3. Loses(s, s, Closing(r, messages))
    BY <1>3 DEF Loses, Closing
  <2> QED BY <2>1, <2>2, <2>3
<1> QED BY <1>1, <1>2, <1>3

LEMMA DeparturesEffect ==
    ASSUME NEW h, NEW R, NEW s \in Ticking(h), NEW order \in Seq(Remotes(h)), NEW received
    PROVE  /\ Evolves(h, R, s, Departures(s, order, received))
           /\ Loses(s, Departures(s, order, received),
                    Closed(h, order, received))
<1> DEFINE N == Len(order)
           A(k) == {q \in Remotes(h) : /\ \E i \in 1 .. k : order[i] = q
                                       /\ Left(received[q])}
<1>0. N \in Nat
  OBVIOUS
<1>1. PICK run : /\ run[0] = s
                 /\ \A k \in 1 .. N :
                       run[k] = OnLeft(run[k - 1], order[k], received[order[k]])
                 /\ Departures(s, order, received) = run[N]
  <2>1. \E run : DepartureRun(run, s, order, received)
    BY <1>0, DeparturesRun
  <2> QED BY <2>1 DEF DepartureRun
<1> DEFINE G == {k \in 0 .. N : Evolves(h, R, s, run[k]) /\ Loses(s, run[k], A(k))}
<1>2. 0 \in G
  <2>1. Evolves(h, R, s, s)
    BY EvolvesNot
  <2>2. Loses(s, s, A(0))
    BY DEF Loses
  <2> HIDE DEF A
  <2> QED BY <1>0, <1>1, <2>1, <2>2
<1>3. ASSUME NEW k \in 1 .. N, k - 1 \in G
      PROVE  k \in G
  <2>1. PICK u : u = run[k - 1]
    OBVIOUS
  <2>2. Evolves(h, R, s, u) /\ Loses(s, u, A(k - 1))
    BY <1>3, <2>1
  <2>3. PICK r \in Remotes(h) : r = order[k]
    OBVIOUS
  <2>4. PICK messages : messages = received[r]
    OBVIOUS
  <2>5. PICK t : t = OnLeft(u, r, messages)
    OBVIOUS
  <2>6. u \in Ticking(h)
    BY <2>2 DEF Evolves
  <2>7. PICK B : B = Closing(r, messages)
    OBVIOUS
  <2>8. Evolves(h, R, u, t)
    BY <2>5, <2>6, OnLeftEffect
  <2>9. Loses(u, t, B)
    BY <2>5, <2>6, <2>7, OnLeftEffect
  <2>10. \A q : q \in A(k) <=> q \in A(k - 1) \/ q \in B
    <3>1. \A q : q \in B <=> q = r /\ Left(received[q])
      BY <2>4, <2>7 DEF Opening, Closing
    <3>2. \A q : (\E i \in 1 .. k : order[i] = q) <=>
                     (\E i \in 1 .. (k - 1) : order[i] = q) \/ q = r
      <4>1. \A i \in 1 .. k : i \in 1 .. (k - 1) \/ i = k
        OBVIOUS
      <4>2. \A i \in 1 .. (k - 1) : i \in 1 .. k
        OBVIOUS
      <4> QED BY <2>3, <4>1, <4>2
    <3> QED BY <3>1, <3>2
  <2>11. Evolves(h, R, s, t)
    BY <2>2, <2>8, EvolvesOn
  <2> HIDE DEF A
  <2>12. Loses(s, t, A(k))
    <3>1. t.result # "throws" => u.result # "throws"
      BY <2>8 DEF Evolves
    <3> QED BY <2>2, <2>9, <2>10, <3>1, LosesOn
  <2>13. run[k] = t
    BY <1>1, <2>1, <2>3, <2>4, <2>5
  <2> QED BY <2>11, <2>12, <2>13
<1>4. \A k \in 0 .. N : k \in G
  <2> HIDE DEF G
  <2> QED BY <1>0, <1>2, <1>3, StepsInduction
<1>5. Evolves(h, R, s, run[N]) /\ Loses(s, run[N], A(N))
  <2> HIDE DEF A
  <2> QED BY <1>0, <1>4
<1> QED BY <1>1, <1>5 DEF Closed

(* Every remote has its turn in a tick.                                    *)
LEMMA OrderCovers ==
    ASSUME NEW S, IsFiniteSet(S), NEW order \in SetToSeqs(S)
    PROVE  /\ order \in Seq(S)
           /\ \A r \in S : \E i \in 1 .. Len(order) : order[i] = r
<1> DEFINE n == Cardinality(S)
           D == 1 .. n
<1>1. n \in Nat
  BY FS_CardinalityType
<1>2. /\ order \in [D -> S]
      /\ \A i, j \in D : i # j => order[i] # order[j]
  BY DEF SetToSeqs
<1>3. IsFiniteSet(D) /\ Cardinality(D) = n
  <2> HIDE DEF n
  <2>1. Cardinality(1 .. n) = n /\ IsFiniteSet(1 .. n)
    BY <1>1, FS_Interval
  <2> QED BY <2>1
<1>4. order \in Injection(D, S)
  BY <1>2 DEF Injection, IsInjective
<1>5. order \in Surjection(D, S)
  <2> HIDE DEF n, D
  <2> QED BY <1>3, <1>4, FS_Injection DEF n
<1>6. \A r \in S : \E i \in D : order[i] = r
  BY <1>5 DEF Surjection
<1> HIDE DEF n
<1>7. order \in Seq(S) /\ Len(order) = n
  BY <1>1, <1>2
<1> QED BY <1>6, <1>7

LEMMA UntickedType ==
    ASSUME TypeInv, NEW h \in Handler
    PROVE  Unticked(h) \in Ticking(h)
<1>1. table[h] \in Table(h)
  BY InTables DEF TypeInv
<1> QED BY <1>1 DEF Unticked, Ticking, Outcome

LEMMA TickedEffect ==
    ASSUME TypeInv, NEW h \in Handler, NEW R, NEW order \in SetToSeqs(Remotes(h)),
           NEW received, \A r \in Remotes(h) : received[r] \in Seq(Message)
    PROVE  LET t == Ticked(h, order, received)
           IN  /\ Evolves(h, R, Unticked(h), t)
               /\ t.result # "throws" =>
                     \A q \in Remotes(h) : q \in DOMAIN t.table <=>
                         /\ q \in DOMAIN table[h] \/ Accepts(received[q])
                         /\ ~ Left(received[q])
<1>1. IsFiniteSet(Remotes(h))
  BY ServerAssumption, FS_Singleton DEF Remotes
<1>2. order \in Seq(Remotes(h)) /\ \A r \in Remotes(h) : \E i \in 1 .. Len(order) : order[i] = r
  BY <1>1, OrderCovers
<1>3. PICK s : s = Unticked(h)
  OBVIOUS
<1>4. PICK t : t = Arrivals(s, order, received)
  OBVIOUS
<1>5. PICK u : u = Departures(t, order, received)
  OBVIOUS
<1>6. s \in Ticking(h) /\ DOMAIN s.table = DOMAIN table[h]
  BY <1>3, UntickedType DEF Unticked
<1>7. Evolves(h, R, s, t)
  BY <1>2, <1>4, <1>6, ArrivalsEffect
<1>8. Gains(s, t, Opened(h, order, received))
  BY <1>2, <1>4, <1>6, ArrivalsEffect
<1>9. t \in Ticking(h)
  BY <1>7 DEF Evolves
<1>10. Evolves(h, R, t, u)
  BY <1>2, <1>5, <1>9, DeparturesEffect
<1>11. Loses(t, u, Closed(h, order, received))
  BY <1>2, <1>5, <1>9, DeparturesEffect
<1>12. Evolves(h, R, s, u)
  BY <1>7, <1>10, EvolvesOn
<1>13. ASSUME u.result # "throws", NEW q \in Remotes(h)
       PROVE  q \in DOMAIN u.table <=>
                  /\ q \in DOMAIN table[h] \/ Accepts(received[q])
                  /\ ~ Left(received[q])
  <2>1. t.result # "throws"
    BY <1>10, <1>13 DEF Evolves
  <2>2. q \in DOMAIN t.table <=> q \in DOMAIN s.table \/ q \in Opened(h, order, received)
    BY <1>8, <2>1 DEF Gains
  <2>3. q \in DOMAIN u.table <=> q \in DOMAIN t.table /\ q \notin Closed(h, order, received)
    BY <1>11, <1>13 DEF Loses
  <2>4. q \in Opened(h, order, received) <=> Accepts(received[q])
    BY <1>2 DEF Opened
  <2>5. q \in Closed(h, order, received) <=> Left(received[q])
    BY <1>2 DEF Closed
  <2> QED BY <1>6, <2>2, <2>3, <2>4, <2>5
<1>14. u = Ticked(h, order, received)
  BY <1>3, <1>4, <1>5 DEF Ticked
<1> QED BY <1>3, <1>12, <1>13, <1>14

-----------------------------------------------------------------------------
(* What a tick does: the messages it received, remote by remote, and the   *)
(* state its loops end in.                                                 *)
Ticks(h, n, order, received, s) ==
    /\ n \in [Remotes(h) -> Nat]
    /\ order \in SetToSeqs(Remotes(h))
    /\ \A r \in Remotes(h) : /\ n[r] <= Len(wire[<<r, h>>])
                             /\ received[r] = SubSeq(wire[<<r, h>>], 1, n[r])
                             /\ received[r] \in Seq(Message)
    /\ s = Ticked(h, order, received)
    /\ mishap' = IF mishap = "fine" THEN s.result ELSE mishap
    /\ peer' = [l \in Link |-> IF l[1] = h
                  THEN PeerAfter(peer[l], received[l[2]]) ELSE peer[l]]
    /\ wire' = [l \in Link |->
          CASE l[2] = h -> SubSeq(wire[l], n[l[1]] + 1, Len(wire[l]))
            [] l[1] = h /\ "ConnectionRequestAccepted" \in Kinds(received[l[2]])
                 -> Append(wire[l], Plain("NewIncomingConnection"))
            [] OTHER -> wire[l]]
    /\ table' = [table EXCEPT ![h] = s.table]
    /\ events' = [events EXCEPT ![h] = IF s.result = "throws" THEN <<>> ELSE s.events]

LEMMA TickTakes ==
    ASSUME TypeInv, NEW h \in Handler, TickSome(h)
    PROVE  /\ \E n, order, received, s : Ticks(h, n, order, received, s)
           /\ h \in running /\ events[h] = <<>>
           /\ UNCHANGED <<running, sent, seen, clients, phase, budgets>>
<1>1. /\ h \in running /\ events[h] = <<>>
      /\ UNCHANGED <<running, sent, seen, clients, phase, budgets>>
  BY DEF TickSome, Tick
<1>2. PICK n \in Counts(h), order \in SetToSeqs(Remotes(h)) :
         LET received == Received(h, n)
             s == Ticked(h, order, received)
         IN  /\ mishap' = IF mishap = "fine" THEN s.result ELSE mishap
             /\ peer' = [l \in Link |-> IF l[1] = h
                           THEN PeerAfter(peer[l], received[l[2]]) ELSE peer[l]]
             /\ wire' = [l \in Link |->
                   CASE l[2] = h -> SubSeq(wire[l], n[l[1]] + 1, Len(wire[l]))
                     [] l[1] = h /\ "ConnectionRequestAccepted" \in Kinds(received[l[2]])
                          -> Append(wire[l], Plain("NewIncomingConnection"))
                     [] OTHER -> wire[l]]
             /\ table' = [table EXCEPT ![h] = s.table]
             /\ events' = [events EXCEPT ![h] =
                              IF s.result = "throws" THEN <<>> ELSE s.events]
  BY DEF TickSome, Tick
<1>3. PICK received : received = Received(h, n)
  OBVIOUS
<1>4. PICK s : s = Ticked(h, order, received)
  OBVIOUS
<1>5. n \in [Remotes(h) -> Nat] /\ \A r \in Remotes(h) : n[r] <= Len(wire[<<r, h>>])
  <2>1. PICK most : n \in [Remotes(h) -> 0 .. most]
    BY DEF Counts
  <2>2. \A r \in Remotes(h) : n[r] \in Nat
    BY <2>1
  <2> QED BY <2>1, <2>2 DEF Counts
<1>6. ASSUME NEW r \in Remotes(h)
      PROVE  /\ received[r] = SubSeq(wire[<<r, h>>], 1, n[r])
             /\ received[r] \in Seq(Message)
  <2>1. wire[<<r, h>>] \in Seq(Message)
    BY RemotesLink DEF TypeInv
  <2>2. received[r] = SubSeq(wire[<<r, h>>], 1, n[r])
    BY <1>3 DEF Received
  <2>3. n[r] \in Nat /\ n[r] <= Len(wire[<<r, h>>])
    BY <1>5
  <2> HIDE DEF Message
  <2>4. SubSeq(wire[<<r, h>>], 1, n[r]) \in Seq(Message)
    BY <2>1, <2>3
  <2> QED BY <2>2, <2>4
<1>7. Ticks(h, n, order, received, s)
  BY <1>2, <1>3, <1>4, <1>5, <1>6 DEF Ticks
<1> QED BY <1>1, <1>7

LEMMA TickType ==
    ASSUME TypeInv, NEW h \in Handler, TickSome(h)
    PROVE  TypeInv'
<1>1. UNCHANGED <<running, sent, seen, clients, phase>>
  BY TickTakes
<1>2. PICK n, order, received, s : Ticks(h, n, order, received, s)
  BY TickTakes
<1>3. s \in Ticking(h)
  <2>1. /\ order \in SetToSeqs(Remotes(h))
        /\ \A r \in Remotes(h) : received[r] \in Seq(Message)
        /\ s = Ticked(h, order, received)
    BY <1>2 DEF Ticks
  <2> QED BY <2>1, TickedEffect DEF Evolves
<1>4. s.table \in Table(h) /\ s.events \in Seq(Event(h)) /\ s.result \in Outcome
  BY <1>3 DEF Ticking
<1>5. table' \in Tables
  BY <1>2, <1>4, TablesExcept DEF Ticks, TypeInv
<1>6. mishap' \in Outcome
  BY <1>2, <1>4 DEF Ticks, TypeInv
<1>7. DOMAIN events' = Handler /\ \A g \in Handler : events'[g] \in Seq(Event(g))
  <2>1. PICK E : E = IF s.result = "throws" THEN <<>> ELSE s.events
    OBVIOUS
  <2>2. E \in Seq(Event(h))
    BY <1>4, <2>1
  <2>3. events' = [events EXCEPT ![h] = E]
    BY <1>2, <2>1 DEF Ticks
  <2> QED BY <2>2, <2>3 DEF TypeInv
<1>8. peer' \in [Link -> {"None", "Connecting", "Connected"}]
  BY <1>2 DEF Ticks, TypeInv, PeerAfter
<1>9. wire' \in [Link -> Seq(Message)]
  <2>1. ASSUME NEW l \in Link
        PROVE  wire'[l] \in Seq(Message)
    <3>1. l[1] \in Handler /\ l[2] \in Handler /\ l[1] # l[2] /\ l[2] \in Remotes(l[1])
             /\ l[1] \in Remotes(l[2])
      BY LinkEnds, RemotesLink
    <3>2. wire[l] \in Seq(Message)
      BY DEF TypeInv
    <3>3. wire'[l] =
             CASE l[2] = h -> SubSeq(wire[l], n[l[1]] + 1, Len(wire[l]))
               [] l[1] = h /\ "ConnectionRequestAccepted" \in Kinds(received[l[2]])
                    -> Append(wire[l], Plain("NewIncomingConnection"))
               [] OTHER -> wire[l]
      BY <1>2 DEF Ticks
    <3>4. l[2] = h => n[l[1]] \in Nat
      BY <1>2, <3>1 DEF Ticks
    <3>5. Plain("NewIncomingConnection") \in Message
      BY DEF Plain, Message, Plains, Accepting
    <3> HIDE DEF Message
    <3>6. CASE l[2] = h
      <4>1. wire'[l] = SubSeq(wire[l], n[l[1]] + 1, Len(wire[l]))
        BY <3>1, <3>3, <3>6
      <4> QED BY <3>2, <3>4, <3>6, <4>1
    <3>7. CASE l[2] # h
      BY <3>2, <3>3, <3>5, <3>7
    <3> QED BY <3>6, <3>7
  <2> DEFINE W(l) ==
                CASE l[2] = h -> SubSeq(wire[l], n[l[1]] + 1, Len(wire[l]))
                  [] l[1] = h /\ "ConnectionRequestAccepted" \in Kinds(received[l[2]])
                       -> Append(wire[l], Plain("NewIncomingConnection"))
                  [] OTHER -> wire[l]
  <2>2. wire' = [l \in Link |-> W(l)]
    BY <1>2 DEF Ticks
  <2> HIDE DEF W
  <2>3. wire' = [l \in Link |-> wire'[l]]
    BY <2>2
  <2> QED BY <2>1, <2>3
<1> QED BY <1>1, <1>5, <1>6, <1>7, <1>8, <1>9 DEF TypeInv

-----------------------------------------------------------------------------
(* What the users do between two ticks.                                    *)
Calling(s) == s \in Calls /\ SameRemotes(Now, s)

LEMMA NowCalling ==
    ASSUME TypeInv
    PROVE  Now \in Calls /\ Calling(Now)
BY DEF TypeInv, Now, Calls, Calling, SameRemotes

LEMMA BecomeType ==
    ASSUME TypeInv, NEW s, Calling(s), Become(s)
    PROVE  /\ table' \in Tables
           /\ wire' \in [Link -> Seq(Message)]
           /\ sent' \in [Link -> Seq(Packet)]
           /\ \A h \in Handler : DOMAIN table'[h] = DOMAIN table[h]
BY DEF Calling, Become, Calls, SameRemotes, Now

LEMMA SendBatchCalling ==
    ASSUME TypeInv, NEW h \in Handler, NEW R, NEW packets \in Seq(Packet)
    PROVE  Calling(SendBatchTo(h, R, Now, packets))
<1>1. PICK s \in Calls : s = Now
  BY NowCalling
<1>2. PICK t : t = SendBatchTo(h, R, s, packets)
  OBVIOUS
<1>3. t \in Calls /\ SameRemotes(s, t)
  BY <1>2, SendBatchToType
<1> QED BY <1>1, <1>2, <1>3 DEF Calling

LEMMA AnswerType ==
    ASSUME NEW info \in ClientInfo, NEW p
    PROVE  /\ Answer(info, p).info \in ClientInfo
           /\ Answer(info, p).packets \in Seq(Packet)
<1>1. ASSUME NEW state \in {"WaitingForRequestNetworkSettings", "WaitingForLogin",
                            "WaitingForResourcePackResponse",
                            "WaitingForChunkRadiusRequest", "Spawned"},
             NEW packets \in Seq(Packet)
      PROVE  /\ Answered(info, state, packets).info \in ClientInfo
             /\ Answered(info, state, packets).packets \in Seq(Packet)
  BY DEF Answered, ClientInfo
<1>2. info.state \in {"WaitingForRequestNetworkSettings", "WaitingForLogin",
                      "WaitingForResourcePackResponse",
                      "WaitingForChunkRadiusRequest", "Spawned"}
  BY DEF ClientInfo
<1>3. CASE p = "RequestNetworkSettings"
  <2>1. <<"NetworkSettings">> \in Seq(Packet)
    BY DEF Packet
  <2>2. Answer(info, p) = Answered(info, "WaitingForLogin", <<"NetworkSettings">>)
    BY <1>3 DEF Answer, OnRequestNetworkSettings
  <2> QED BY <1>1, <2>1, <2>2
<1>4. CASE p = "Login"
  <2>1. <<"PlayStatus", "ResourcePacksInfo">> \in Seq(Packet)
    BY DEF Packet
  <2>2. Answer(info, p) = Answered(info, "WaitingForResourcePackResponse",
                                   <<"PlayStatus", "ResourcePacksInfo">>)
    BY <1>4 DEF Answer, OnLogin
  <2> QED BY <1>1, <2>1, <2>2
<1>5. CASE p = "ResponseNone"
  <2>1. <<"ResourcePackStack">> \in Seq(Packet)
    BY DEF Packet
  <2>2. Answer(info, p) = Answered(info, info.state, <<"ResourcePackStack">>)
    BY <1>5 DEF Answer, OnResponse
  <2> QED BY <1>1, <1>2, <2>1, <2>2
<1>6. CASE p = "ResponseCompleted"
  <2>1. <<"StartGame">> \in Seq(Packet)
    BY DEF Packet
  <2>2. Answer(info, p) = Answered(info, "WaitingForChunkRadiusRequest", <<"StartGame">>)
    BY <1>6 DEF Answer, OnCompleted
  <2> QED BY <1>1, <2>1, <2>2
<1>7. CASE p = "RequestChunkRadius"
  <2> DEFINE chunks == IF info.chunks_sent THEN <<>> ELSE <<"LevelChunk">>
             packets == <<"ChunkRadiusUpdated">> \o chunks \o <<"PlayerSpawn">>
             j == [info EXCEPT !.chunks_sent = TRUE]
  <2>1. packets \in Seq(Packet)
    <3>1. <<"ChunkRadiusUpdated">> \in Seq(Packet) /\ <<"PlayerSpawn">> \in Seq(Packet)
      BY DEF Packet
    <3>2. <<"LevelChunk">> \in Seq(Packet) /\ <<>> \in Seq(Packet)
      BY DEF Packet
    <3>3. chunks \in Seq(Packet)
      BY <3>2
    <3> HIDE DEF chunks
    <3> QED BY <3>1, <3>3
  <2>2. Answer(info, p) = [info |-> [j EXCEPT !.state = "Spawned"], packets |-> packets]
    BY <1>7 DEF Answer, OnRequestChunkRadius, Answered
  <2>3. [j EXCEPT !.state = "Spawned"] \in ClientInfo
    BY DEF ClientInfo
  <2> HIDE DEF packets, j
  <2> QED BY <2>1, <2>2, <2>3
<1>8. CASE p \notin {"RequestNetworkSettings", "Login", "ResponseNone",
                     "ResponseCompleted", "RequestChunkRadius"}
  <2>1. <<>> \in Seq(Packet)
    OBVIOUS
  <2>2. Answer(info, p) = Answered(info, info.state, <<>>)
    BY <1>8 DEF Answer
  <2> QED BY <1>1, <1>2, <2>1, <2>2
<1> QED BY <1>3, <1>4, <1>5, <1>6, <1>7, <1>8

LEMMA ReplyType ==
    ASSUME NEW p \in DOMAIN Reply
    PROVE  Reply[p].phase \in Phase /\ Reply[p].packets \in Seq(Packet)
<1>1. /\ <<"Login">> \in Seq(Packet) /\ <<"ResponseNone">> \in Seq(Packet)
      /\ <<"ResponseCompleted">> \in Seq(Packet) /\ <<"RequestChunkRadius">> \in Seq(Packet)
      /\ <<"SetLocalPlayerAsInit">> \in Seq(Packet)
  BY DEF Packet
<1>2. DOMAIN Reply = {"NetworkSettings", "ResourcePacksInfo", "ResourcePackStack",
                      "StartGame", "PlayerSpawn"}
  BY DEF Reply
<1>3. CASE p = "NetworkSettings"
  BY <1>1, <1>3 DEF Reply, Phase
<1>4. CASE p = "ResourcePacksInfo"
  BY <1>1, <1>4 DEF Reply, Phase
<1>5. CASE p = "ResourcePackStack"
  BY <1>1, <1>5 DEF Reply, Phase
<1>6. CASE p = "StartGame"
  BY <1>1, <1>6 DEF Reply, Phase
<1>7. CASE p = "PlayerSpawn"
  BY <1>1, <1>7 DEF Reply, Phase
<1> QED BY <1>2, <1>3, <1>4, <1>5, <1>6, <1>7

LEMMA SameRemotesOn ==
    ASSUME NEW s, NEW t, NEW u, SameRemotes(s, t), SameRemotes(t, u)
    PROVE  SameRemotes(s, u)
BY DEF SameRemotes

LEMMA ServerAnswersCalling ==
    ASSUME TypeInv, NEW c \in Client, NEW p, NEW packets \in Seq(Packet)
    PROVE  Calling(ServerAnswers(c, Now, p, packets))
<1>0. Server \in Handler /\ c \in Remotes(Server)
  BY DEF Handler, Remotes
<1>1. PICK s \in Calls : s = Now
  BY NowCalling
<1>2. PICK t : t = SendEach(Server, c, s, packets)
  OBVIOUS
<1>3. t \in Calls /\ SameRemotes(s, t)
  BY <1>0, <1>2, SendEachType
<1>4. PICK u : u = Configure(Server, c, t, ServerSwitch)
  OBVIOUS
<1>5. u \in Calls /\ SameRemotes(t, u)
  BY <1>0, <1>3, <1>4, ConfigureType
<1>6. SameRemotes(s, u)
  BY <1>3, <1>5, SameRemotesOn
<1>7. ServerAnswers(c, s, p, packets) = IF p = "RequestNetworkSettings" THEN u ELSE t
  BY <1>2, <1>4 DEF ServerAnswers
<1> QED BY <1>1, <1>3, <1>5, <1>6, <1>7 DEF Calling

LEMMA ClientAnswersCalling ==
    ASSUME TypeInv, NEW c \in Client, NEW p \in DOMAIN Reply
    PROVE  Calling(ClientAnswers(c, Now, p))
<1>0. c \in Handler /\ Server \in Remotes(c)
  BY ServerAssumption DEF Handler, Remotes
<1>1. PICK s \in Calls : s = Now
  BY NowCalling
<1>2. PICK t : t = Configure(c, Server, s, ClientSwitch)
  OBVIOUS
<1>3. t \in Calls /\ SameRemotes(s, t)
  BY <1>0, <1>2, ConfigureType
<1>4. PICK b : b = IF p = "NetworkSettings" THEN t ELSE s
  OBVIOUS
<1>5. b \in Calls /\ SameRemotes(s, b)
  BY <1>3, <1>4 DEF SameRemotes
<1>6. PICK packets \in Seq(Packet) : packets = Reply[p].packets
  BY ReplyType
<1>7. PICK u : u = SendEach(c, Server, b, packets)
  OBVIOUS
<1>8. u \in Calls /\ SameRemotes(b, u)
  BY <1>0, <1>5, <1>7, SendEachType
<1>9. SameRemotes(s, u)
  BY <1>5, <1>8, SameRemotesOn
<1>10. ClientAnswers(c, s, p) = u
  BY <1>2, <1>4, <1>6, <1>7 DEF ClientAnswers
<1> QED BY <1>1, <1>8, <1>9, <1>10 DEF Calling

LEMMA LooksType ==
    ASSUME TypeInv, NEW h \in Handler, events[h] # <<>>, Looks(h, Head(events[h]))
    PROVE  /\ Head(events[h]) \in Event(h)
           /\ h \in running
           /\ DOMAIN events' = Handler
           /\ \A g \in Handler : events'[g] \in Seq(Event(g))
           /\ events'[h] = Tail(events[h])
           /\ \A g \in Handler : g # h => events'[g] = events[g]
           /\ seen' \in [Link -> Seq(Packet)]
           /\ UNCHANGED <<running, peer, mishap, budgets>>
<1>1. PICK e : e = Head(events[h])
  OBVIOUS
<1>2. events[h] \in Seq(Event(h)) /\ DOMAIN events = Handler
  BY DEF TypeInv
<1>3. e \in Event(h) /\ Tail(events[h]) \in Seq(Event(h))
  BY <1>1, <1>2
<1>4. events' = [events EXCEPT ![h] = Tail(events[h])]
  BY DEF Looks
<1>5. /\ DOMAIN events' = Handler
      /\ events'[h] = Tail(events[h])
      /\ \A g \in Handler : g # h => events'[g] = events[g]
  BY <1>2, <1>4
<1>6. \A g \in Handler : events'[g] \in Seq(Event(g))
  BY <1>3, <1>5 DEF TypeInv
<1>7. seen' \in [Link -> Seq(Packet)]
  <2>1. seen' = IF e.type = "PacketReceived"
                  THEN [seen EXCEPT ![<<e.remote, h>>] = Append(@, e.packet)] ELSE seen
    BY <1>1 DEF Looks
  <2>2. CASE e.type = "PacketReceived"
    <3>1. e.remote \in Remotes(h) /\ e.packet \in Packet
      BY <1>3, <2>2 DEF Event
    <3>2. PICK l \in Link : l = <<e.remote, h>>
      BY <3>1, RemotesLink
    <3>3. seen' = [seen EXCEPT ![l] = Append(seen[l], e.packet)]
      BY <2>1, <2>2, <3>2
    <3>4. Append(seen[l], e.packet) \in Seq(Packet)
      BY <3>1 DEF TypeInv
    <3> QED BY <3>3, <3>4 DEF TypeInv
  <2>3. CASE e.type # "PacketReceived"
    BY <2>1, <2>3 DEF TypeInv
  <2> QED BY <2>2, <2>3
<1>8. h \in running /\ UNCHANGED <<running, peer, mishap, budgets>>
  BY DEF Looks
<1> QED BY <1>1, <1>3, <1>5, <1>6, <1>7, <1>8

(* The table of clients in the server's main.                              *)
ClientTable == UNION {[D -> ClientInfo] : D \in SUBSET Client}

LEMMA ClientTableIs ==
    ASSUME NEW t
    PROVE  t \in ClientTable <=> /\ t = [c \in DOMAIN t |-> t[c]]
                                 /\ DOMAIN t \in SUBSET Client
                                 /\ \A c \in DOMAIN t : t[c] \in ClientInfo
BY DEF ClientTable

LEMMA WelcomedType ==
    ASSUME clients \in ClientTable, NEW c \in Client
    PROVE  /\ Welcomed(c) \in ClientTable
           /\ \A q : q \in DOMAIN Welcomed(c) <=> q \in DOMAIN clients \/ q = c
<1>1. DOMAIN clients \in SUBSET Client /\ \A q \in DOMAIN clients : clients[q] \in ClientInfo
  BY ClientTableIs
<1>2. NewClientInfo \in ClientInfo
  BY DEF NewClientInfo, ClientInfo
<1>3. DOMAIN Welcomed(c) = DOMAIN clients \union {c}
  BY SetDomain DEF Welcomed
<1>4. Welcomed(c) \in [DOMAIN clients \union {c} -> ClientInfo]
  BY <1>1, <1>2 DEF Welcomed, Set
<1>5. DOMAIN clients \union {c} \in SUBSET Client
  BY <1>1
<1>6. Welcomed(c) \in ClientTable
  BY <1>4, <1>5 DEF ClientTable
<1> QED BY <1>3, <1>6

LEMMA DropClientType ==
    ASSUME clients \in ClientTable, NEW c
    PROVE  /\ Drop(clients, {c}) \in ClientTable
           /\ \A q : q \in DOMAIN Drop(clients, {c}) <=> q \in DOMAIN clients /\ q # c
<1>1. DOMAIN clients \in SUBSET Client /\ \A q \in DOMAIN clients : clients[q] \in ClientInfo
  BY ClientTableIs
<1>2. DOMAIN Drop(clients, {c}) = DOMAIN clients \ {c}
  BY DropDomain
<1>3. Drop(clients, {c}) \in [DOMAIN clients \ {c} -> ClientInfo]
  BY <1>1 DEF Drop
<1>4. DOMAIN clients \ {c} \in SUBSET Client
  BY <1>1
<1>5. Drop(clients, {c}) \in ClientTable
  BY <1>3, <1>4 DEF ClientTable
<1> QED BY <1>2, <1>5

(* The server's user: of the tables of the handlers it changes no remote,  *)
(* of its own what the event says.                                         *)
LEMMA ServerHandlesEffect ==
    ASSUME TypeInv, events[Server] # <<>>, ServerHandles(Head(events[Server]))
    PROVE  /\ TypeInv'
           /\ \A h \in Handler : DOMAIN table'[h] = DOMAIN table[h]
           /\ \A q : q \in DOMAIN clients' <=>
                  \/ Connects(Head(events[Server]), q)
                  \/ q \in DOMAIN clients /\ ~ Disconnects(Head(events[Server]), q)
<1>0. Server \in Handler /\ Remotes(Server) = Client
  BY DEF Handler, Remotes
<1>1. PICK e : e = Head(events[Server])
  OBVIOUS
<1>2. /\ Looks(Server, e) /\ UNCHANGED phase
      /\ \/ /\ e.type = "Connected"
            /\ clients' = Welcomed(e.remote)
            /\ UNCHANGED <<table, wire, sent>>
         \/ /\ e.type = "Disconnected"
            /\ clients' = Drop(clients, {e.remote})
            /\ UNCHANGED <<table, wire, sent>>
         \/ /\ e.type = "PacketReceived"
            /\ e.remote \in DOMAIN clients
            /\ clients' = [clients EXCEPT ![e.remote] =
                              Answer(clients[e.remote], e.packet).info]
            /\ Become(ServerAnswers(e.remote, Now, e.packet,
                                    Answer(clients[e.remote], e.packet).packets))
         \/ /\ e.type = "PacketReceived"
            /\ e.remote \notin DOMAIN clients
            /\ UNCHANGED <<clients, table, wire, sent>>
  BY <1>1 DEF ServerHandles
<1>3. /\ e \in Event(Server)
      /\ DOMAIN events' = Handler
      /\ \A g \in Handler : events'[g] \in Seq(Event(g))
      /\ seen' \in [Link -> Seq(Packet)]
      /\ UNCHANGED <<running, peer, mishap>>
  BY <1>0, <1>1, <1>2, LooksType
<1>4. e.remote \in Client /\ e.type \in {"Connected", "Disconnected", "PacketReceived"}
  BY <1>0, <1>3 DEF Event
<1>5. clients \in ClientTable
  BY DEF TypeInv, ClientTable
<1> DEFINE Rest == /\ table' \in Tables
                   /\ wire' \in [Link -> Seq(Message)]
                   /\ sent' \in [Link -> Seq(Packet)]
                   /\ \A h \in Handler : DOMAIN table'[h] = DOMAIN table[h]
           Client2 == /\ clients' \in ClientTable
                      /\ \A q : q \in DOMAIN clients' <=>
                            \/ Connects(e, q)
                            \/ q \in DOMAIN clients /\ ~ Disconnects(e, q)
<1>6. ASSUME UNCHANGED <<table, wire, sent>> PROVE Rest
  BY <1>6 DEF TypeInv
<1>7. CASE e.type = "Connected"
  <2>1. clients' = Welcomed(e.remote) /\ UNCHANGED <<table, wire, sent>>
    BY <1>2, <1>7
  <2>2. \A q : ~ Disconnects(e, q) /\ (Connects(e, q) <=> q = e.remote)
    BY <1>7 DEF Connects, Disconnects
  <2>3. Client2
    BY <1>4, <1>5, <2>1, <2>2, WelcomedType
  <2> QED BY <1>6, <2>1, <2>3, <1>1, <1>2, <1>3 DEF TypeInv, ClientTable
<1>8. CASE e.type = "Disconnected"
  <2>1. clients' = Drop(clients, {e.remote}) /\ UNCHANGED <<table, wire, sent>>
    BY <1>2, <1>8
  <2>2. \A q : ~ Connects(e, q) /\ (Disconnects(e, q) <=> q = e.remote)
    BY <1>8 DEF Connects, Disconnects
  <2>3. Client2
    BY <1>4, <1>5, <2>1, <2>2, DropClientType
  <2> QED BY <1>6, <2>1, <2>3, <1>1, <1>2, <1>3 DEF TypeInv, ClientTable
<1>9. CASE e.type = "PacketReceived"
  <2>1. \A q : ~ Connects(e, q) /\ ~ Disconnects(e, q)
    BY <1>9 DEF Connects, Disconnects
  <2>2. CASE e.remote \in DOMAIN clients
    <3>1. PICK info \in ClientInfo : info = clients[e.remote]
      BY <1>5, <2>2, ClientTableIs
    <3>2. PICK answer : answer = Answer(info, e.packet)
      OBVIOUS
    <3>3. answer.info \in ClientInfo /\ answer.packets \in Seq(Packet)
      BY <3>2, AnswerType
    <3>4. /\ clients' = [clients EXCEPT ![e.remote] = answer.info]
          /\ Become(ServerAnswers(e.remote, Now, e.packet, answer.packets))
      BY <1>2, <1>9, <2>2, <3>1, <3>2
    <3>5. Client2
      <4>1. DOMAIN clients \in SUBSET Client /\ \A c \in DOMAIN clients : clients[c] \in ClientInfo
        BY <1>5, ClientTableIs
      <4>2. clients' \in [DOMAIN clients -> ClientInfo]
        BY <3>3, <3>4, <4>1
      <4>3. clients' \in ClientTable /\ DOMAIN clients' = DOMAIN clients
        BY <4>1, <4>2 DEF ClientTable
      <4> QED BY <2>1, <4>3
    <3>6. PICK s : s = ServerAnswers(e.remote, Now, e.packet, answer.packets)
      OBVIOUS
    <3>7. Calling(s)
      BY <1>4, <3>3, <3>6, ServerAnswersCalling
    <3>8. Rest
      BY <3>4, <3>6, <3>7, BecomeType
    <3> QED BY <3>5, <3>8, <1>1, <1>2, <1>3 DEF TypeInv, ClientTable
  <2>3. CASE e.remote \notin DOMAIN clients
    <3>1. UNCHANGED <<clients, table, wire, sent>>
      BY <1>2, <1>9, <2>3
    <3>2. Client2
      BY <1>5, <2>1, <3>1
    <3> QED BY <1>6, <3>1, <3>2, <1>1, <1>2, <1>3 DEF TypeInv, ClientTable
  <2> QED BY <2>2, <2>3
<1> QED BY <1>4, <1>7, <1>8, <1>9

(* The end of a process.                                                   *)
LEMMA EndedType ==
    ASSUME TypeInv, NEW h \in Handler, NEW farewell \in Seq(Message), Ended(h, farewell)
    PROVE  /\ running' \in SUBSET Handler
           /\ peer' \in [Link -> {"None", "Connecting", "Connected"}]
           /\ table' \in Tables
           /\ wire' \in [Link -> Seq(Message)]
           /\ DOMAIN events' = Handler
           /\ \A g \in Handler : events'[g] \in Seq(Event(g))
           /\ \A g \in Handler : g # h => events'[g] = events[g] /\ table'[g] = table[g]
<1>1. running' \in SUBSET Handler /\ peer' \in [Link -> {"None", "Connecting", "Connected"}]
  BY DEF Ended, TypeInv
<1>2. <<>> \in Table(h)
  <2>1. <<>> = [x \in {} |-> <<>>[x]] /\ DOMAIN <<>> = {}
    OBVIOUS
  <2> QED BY <2>1, TableIs
<1>3. table' = [table EXCEPT ![h] = <<>>] /\ events' = [events EXCEPT ![h] = <<>>]
  BY DEF Ended
<1>4. table' \in Tables
  BY <1>2, <1>3, TablesExcept DEF TypeInv
<1>5. /\ DOMAIN events' = Handler
      /\ \A g \in Handler : events'[g] \in Seq(Event(g))
  BY <1>3 DEF TypeInv
<1>6. wire' \in [Link -> Seq(Message)]
  <2>1. wire' = [l \in Link |->
                   IF l[1] = h /\ peer[l] = "Connected" THEN wire[l] \o farewell
                   ELSE IF l[2] = h THEN <<>> ELSE wire[l]]
    BY DEF Ended
  <2>2. \A l \in Link : /\ wire[l] \in Seq(Message)
                        /\ wire[l] \o farewell \in Seq(Message)
                        /\ <<>> \in Seq(Message)
    <3> HIDE DEF Message
    <3> QED BY DEF TypeInv
  <2> QED BY <2>1, <2>2
<1>7. \A g \in Handler : g # h => events'[g] = events[g] /\ table'[g] = table[g]
  BY <1>3 DEF TypeInv, Tables
<1> QED BY <1>1, <1>4, <1>5, <1>6, <1>7

(* The user of a client.                                                   *)
LEMMA ClientHandlesEffect ==
    ASSUME TypeInv, NEW c \in Client, events[c] # <<>>, ClientHandles(c, Head(events[c]))
    PROVE  /\ TypeInv'
           /\ DOMAIN table'[Server] = DOMAIN table[Server]
           /\ events'[Server] = events[Server]
           /\ \A q \in Client : peer'[<<Server, q>>] = peer[<<Server, q>>]
           /\ UNCHANGED <<clients, mishap>>
           /\ Server \in running' => Server \in running
<1>0. c \in Handler /\ c # Server /\ Server \in Handler
  BY ServerAssumption DEF Handler
<1>1. PICK e : e = Head(events[c])
  OBVIOUS
<1>2. CASE e.type # "Disconnected"
  <2>1. /\ Looks(c, e) /\ UNCHANGED clients
        /\ \/ /\ phase' = [phase EXCEPT ![c] = "settings"]
              /\ Become(SendBatchTo(c, {Server}, Now, <<"RequestNetworkSettings">>))
           \/ /\ e.packet \in DOMAIN Reply
              /\ phase' = [phase EXCEPT ![c] = Reply[e.packet].phase]
              /\ Become(ClientAnswers(c, Now, e.packet))
           \/ UNCHANGED <<phase, table, wire, sent>>
    BY <1>1, <1>2 DEF ClientHandles
  <2>2. /\ e \in Event(c)
        /\ DOMAIN events' = Handler
        /\ \A g \in Handler : events'[g] \in Seq(Event(g))
        /\ \A g \in Handler : g # c => events'[g] = events[g]
        /\ seen' \in [Link -> Seq(Packet)]
        /\ UNCHANGED <<running, peer, mishap>>
    BY <1>0, <1>1, <2>1, LooksType
  <2> DEFINE Rest == /\ table' \in Tables
                     /\ wire' \in [Link -> Seq(Message)]
                     /\ sent' \in [Link -> Seq(Packet)]
                     /\ \A h \in Handler : DOMAIN table'[h] = DOMAIN table[h]
                     /\ phase' \in [Client -> Phase]
  <2>3. ASSUME NEW s, Calling(s), Become(s), NEW ph \in Phase,
               phase' = [phase EXCEPT ![c] = ph]
        PROVE  Rest
    <3>1. phase' \in [Client -> Phase]
      BY <2>3 DEF TypeInv
    <3> QED BY <2>3, <3>1, BecomeType
  <2>4. ASSUME phase' = [phase EXCEPT ![c] = "settings"],
               Become(SendBatchTo(c, {Server}, Now, <<"RequestNetworkSettings">>))
        PROVE  Rest
    <3>1. <<"RequestNetworkSettings">> \in Seq(Packet) /\ "settings" \in Phase
      BY DEF Packet, Phase
    <3>2. Calling(SendBatchTo(c, {Server}, Now, <<"RequestNetworkSettings">>))
      BY <1>0, <3>1, SendBatchCalling
    <3> QED BY <2>3, <2>4, <3>1, <3>2
  <2>5. ASSUME e.packet \in DOMAIN Reply,
               phase' = [phase EXCEPT ![c] = Reply[e.packet].phase],
               Become(ClientAnswers(c, Now, e.packet))
        PROVE  Rest
    <3>1. Reply[e.packet].phase \in Phase
      BY <2>5, ReplyType
    <3>2. Calling(ClientAnswers(c, Now, e.packet))
      BY <2>5, ClientAnswersCalling
    <3> QED BY <2>3, <2>5, <3>1, <3>2
  <2>6. ASSUME UNCHANGED <<phase, table, wire, sent>>
        PROVE  Rest
    BY <2>6 DEF TypeInv
  <2> HIDE DEF Rest
  <2>7. Rest
    BY <2>1, <2>4, <2>5, <2>6
  <2>8. TypeInv'
    BY <2>1, <2>2, <2>7 DEF TypeInv, Rest
  <2> QED BY <1>0, <2>1, <2>2, <2>7, <2>8 DEF Rest
<1>3. CASE e.type = "Disconnected"
  <2>1. /\ Ended(c, <<>>)
        /\ phase' = [phase EXCEPT ![c] = "off"]
        /\ UNCHANGED <<clients, mishap, sent, seen>>
    BY <1>1, <1>3 DEF ClientHandles
  <2>2. <<>> \in Seq(Message)
    OBVIOUS
  <2>3. /\ running' \in SUBSET Handler
        /\ peer' \in [Link -> {"None", "Connecting", "Connected"}]
        /\ table' \in Tables
        /\ wire' \in [Link -> Seq(Message)]
        /\ DOMAIN events' = Handler
        /\ \A g \in Handler : events'[g] \in Seq(Event(g))
        /\ \A g \in Handler : g # c => events'[g] = events[g] /\ table'[g] = table[g]
    BY <1>0, <2>1, <2>2, EndedType
  <2>4. phase' \in [Client -> Phase]
    BY <2>1 DEF TypeInv, Phase
  <2>5. TypeInv'
    BY <2>1, <2>3, <2>4 DEF TypeInv
  <2>6. \A q \in Client : peer'[<<Server, q>>] = peer[<<Server, q>>]
    <3>1. peer' = [l \in Link |-> IF l[1] = c THEN "None" ELSE peer[l]]
      BY <2>1 DEF Ended
    <3>2. ASSUME NEW q \in Client
          PROVE  <<Server, q>> \in Link
      <4>1. q \in Remotes(Server)
        BY DEF Remotes
      <4> QED BY <1>0, <4>1, RemotesLink
    <3> QED BY <1>0, <3>1, <3>2
  <2>7. Server \in running' => Server \in running
    BY <2>1 DEF Ended
  <2> QED BY <1>0, <2>1, <2>3, <2>5, <2>6, <2>7
<1> QED BY <1>2, <1>3

-----------------------------------------------------------------------------
(* What the server's user will make of the events it has not seen agrees   *)
(* with the tables of its handler and of its peer: the invariant behind    *)
(* ClientsMatchConnections.                                                *)
Matched(r) ==
    /\ r \in DOMAIN table[Server] <=> Known(DOMAIN clients, events[Server], r)
    /\ peer[<<Server, r>>] = "Connected" => r \in DOMAIN table[Server]
    /\ r \in DOMAIN table[Server] => peer[<<Server, r>>] # "None"

MatchInv ==
    Server \in running /\ mishap = "fine" => \A r \in Client : Matched(r)

(* A step that takes nothing of this away.                                 *)
Quiet ==
    /\ DOMAIN table'[Server] = DOMAIN table[Server]
    /\ events'[Server] = events[Server]
    /\ DOMAIN clients' = DOMAIN clients
    /\ \A r \in Client : \/ peer'[<<Server, r>>] = peer[<<Server, r>>]
                         \/ peer'[<<Server, r>>] = "Connecting"
    /\ Server \in running' => Server \in running
    /\ UNCHANGED mishap

LEMMA QuietMatch ==
    ASSUME MatchInv, Quiet
    PROVE  MatchInv'
<1> SUFFICES ASSUME Server \in running', mishap' = "fine", NEW r \in Client
             PROVE  Matched(r)'
  BY DEF MatchInv
<1>1. Matched(r)
  BY DEF MatchInv, Quiet
<1>2. PICK R : R = DOMAIN clients
  OBVIOUS
<1>3. PICK evs : evs = events[Server]
  OBVIOUS
<1>4. DOMAIN clients' = R /\ events'[Server] = evs
  BY <1>2, <1>3 DEF Quiet
<1>5. /\ r \in DOMAIN table'[Server] <=> Known(R, evs, r)
      /\ peer'[<<Server, r>>] = "Connected" => r \in DOMAIN table'[Server]
      /\ r \in DOMAIN table'[Server] => peer'[<<Server, r>>] # "None"
  BY <1>1, <1>2, <1>3 DEF Quiet, Matched
<1> QED BY <1>4, <1>5 DEF Matched

LEMMA ServerLink ==
    ASSUME NEW r \in Client
    PROVE  /\ Server \in Handler /\ r \in Remotes(Server) /\ r \in Handler
           /\ <<Server, r>> \in Link /\ <<r, Server>> \in Link /\ r # Server
<1>1. Server \in Handler /\ r \in Remotes(Server)
  BY DEF Handler, Remotes
<1> QED BY <1>1, RemotesLink

LEMMA ServerLooks ==
    ASSUME TypeInv, MatchInv, events[Server] # <<>>, ServerHandles(Head(events[Server]))
    PROVE  MatchInv'
<1> SUFFICES ASSUME Server \in running', mishap' = "fine", NEW r \in Client
             PROVE  Matched(r)'
  BY DEF MatchInv
<1>1. /\ events'[Server] = Tail(events[Server])
      /\ UNCHANGED <<running, peer, mishap>>
  <2>1. Server \in Handler /\ Looks(Server, Head(events[Server]))
    BY DEF ServerHandles, Handler
  <2> QED BY <2>1, LooksType
<1>2. PICK Q : Q = DOMAIN clients'
  OBVIOUS
<1>3. PICK R : R = DOMAIN clients
  OBVIOUS
<1>4. PICK evs \in Seq(Event(Server)) : evs = events[Server]
  BY DEF TypeInv, Handler
<1>5. r \in Q <=> Connects(Head(evs), r) \/ (r \in R /\ ~ Disconnects(Head(evs), r))
  BY <1>2, <1>3, <1>4, ServerHandlesEffect
<1>6. DOMAIN table'[Server] = DOMAIN table[Server]
  BY ServerHandlesEffect DEF Handler
<1>7. Known(R, evs, r) <=> Known(Q, Tail(evs), r)
  BY <1>4, <1>5, KnownTail
<1>8. Matched(r)
  BY <1>1 DEF MatchInv
<1>9. PICK rest : rest = Tail(evs)
  OBVIOUS
<1>10. /\ r \in DOMAIN table'[Server] <=> Known(Q, rest, r)
       /\ peer'[<<Server, r>>] = "Connected" => r \in DOMAIN table'[Server]
       /\ r \in DOMAIN table'[Server] => peer'[<<Server, r>>] # "None"
  BY <1>1, <1>3, <1>4, <1>6, <1>7, <1>8, <1>9 DEF Matched
<1>11. events'[Server] = rest
  BY <1>1, <1>4, <1>9
<1> QED BY <1>2, <1>10, <1>11 DEF Matched

LEMMA ServerTicks ==
    ASSUME TypeInv, MatchInv, TickSome(Server)
    PROVE  MatchInv'
<1> SUFFICES ASSUME Server \in running', mishap' = "fine", NEW r \in Client
             PROVE  Matched(r)'
  BY DEF MatchInv
<1>0. Server \in Handler /\ r \in Remotes(Server) /\ <<Server, r>> \in Link
  BY ServerLink
<1>1. Server \in running /\ events[Server] = <<>> /\ UNCHANGED clients
  BY <1>0, TickTakes
<1>2. PICK n, order, received, s : Ticks(Server, n, order, received, s)
  BY <1>0, TickTakes
<1>3. PICK R : R = DOMAIN clients
  OBVIOUS
<1>4. /\ order \in SetToSeqs(Remotes(Server))
      /\ \A q \in Remotes(Server) : received[q] \in Seq(Message)
      /\ s = Ticked(Server, order, received)
  BY <1>2 DEF Ticks
<1>5. mishap = "fine" /\ s.result = "fine"
  <2>1. mishap' = IF mishap = "fine" THEN s.result ELSE mishap
    BY <1>2 DEF Ticks
  <2> QED BY <2>1
<1>6. Evolves(Server, R, Unticked(Server), s)
  BY <1>0, <1>4, TickedEffect
<1>7. r \in DOMAIN s.table <=> /\ r \in DOMAIN table[Server] \/ Accepts(received[r])
                               /\ ~ Left(received[r])
  BY <1>0, <1>4, <1>5, TickedEffect
<1>8. Matched(r) /\ \A q \in Client : Matched(q)
  BY <1>1, <1>5 DEF MatchInv
<1>9. s \in Ticking(Server)
  BY <1>6 DEF Evolves
<1>10. Tracks(R, Unticked(Server))
  <2>1. Unticked(Server).table = table[Server] /\ Unticked(Server).events = <<>>
    BY DEF Unticked
  <2>2. \A q : q \in DOMAIN table[Server] <=> q \in R
    <3>1. DOMAIN table[Server] \in SUBSET Client /\ DOMAIN clients \in SUBSET Client
      <4>1. table[Server] \in Table(Server)
        BY <1>0, InTables DEF TypeInv
      <4>2. clients \in ClientTable
        BY DEF TypeInv, ClientTable
      <4>3. DOMAIN table[Server] \in SUBSET Remotes(Server)
        BY <4>1, TableIs
      <4>4. DOMAIN clients \in SUBSET Client
        BY <4>2, ClientTableIs
      <4> QED BY <4>3, <4>4 DEF Remotes
    <3>2. \A q \in Client : q \in DOMAIN table[Server] <=> q \in R
      <4>1. \A q \in Client : q \in DOMAIN table[Server] <=> Known(R, <<>>, q)
        BY <1>1, <1>3, <1>8 DEF Matched
      <4> QED BY <4>1, KnownEmpty
    <3> QED BY <1>3, <3>1, <3>2
  <2>3. \A q : Known(R, <<>>, q) <=> q \in R
    BY KnownEmpty
  <2> QED BY <2>1, <2>2, <2>3 DEF Tracks
<1>11. Tracks(R, s)
  BY <1>6, <1>10 DEF Evolves
<1>12. table'[Server] = s.table /\ events'[Server] = s.events
  BY <1>0, <1>2, <1>5 DEF Ticks, TypeInv, Tables
<1>13. peer'[<<Server, r>>] = PeerAfter(peer[<<Server, r>>], received[r])
  BY <1>0, <1>2 DEF Ticks
<1>14. Accepts(received[r]) <=> Kinds(received[r]) \intersect Accepting # {}
  BY <1>0, <1>4, AcceptsKinds
<1>15. /\ peer'[<<Server, r>>] = "Connected" => r \in DOMAIN s.table
       /\ r \in DOMAIN s.table => peer'[<<Server, r>>] # "None"
  BY <1>7, <1>8, <1>13, <1>14 DEF PeerAfter, Matched
<1>16. PICK evs : evs = s.events
  OBVIOUS
<1>17. r \in DOMAIN s.table <=> Known(R, evs, r)
  BY <1>11, <1>16 DEF Tracks
<1>18. DOMAIN clients' = R /\ events'[Server] = evs
  BY <1>1, <1>3, <1>12, <1>16
<1> QED BY <1>12, <1>15, <1>17, <1>18 DEF Matched

LEMMA ClientTicks ==
    ASSUME TypeInv, NEW c \in Client, TickSome(c)
    PROVE  mishap' = "fine" => (MatchInv => MatchInv')
<1>0. c \in Handler /\ c # Server /\ Server \in Handler
  BY ServerAssumption DEF Handler
<1>1. UNCHANGED <<running, clients>>
  BY <1>0, TickTakes
<1>2. PICK n, order, received, s : Ticks(c, n, order, received, s)
  BY <1>0, TickTakes
<1>3. table'[Server] = table[Server] /\ events'[Server] = events[Server]
  BY <1>0, <1>2 DEF Ticks, TypeInv, Tables
<1>4. \A q \in Client : peer'[<<Server, q>>] = peer[<<Server, q>>]
  <2>1. \A l \in Link : l[1] # c => peer'[l] = peer[l]
    BY <1>2 DEF Ticks
  <2> QED BY <1>0, <2>1, ServerLink
<1>5. SUFFICES ASSUME mishap' = "fine", MatchInv PROVE MatchInv'
  OBVIOUS
<1>6. mishap = "fine"
  BY <1>2, <1>5 DEF Ticks
<1>7. Quiet
  BY <1>1, <1>3, <1>4, <1>5, <1>6 DEF Quiet
<1> QED BY <1>5, <1>7, QuietMatch

LEMMA ConnectEffect ==
    ASSUME TypeInv, NEW c \in Client, Connect(c)
    PROVE  TypeInv' /\ Quiet
<1>0. /\ <<Server, c>> \in Link /\ <<c, Server>> \in Link /\ c \in Handler
      /\ \A r \in Client : <<Server, r>> \in Link
  BY ServerLink
<1>1. /\ running' = running \union {c}
      /\ peer' = [peer EXCEPT ![<<c, Server>>] = "Connecting", ![<<Server, c>>] = "Connecting"]
      /\ wire' = [wire EXCEPT ![<<c, Server>>] = <<>>,
                              ![<<Server, c>>] = <<Plain("ConnectionRequestAccepted")>>]
      /\ sent' = [sent EXCEPT ![<<c, Server>>] = <<>>, ![<<Server, c>>] = <<>>]
      /\ seen' = [seen EXCEPT ![<<c, Server>>] = <<>>, ![<<Server, c>>] = <<>>]
      /\ phase' = [phase EXCEPT ![c] = "connecting"]
      /\ UNCHANGED <<table, events, mishap, clients>>
      /\ Server \in running
  BY DEF Connect
<1>2. <<Plain("ConnectionRequestAccepted")>> \in Seq(Message) /\ <<>> \in Seq(Message)
  <2>1. Plain("ConnectionRequestAccepted") \in Message
    BY DEF Plain, Message, Plains, Accepting
  <2> HIDE DEF Message
  <2> QED BY <2>1
<1>3. wire' \in [Link -> Seq(Message)]
  <2> DEFINE first == <<Plain("ConnectionRequestAccepted")>>
  <2>1. wire' = [wire EXCEPT ![<<c, Server>>] = <<>>, ![<<Server, c>>] = first]
    BY <1>1
  <2> HIDE DEF first, Message
  <2>2. first \in Seq(Message) /\ <<>> \in Seq(Message)
    BY <1>2 DEF first
  <2> QED BY <2>1, <2>2 DEF TypeInv
<1>4. sent' \in [Link -> Seq(Packet)] /\ seen' \in [Link -> Seq(Packet)]
  <2>1. <<>> \in Seq(Packet)
    OBVIOUS
  <2> QED BY <1>1, <2>1 DEF TypeInv
<1>5. /\ running' \in SUBSET Handler
      /\ peer' \in [Link -> {"None", "Connecting", "Connected"}]
      /\ phase' \in [Client -> Phase]
  BY <1>0, <1>1 DEF TypeInv, Phase
<1>6. TypeInv'
  BY <1>1, <1>3, <1>4, <1>5 DEF TypeInv
<1>7. \A r \in Client : \/ peer'[<<Server, r>>] = peer[<<Server, r>>]
                        \/ peer'[<<Server, r>>] = "Connecting"
  BY <1>0, <1>1 DEF TypeInv
<1> QED BY <1>1, <1>6, <1>7 DEF Quiet

LEMMA EndEffect ==
    ASSUME TypeInv, NEW h \in Handler, NEW farewell \in Seq(Message), End(h, farewell)
    PROVE  TypeInv' /\ (Server \notin running' \/ Quiet)
<1>1. /\ Ended(h, farewell)
      /\ clients' = IF h = Server THEN <<>> ELSE clients
      /\ phase' = [c \in Client |-> IF c = h THEN "off" ELSE phase[c]]
      /\ UNCHANGED <<mishap, sent, seen>>
  BY DEF End
<1>2. /\ running' \in SUBSET Handler
      /\ peer' \in [Link -> {"None", "Connecting", "Connected"}]
      /\ table' \in Tables
      /\ wire' \in [Link -> Seq(Message)]
      /\ DOMAIN events' = Handler
      /\ \A g \in Handler : events'[g] \in Seq(Event(g))
      /\ \A g \in Handler : g # h => events'[g] = events[g] /\ table'[g] = table[g]
  BY <1>1, EndedType
<1>3. clients' \in UNION {[D -> ClientInfo] : D \in SUBSET Client}
  <2>1. <<>> = [x \in {} |-> <<>>[x]] /\ DOMAIN <<>> = {}
    OBVIOUS
  <2>2. <<>> \in [{} -> ClientInfo]
    BY <2>1
  <2>3. <<>> \in UNION {[D -> ClientInfo] : D \in SUBSET Client}
    BY <2>2
  <2> QED BY <1>1, <2>3 DEF TypeInv
<1>4. phase' \in [Client -> Phase]
  BY <1>1 DEF TypeInv, Phase
<1>5. TypeInv'
  BY <1>1, <1>2, <1>3, <1>4 DEF TypeInv
<1>6. CASE h = Server
  <2>1. Server \notin running'
    BY <1>1, <1>6 DEF Ended
  <2> QED BY <1>5, <2>1
<1>7. CASE h # Server
  <2>1. DOMAIN table'[Server] = DOMAIN table[Server] /\ events'[Server] = events[Server]
    BY <1>2, <1>7 DEF Handler
  <2>2. \A r \in Client : peer'[<<Server, r>>] = peer[<<Server, r>>]
    <3>1. peer' = [l \in Link |-> IF l[1] = h THEN "None" ELSE peer[l]]
      BY <1>1 DEF Ended
    <3> QED BY <1>7, <3>1, ServerLink
  <2>3. Server \in running' => Server \in running
    BY <1>1 DEF Ended
  <2>4. UNCHANGED <<clients, mishap>>
    BY <1>1, <1>7
  <2>5. Quiet
    BY <2>1, <2>2, <2>3, <2>4 DEF Quiet
  <2> QED BY <1>5, <2>5
<1> QED BY <1>6, <1>7

LEMMA ServerSendsEffect ==
    ASSUME TypeInv, Extra, NEW R, NEW packets \in Seq(Packet),
           Become(SendBatchTo(Server, R, Now, packets))
    PROVE  TypeInv' /\ Quiet
<1>0. Server \in Handler
  BY DEF Handler
<1>1. Calling(SendBatchTo(Server, R, Now, packets))
  BY <1>0, SendBatchCalling
<1>2. /\ table' \in Tables
      /\ wire' \in [Link -> Seq(Message)]
      /\ sent' \in [Link -> Seq(Packet)]
      /\ \A h \in Handler : DOMAIN table'[h] = DOMAIN table[h]
  BY <1>1, BecomeType
<1>3. UNCHANGED <<running, peer, events, mishap, seen, clients, phase>>
  BY DEF Extra
<1>4. TypeInv'
  BY <1>2, <1>3 DEF TypeInv
<1> QED BY <1>0, <1>2, <1>3, <1>4 DEF Quiet

LEMMA ExtrasEffect ==
    ASSUME TypeInv, TimeSync \/ Broadcast \/ \E c \in Client : SendBatch(c)
    PROVE  TypeInv' /\ Quiet
<1>1. <<"SetTime">> \in Seq(Packet) /\ <<"MovePlayer", "SetTime">> \in Seq(Packet)
  BY DEF Packet
<1>2. CASE TimeSync
  BY <1>1, <1>2, ServerSendsEffect DEF TimeSync
<1>3. CASE Broadcast
  <2>1. /\ Extra
        /\ Become(SendBatchTo(Server, {r \in Remotes(Server) : peer[<<Server, r>>] # "None"},
                              Now, <<"SetTime">>))
    BY <1>3 DEF Broadcast, Broadcasted
  <2>2. PICK R : R = {r \in Remotes(Server) : peer[<<Server, r>>] # "None"}
    OBVIOUS
  <2>3. Become(SendBatchTo(Server, R, Now, <<"SetTime">>))
    BY <2>1, <2>2
  <2> QED BY <1>1, <2>1, <2>3, ServerSendsEffect
<1>4. CASE \E c \in Client : SendBatch(c)
  <2>1. PICK c \in Client : SendBatch(c)
    BY <1>4
  <2>2. Extra /\ Become(SendBatchTo(Server, {c}, Now, <<"MovePlayer", "SetTime">>))
    BY <2>1 DEF SendBatch
  <2> QED BY <1>1, <2>2, ServerSendsEffect
<1> QED BY <1>2, <1>3, <1>4

-----------------------------------------------------------------------------
(* What is late has been on the wire: its messages have their type.        *)
LateInv == late \in [Link -> SUBSET Message]

LEMMA AbandonedType ==
    ASSUME TypeInv, LateInv, NEW L
    PROVE  Abandoned(L) \in [Link -> SUBSET Message]
<1>1. ASSUME NEW l \in Link
      PROVE  /\ late[l] \in SUBSET Message
             /\ {wire[l][i] : i \in OfKinds(wire[l], LateKinds)} \in SUBSET Message
  <2>1. PICK w \in Seq(Message) : w = wire[l]
    BY DEF TypeInv
  <2>2. OfKinds(w, LateKinds) \in SUBSET DOMAIN w
    BY DEF OfKinds
  <2>3. \A i \in DOMAIN w : w[i] \in Message
    <3> HIDE DEF Message
    <3> QED BY <2>1
  <2> QED BY <2>1, <2>2, <2>3 DEF LateInv
<1> HIDE DEF Message
<1>2. \A l \in Link :
        late[l] \union (IF l \in L THEN {wire[l][i] : i \in OfKinds(wire[l], LateKinds)} ELSE {})
          \in SUBSET Message
  BY <1>1
<1> QED BY <1>2 DEF Abandoned

LEMMA ReplacedType ==
    ASSUME NEW S, NEW w \in Seq(S), NEW i, NEW d \in S
    PROVE  [w EXCEPT ![i] = d] \in Seq(S)
<1> DEFINE v == [w EXCEPT ![i] = d]
<1>1. w \in [1 .. Len(w) -> S] /\ Len(w) \in Nat
  OBVIOUS
<1>2. v \in [1 .. Len(w) -> S]
  BY <1>1
<1> HIDE DEF v
<1>3. v \in Seq(S)
  BY <1>1, <1>2, TupleIsSeq
<1> QED BY <1>3 DEF v

LEMMA LateMessageEffect ==
    ASSUME TypeInv, LateInv, NEW l \in Link, LateMessage(l)
    PROVE  /\ TypeInv' /\ LateInv'
           /\ ~ LateTaken => UNCHANGED wire
           /\ UNCHANGED <<running, peer, table, events, mishap, sent, seen, clients, phase>>
<1>1. PICK d \in late[l] :
        /\ late' = [late EXCEPT ![l] = @ \ {d}]
        /\ wire' \in {wire} \union
              (IF LateTaken THEN {[wire EXCEPT ![l][i] = d] : i \in Replaceable(wire[l])}
               ELSE {})
  BY DEF LateMessage, LateArrives
<1>2. UNCHANGED <<running, peer, table, events, mishap, sent, seen, clients, phase>>
  BY DEF LateMessage, LateArrives
<1>3. d \in Message
  BY DEF LateInv
<1>4. wire' \in [Link -> Seq(Message)]
  <2>1. CASE wire' = wire
    BY <2>1 DEF TypeInv
  <2>2. ASSUME NEW i \in Replaceable(wire[l]), wire' = [wire EXCEPT ![l][i] = d]
        PROVE  wire' \in [Link -> Seq(Message)]
    <3>1. PICK w \in Seq(Message) : w = wire[l]
      BY DEF TypeInv
    <3>2. wire' = [wire EXCEPT ![l] = [w EXCEPT ![i] = d]]
      BY <2>2, <3>1
    <3>3. [w EXCEPT ![i] = d] \in Seq(Message)
      BY <1>3, <3>1, ReplacedType
    <3>4. PICK Streams : Streams = Seq(Message)
      OBVIOUS
    <3>5. wire \in [Link -> Streams] /\ [w EXCEPT ![i] = d] \in Streams
      BY <3>3, <3>4 DEF TypeInv
    <3>6. wire' \in [Link -> Streams]
      BY <3>2, <3>5
    <3> QED BY <3>4, <3>6
  <2> QED BY <1>1, <2>1, <2>2
<1>5. LateInv'
  <2> HIDE DEF Message
  <2> QED BY <1>1 DEF LateInv
<1>6. TypeInv'
  BY <1>2, <1>4 DEF TypeInv
<1> QED BY <1>1, <1>2, <1>5, <1>6

LEMMA LateStays ==
    ASSUME TypeInv, LateInv, [Next]_vars
    PROVE  LateInv'
<1>1. ASSUME NEW L, late' = Abandoned(L)
      PROVE  LateInv'
  BY <1>1, AbandonedType DEF LateInv
<1>2. ASSUME UNCHANGED late
      PROVE  LateInv'
  BY <1>2 DEF LateInv
<1>3. ASSUME NEW h \in Handler, TickSome(h)
      PROVE  UNCHANGED late
  BY <1>3 DEF TickSome, Tick
<1>4. ASSUME NEW h \in Handler, HandleNext(h)
      PROVE  LateInv'
  <2>1. CASE h = Server
    BY <1>2, <1>4, <2>1 DEF HandleNext, ServerHandles, Looks
  <2>2. CASE h # Server
    BY <1>1, <1>2, <1>4, <2>2 DEF HandleNext, ClientHandles, Looks, Ended
  <2> QED BY <2>1, <2>2
<1>5. ASSUME NEW h, NEW farewell, End(h, farewell)
      PROVE  LateInv'
  BY <1>1, <1>5 DEF End, Ended
<1>6. ASSUME NEW c \in Client, Connect(c)
      PROVE  LateInv'
  BY <1>1, <1>6 DEF Connect
<1>7. ASSUME TimeSync \/ Broadcast \/ \E c \in Client : SendBatch(c)
      PROVE  UNCHANGED late
  BY <1>7 DEF TimeSync, Broadcast, SendBatch, Extra
<1>8. CASE UNCHANGED vars
  BY <1>2, <1>8 DEF vars, handlers
<1>9. CASE Next
  <2>1. \/ \E h \in Handler : TickSome(h)
        \/ \E h \in Handler : HandleNext(h)
        \/ \E h \in Handler, farewell \in {<<Plain("DisconnectionNotification")>>, <<>>} :
              End(h, farewell)
        \/ \E l \in Link : LateMessage(l)
        \/ \E c \in Client : Connect(c)
        \/ TimeSync \/ Broadcast \/ \E c \in Client : SendBatch(c)
    BY <1>9 DEF Next, Shutdown, Crash, Handler
  <2> QED BY <1>2, <1>3, <1>4, <1>5, <1>6, <1>7, <2>1, LateMessageEffect
<1> QED BY <1>8, <1>9

-----------------------------------------------------------------------------
IInv == TypeInv /\ LateInv /\ MatchInv

LEMMA InitHolds == Init => IInv
<1> SUFFICES ASSUME Init PROVE IInv
  OBVIOUS
<1>1. TypeInv
  BY InitType
<1>0. LateInv
  BY DEF Init, HandlersInit, LateInv
<1>2. ASSUME NEW r \in Client
      PROVE  Matched(r)
  <2>1. <<Server, r>> \in Link /\ Server \in Handler
    BY <1>2, ServerLink
  <2>2. /\ table[Server] = <<>> /\ events[Server] = <<>> /\ clients = <<>>
        /\ peer[<<Server, r>>] = "None"
    BY <2>1 DEF Init, HandlersInit
  <2>3. DOMAIN <<>> = {}
    OBVIOUS
  <2>4. Known(DOMAIN clients, events[Server], r) <=> r \in DOMAIN clients
    BY <2>2, KnownEmpty
  <2> QED BY <2>2, <2>3, <2>4 DEF Matched
<1> QED BY <1>0, <1>1, <1>2 DEF IInv, MatchInv

LEMMA MishapStays ==
    ASSUME TypeInv, NEW h \in Handler, TickSome(h), mishap' = "fine"
    PROVE  mishap = "fine"
<1>1. PICK n, order, received, s : Ticks(h, n, order, received, s)
  BY TickTakes
<1> QED BY <1>1 DEF Ticks

LEMMA NextHolds == IInv /\ [Next]_vars => IInv'
<1> SUFFICES ASSUME TypeInv, LateInv, MatchInv, [Next]_vars
             PROVE  TypeInv' /\ MatchInv'
  BY LateStays DEF IInv
<1>1. ASSUME NEW h \in Handler, TickSome(h)
      PROVE  TypeInv' /\ MatchInv'
  <2>1. TypeInv'
    BY <1>1, TickType
  <2>2. CASE h = Server
    BY <1>1, <2>1, <2>2, ServerTicks
  <2>3. CASE h \in Client
    <3>1. mishap' = "fine" => (MatchInv => MatchInv')
      BY <1>1, <2>3, ClientTicks
    <3>2. mishap' # "fine" => MatchInv'
      BY DEF MatchInv
    <3> QED BY <2>1, <3>1, <3>2
  <2> QED BY <2>2, <2>3 DEF Handler
<1>2. ASSUME NEW h \in Handler, HandleNext(h)
      PROVE  TypeInv' /\ MatchInv'
  <2>1. events[h] # <<>>
    BY <1>2 DEF HandleNext
  <2>2. CASE h = Server
    <3>1. ServerHandles(Head(events[Server])) /\ events[Server] # <<>>
      BY <1>2, <2>2 DEF HandleNext
    <3> QED BY <3>1, ServerHandlesEffect, ServerLooks
  <2>3. CASE h # Server
    <3>1. h \in Client /\ ClientHandles(h, Head(events[h]))
      BY <1>2, <2>3 DEF HandleNext, Handler
    <3>2. /\ TypeInv'
          /\ DOMAIN table'[Server] = DOMAIN table[Server]
          /\ events'[Server] = events[Server]
          /\ \A q \in Client : peer'[<<Server, q>>] = peer[<<Server, q>>]
          /\ UNCHANGED <<clients, mishap>>
          /\ Server \in running' => Server \in running
      BY <2>1, <3>1, ClientHandlesEffect
    <3>3. Quiet
      BY <3>2 DEF Quiet
    <3> QED BY <3>2, <3>3, QuietMatch
  <2> QED BY <2>2, <2>3
<1>3. ASSUME NEW h \in Handler, NEW farewell \in Seq(Message), End(h, farewell)
      PROVE  TypeInv' /\ MatchInv'
  <2>1. TypeInv' /\ (Server \notin running' \/ Quiet)
    BY <1>3, EndEffect
  <2>2. Server \notin running' => MatchInv'
    BY DEF MatchInv
  <2> QED BY <2>1, <2>2, QuietMatch
<1>4. ASSUME NEW h \in Handler, Shutdown(h)
      PROVE  TypeInv' /\ MatchInv'
  <2>1. <<Plain("DisconnectionNotification")>> \in Seq(Message)
    <3>1. Plain("DisconnectionNotification") \in Message
      BY DEF Plain, Message, Plains
    <3> HIDE DEF Message
    <3> QED BY <3>1
  <2>2. End(h, <<Plain("DisconnectionNotification")>>)
    BY <1>4 DEF Shutdown
  <2> QED BY <1>3, <2>1, <2>2
<1>5. ASSUME NEW c \in Client, Connect(c)
      PROVE  TypeInv' /\ MatchInv'
  BY <1>5, ConnectEffect, QuietMatch
<1>6. ASSUME NEW c \in Client, Crash(c)
      PROVE  TypeInv' /\ MatchInv'
  <2>1. <<>> \in Seq(Message) /\ c \in Handler
    BY DEF Handler
  <2>2. End(c, <<>>)
    BY <1>6 DEF Crash
  <2> QED BY <1>3, <2>1, <2>2
<1>7. ASSUME TimeSync \/ Broadcast \/ \E c \in Client : SendBatch(c)
      PROVE  TypeInv' /\ MatchInv'
  BY <1>7, ExtrasEffect, QuietMatch
<1>8. CASE UNCHANGED vars
  <2>1. UNCHANGED <<running, peer, table, wire, events, mishap, sent, seen, clients, phase>>
    BY <1>8 DEF vars, handlers
  <2>2. TypeInv'
    BY <2>1 DEF TypeInv
  <2>3. Quiet
    BY <2>1 DEF Quiet
  <2> QED BY <2>2, <2>3, QuietMatch
<1>9. ASSUME NEW l \in Link, LateMessage(l)
      PROVE  TypeInv' /\ MatchInv'
  <2>1. TypeInv' /\ UNCHANGED <<running, peer, table, events, mishap, clients>>
    BY <1>9, LateMessageEffect
  <2>2. Quiet
    BY <2>1 DEF Quiet
  <2> QED BY <2>1, <2>2, QuietMatch
<1>10. CASE Next
  <2>1. \/ \E h \in Handler : TickSome(h)
        \/ \E h \in Handler : HandleNext(h)
        \/ \E h \in Handler : Shutdown(h)
        \/ \E l \in Link : LateMessage(l)
        \/ \E c \in Client : Connect(c)
        \/ \E c \in Client : Crash(c)
        \/ TimeSync \/ Broadcast \/ \E c \in Client : SendBatch(c)
    BY <1>10 DEF Next
  <2> QED BY <1>1, <1>2, <1>4, <1>5, <1>6, <1>7, <1>9, <2>1
<1> QED BY <1>8, <1>10

LEMMA AlwaysHolds == Spec => []IInv
BY InitHolds, NextHolds, PTL DEF Spec

-----------------------------------------------------------------------------
(* The types of handlers, clients and what is between them, for any finite *)
(* set of clients and whatever is sent when, and also when what is left of *)
(* an earlier session is taken for messages of this one (LateTaken).       *)
THEOREM LoginTypeCorrect == Spec => []TypeOK
<1>1. IInv => TypeOK
  BY TypesHold DEF IInv, LateInv
<1> QED BY <1>1, AlwaysHolds, PTL

(* As long as every batch has been understood, the server's user and its   *)
(* connection handler agree on who is there once the events of a tick are  *)
(* handled: the event loops of tick lose no connection and no departure,   *)
(* in whatever order the remotes have their turn, and also when what is    *)
(* left of an earlier session is taken for messages of this one.           *)
THEOREM ServerKnowsItsClients == Spec => [](EveryBatchUnderstood => ClientsMatchConnections)
<1>1. IInv => (EveryBatchUnderstood => ClientsMatchConnections)
  <2> SUFFICES ASSUME IInv, mishap = "fine", Server \in running, events[Server] = <<>>
               PROVE  /\ DOMAIN clients = DOMAIN table[Server]
                      /\ {c \in Client : peer[<<Server, c>>] = "Connected"} \subseteq DOMAIN clients
                      /\ \A c \in DOMAIN clients : peer[<<Server, c>>] # "None"
    BY DEF EveryBatchUnderstood, ClientsMatchConnections
  <2>1. TypeInv /\ \A c \in Client : Matched(c)
    BY DEF IInv, MatchInv
  <2>2. \A c \in Client : c \in DOMAIN table[Server] <=> c \in DOMAIN clients
    <3>1. \A c \in Client : c \in DOMAIN table[Server] <=> Known(DOMAIN clients, <<>>, c)
      BY <2>1 DEF Matched
    <3> QED BY <3>1, KnownEmpty
  <2>3. DOMAIN table[Server] \in SUBSET Client /\ DOMAIN clients \in SUBSET Client
    <3>1. table[Server] \in Table(Server)
      BY <2>1, InTables DEF TypeInv, Handler
    <3>2. clients \in ClientTable
      BY <2>1 DEF TypeInv, ClientTable
    <3>3. DOMAIN table[Server] \in SUBSET Remotes(Server)
      BY <3>1, TableIs
    <3>4. DOMAIN clients \in SUBSET Client
      BY <3>2, ClientTableIs
    <3> QED BY <3>3, <3>4 DEF Remotes
  <2>4. DOMAIN clients = DOMAIN table[Server]
    BY <2>2, <2>3
  <2> QED BY <2>1, <2>3, <2>4 DEF Matched
<1> QED BY <1>1, AlwaysHolds, PTL

-----------------------------------------------------------------------------
(* What each element stands for, concatenated.                             *)
Maps(f, E, S) == f \in [E -> Seq(S)]

Mapped(f, q) == FlattenSeq([i \in 1 .. Len(q) |-> f[q[i]]])

LEMMA MappedType ==
    ASSUME NEW S, NEW E, NEW f, Maps(f, E, S), NEW q \in Seq(E)
    PROVE  /\ [i \in 1 .. Len(q) |-> f[q[i]]] \in Seq(Seq(S))
           /\ Mapped(f, q) \in Seq(S)
<1> USE DEF Maps
<1> DEFINE g == [i \in 1 .. Len(q) |-> f[q[i]]]
<1>1. \A i \in 1 .. Len(q) : f[q[i]] \in Seq(S)
  OBVIOUS
<1>2. Len(q) \in Nat
  OBVIOUS
<1>3. g \in Seq(Seq(S))
  <2>1. PICK T : T = Seq(S)
    OBVIOUS
  <2>2. g \in [1 .. Len(q) -> T]
    BY <1>1, <2>1
  <2> HIDE DEF g
  <2>3. g \in Seq(T)
    BY <1>2, <2>2, TupleIsSeq
  <2> QED BY <2>1, <2>3
<1> HIDE DEF g
<1>4. FlattenSeq(g) \in Seq(S)
  <2>1. PICK run : FlatRun(run, g)
    BY <1>3, FlattenRun
  <2> QED BY <1>3, <2>1, FlattenIs
<1> QED BY <1>3, <1>4 DEF g, Mapped

LEMMA MappedEmpty ==
    ASSUME NEW f
    PROVE  Mapped(f, <<>>) = <<>>
<1>1. [i \in 1 .. Len(<<>>) |-> f[<<>>[i]]] = <<>>
  OBVIOUS
<1> QED BY <1>1, FlattenEmpty DEF Mapped

LEMMA MappedOne ==
    ASSUME NEW S, NEW E, NEW f, Maps(f, E, S), NEW x \in E
    PROVE  Mapped(f, <<x>>) = f[x]
<1>1. [i \in 1 .. Len(<<x>>) |-> f[<<x>>[i]]] = <<f[x]>>
  OBVIOUS
<1>2. f[x] \in Seq(S)
  BY DEF Maps
<1> QED BY <1>1, <1>2, FlattenOne DEF Mapped

LEMMA MappedConcat ==
    ASSUME NEW S, NEW E, NEW f, Maps(f, E, S), NEW p \in Seq(E), NEW q \in Seq(E)
    PROVE  Mapped(f, p \o q) = Mapped(f, p) \o Mapped(f, q)
<1> DEFINE g(r) == [i \in 1 .. Len(r) |-> f[r[i]]]
<1>1. /\ Len(p) \in Nat /\ Len(q) \in Nat /\ Len(p \o q) = Len(p) + Len(q)
      /\ \A i \in 1 .. Len(p) : (p \o q)[i] = p[i]
      /\ \A i \in 1 .. Len(q) : (p \o q)[Len(p) + i] = q[i]
  OBVIOUS
<1>2. p \o q \in Seq(E)
  OBVIOUS
<1>3. g(p) \in Seq(Seq(S)) /\ g(q) \in Seq(Seq(S)) /\ g(p \o q) \in Seq(Seq(S))
  BY <1>2, MappedType
<1>4. Len(g(p)) = Len(p) /\ Len(g(q)) = Len(q) /\ Len(g(p \o q)) = Len(p) + Len(q)
  BY <1>1
<1>5. \A i \in 1 .. Len(p) : g(p \o q)[i] = g(p)[i]
  BY <1>1
<1>6. \A i \in 1 .. Len(q) : g(p \o q)[Len(p) + i] = g(q)[i]
  BY <1>1
<1> HIDE DEF g
<1>7. g(p \o q) = g(p) \o g(q)
  <2>1. PICK T : T = Seq(S)
    OBVIOUS
  <2>2. PICK a \in Seq(T) : a = g(p)
    BY <1>3, <2>1
  <2>3. PICK b \in Seq(T) : b = g(q)
    BY <1>3, <2>1
  <2>4. PICK c \in Seq(T) : c = g(p \o q)
    BY <1>3, <2>1
  <2>5. Len(c) = Len(a) + Len(b)
    BY <1>4, <2>2, <2>3, <2>4
  <2>6. \A i \in 1 .. Len(a) : c[i] = a[i]
    BY <1>4, <1>5, <2>2, <2>4
  <2>7. \A i \in 1 .. Len(b) : c[Len(a) + i] = b[i]
    BY <1>4, <1>6, <2>2, <2>3, <2>4
  <2>8. Joins(a, b, c)
    BY <2>5, <2>6, <2>7 DEF Joins
  <2>9. c = a \o b
    BY <2>8, ConcatIs
  <2> QED BY <2>2, <2>3, <2>4, <2>9
<1>8. FlattenSeq(g(p \o q)) = FlattenSeq(g(p)) \o FlattenSeq(g(q))
  BY <1>3, <1>7, FlattenConcat
<1> QED BY <1>8 DEF Mapped, g

LEMMA AppendIsIn ==
    ASSUME NEW E, NEW p \in Seq(E), NEW x \in E
    PROVE  Append(p, x) \in Seq(E)
OBVIOUS

LEMMA OneIsIn ==
    ASSUME NEW E, NEW x \in E
    PROVE  <<x>> \in Seq(E)
OBVIOUS

LEMMA PrefixGrows ==
    ASSUME NEW E, NEW q \in Seq(E), NEW n \in 1 .. Len(q)
    PROVE  /\ SubSeq(q, 1, n - 1) \in Seq(E)
           /\ q[n] \in E
           /\ SubSeq(q, 1, n) = Append(SubSeq(q, 1, n - 1), q[n])
           /\ SubSeq(q, 1, 0) = <<>> /\ SubSeq(q, 1, Len(q)) = q
<1>1. SubSeq(q, 1, n - 1) \in Seq(E) /\ q[n] \in E
  OBVIOUS
<1>2. SubSeq(q, 1, n) = Append(SubSeq(q, 1, n - 1), q[n])
  OBVIOUS
<1>3. SubSeq(q, 1, 0) = <<>> /\ SubSeq(q, 1, Len(q)) = q
  OBVIOUS
<1> QED BY <1>1, <1>2, <1>3

(* A set of sequences that has the empty one, and each with one element    *)
(* more, has all.                                                          *)
LEMMA SequencesInduction ==
    ASSUME NEW E, NEW G, <<>> \in G, \A p \in Seq(E), x \in E : p \in G => Append(p, x) \in G
    PROVE  \A q \in Seq(E) : q \in G
<1> SUFFICES ASSUME NEW q \in Seq(E) PROVE q \in G
  OBVIOUS
<1> DEFINE N == Len(q)
           H == {n \in 0 .. N : SubSeq(q, 1, n) \in G}
<1>1. N \in Nat
  OBVIOUS
<1>2. 0 \in H
  <2>1. SubSeq(q, 1, 0) = <<>>
    OBVIOUS
  <2>2. 0 \in 0 .. N
    BY <1>1
  <2> QED BY <2>1, <2>2
<1>3. ASSUME NEW n \in 1 .. N, n - 1 \in H
      PROVE  n \in H
  <2>1. PICK p \in Seq(E) : p = SubSeq(q, 1, n - 1)
    BY PrefixGrows
  <2>2. PICK x \in E : x = q[n]
    BY PrefixGrows
  <2>3. SubSeq(q, 1, n) = Append(p, x)
    BY <2>1, <2>2, PrefixGrows
  <2>4. p \in G
    BY <1>3, <2>1
  <2>5. Append(p, x) \in G
    BY <2>4
  <2>6. n \in 0 .. N
    BY <1>1
  <2> QED BY <2>3, <2>5, <2>6
<1>4. \A n \in 0 .. N : n \in H
  <2> HIDE DEF H
  <2> QED BY <1>1, <1>2, <1>3, StepsInduction
<1>5. SubSeq(q, 1, N) \in G
  BY <1>1, <1>4
<1>6. SubSeq(q, 1, N) = q
  OBVIOUS
<1> QED BY <1>5, <1>6

LEMMA MappedGrows ==
    ASSUME NEW S, NEW E, NEW f, Maps(f, E, S), NEW p \in Seq(E), NEW x \in E
    PROVE  Mapped(f, Append(p, x)) = Mapped(f, p) \o f[x]
<1>1. PICK q \in Seq(E) : q = <<x>>
  BY OneIsIn
<1>2. Append(p, x) = p \o q
  BY <1>1
<1>3. Mapped(f, p \o q) = Mapped(f, p) \o Mapped(f, q)
  BY MappedConcat
<1>4. Mapped(f, q) = f[x]
  BY <1>1, MappedOne
<1> QED BY <1>2, <1>3, <1>4

LEMMA MappedTwice ==
    ASSUME NEW E, NEW S, NEW T, NEW f, NEW g, NEW k,
           Maps(f, E, S), Maps(g, S, T), Maps(k, E, T), \A x \in E : k[x] = Mapped(g, f[x])
    PROVE  \A q \in Seq(E) : Mapped(g, Mapped(f, q)) = Mapped(k, q)
<1> DEFINE Good(p) == Mapped(g, Mapped(f, p)) = Mapped(k, p)
           G == {p \in Seq(E) : Good(p)}
<1>1. <<>> \in G
  <2>1. Good(<<>>)
    BY MappedEmpty
  <2>2. <<>> \in Seq(E)
    BY EmptySeq
  <2> HIDE DEF Good
  <2> QED BY <2>1, <2>2
<1>2. ASSUME NEW p \in Seq(E), NEW x \in E, p \in G
      PROVE  Append(p, x) \in G
  <2>1. Good(p)
    BY <1>2
  <2>2. Mapped(f, Append(p, x)) = Mapped(f, p) \o f[x]
    BY MappedGrows
  <2>3. Mapped(k, Append(p, x)) = Mapped(k, p) \o k[x]
    BY MappedGrows
  <2>4. PICK a \in Seq(S) : a = Mapped(f, p)
    BY MappedType
  <2>5. PICK b \in Seq(S) : b = f[x]
    BY DEF Maps
  <2>6. Mapped(g, a \o b) = Mapped(g, a) \o Mapped(g, b)
    BY MappedConcat
  <2>7. Good(Append(p, x))
    BY <2>1, <2>2, <2>3, <2>4, <2>5, <2>6
  <2>8. Append(p, x) \in Seq(E)
    BY AppendIsIn
  <2> HIDE DEF Good
  <2> QED BY <2>7, <2>8
<1>3. \A q \in Seq(E) : q \in G
  <2> HIDE DEF G
  <2> QED BY <1>1, <1>2, SequencesInduction
<1> QED BY <1>3

LEMMA MappedAlike ==
    ASSUME NEW E, NEW f, NEW g, NEW q \in Seq(E), \A x \in E : f[x] = g[x]
    PROVE  Mapped(f, q) = Mapped(g, q)
<1>1. \A i \in 1 .. Len(q) : f[q[i]] = g[q[i]]
  OBVIOUS
<1>2. [i \in 1 .. Len(q) |-> f[q[i]]] = [i \in 1 .. Len(q) |-> g[q[i]]]
  BY <1>1
<1> QED BY <1>2 DEF Mapped

LEMMA MappedSame ==
    ASSUME NEW E, NEW f, Maps(f, E, E), \A x \in E : f[x] = <<x>>
    PROVE  \A q \in Seq(E) : Mapped(f, q) = q
<1> DEFINE Good(p) == Mapped(f, p) = p
           G == {p \in Seq(E) : Good(p)}
<1>1. <<>> \in G
  <2>1. Good(<<>>)
    BY MappedEmpty
  <2>2. <<>> \in Seq(E)
    BY EmptySeq
  <2> HIDE DEF Good
  <2> QED BY <2>1, <2>2
<1>2. ASSUME NEW p \in Seq(E), NEW x \in E, p \in G
      PROVE  Append(p, x) \in G
  <2>1. Mapped(f, p) = p
    BY <1>2
  <2>2. Mapped(f, Append(p, x)) = Mapped(f, p) \o f[x]
    BY MappedGrows
  <2>3. Good(Append(p, x))
    <3>1. f[x] = <<x>> /\ Append(p, x) = p \o <<x>>
      OBVIOUS
    <3> QED BY <2>1, <2>2, <3>1
  <2>4. Append(p, x) \in Seq(E)
    BY AppendIsIn
  <2> HIDE DEF Good
  <2> QED BY <2>3, <2>4
<1>3. \A q \in Seq(E) : q \in G
  <2> HIDE DEF G
  <2> QED BY <1>1, <1>2, SequencesInduction
<1> QED BY <1>3

LEMMA MappedNothing ==
    ASSUME NEW E, NEW f, NEW S, Maps(f, E, S), \A x \in E : f[x] = <<>>
    PROVE  \A q \in Seq(E) : Mapped(f, q) = <<>>
<1> DEFINE Good(p) == Mapped(f, p) = <<>>
           G == {p \in Seq(E) : Good(p)}
<1>1. <<>> \in G
  <2>1. Good(<<>>)
    BY MappedEmpty
  <2>2. <<>> \in Seq(E)
    BY EmptySeq
  <2> HIDE DEF Good
  <2> QED BY <2>1, <2>2
<1>2. ASSUME NEW p \in Seq(E), NEW x \in E, p \in G
      PROVE  Append(p, x) \in G
  <2>1. Mapped(f, p) = <<>>
    BY <1>2
  <2>2. Mapped(f, Append(p, x)) = Mapped(f, p) \o f[x]
    BY MappedGrows
  <2>3. Good(Append(p, x))
    <3>1. f[x] = <<>> /\ <<>> \o <<>> = <<>>
      OBVIOUS
    <3> QED BY <2>1, <2>2, <3>1
  <2>4. Append(p, x) \in Seq(E)
    BY AppendIsIn
  <2> HIDE DEF Good
  <2> QED BY <2>3, <2>4
<1>3. \A q \in Seq(E) : q \in G
  <2> HIDE DEF G
  <2> QED BY <1>1, <1>2, SequencesInduction
<1> QED BY <1>3

-----------------------------------------------------------------------------
(* What a user will be told of a remote: packets, and that it is connected.  *)
Sign == Packet \union {"Connected"}

Says ==
    [m \in Message |->
        CASE m.kind \in Accepting  -> <<"Connected">>
          [] m.kind = "GamePacket" -> m.batch.packets
          [] OTHER                 -> <<>>]

Tells(h, r) ==
    [e \in Event(h) |->
        IF e.remote # r \/ e.type = "Disconnected" THEN <<>>
        ELSE IF e.type = "Connected" THEN <<"Connected">> ELSE <<e.packet>>]

Letter == [x \in Sign |-> IF x = "Connected" THEN <<>> ELSE <<x>>]

Spoken(w) == Mapped(Says, w)
Heard(h, r, evs) == Mapped(Tells(h, r), evs)
Letters(q) == Mapped(Letter, q)

Coming(h, r) == Heard(h, r, events[h]) \o Spoken(wire[<<r, h>>])

LEMMA PacketsAreSigns ==
    /\ "Connected" \notin Packet
    /\ \A q \in Seq(Packet) : q \in Seq(Sign)
    /\ <<"Connected">> \in Seq(Sign)
    /\ \A p \in Packet : <<p>> \in Seq(Sign) /\ <<p>> \in Seq(Packet)
<1>1. "Connected" \notin Packet
  BY DEF Packet
<1>2. Packet \subseteq Sign /\ "Connected" \in Sign
  BY DEF Sign
<1> HIDE DEF Packet, Sign
<1>3. \A q \in Seq(Packet) : q \in Seq(Sign)
  BY <1>2, SeqMonotonic
<1> QED BY <1>1, <1>2, <1>3

LEMMA SaysType == Maps(Says, Message, Sign)
<1>1. ASSUME NEW m \in Message
      PROVE  Says[m] \in Seq(Sign)
  <2>1. CASE m.kind \in Accepting
    BY <2>1, PacketsAreSigns DEF Says, Accepting
  <2>2. CASE m.kind = "GamePacket"
    <3>1. m.batch \in Batch
      BY <2>2 DEF Message, Plains, Accepting
    <3>2. m.batch.packets \in Seq(Packet)
      BY <3>1 DEF Batch
    <3>3. Says[m] = m.batch.packets
      BY <2>2 DEF Says, Accepting
    <3> QED BY <3>2, <3>3, PacketsAreSigns
  <2>3. CASE m.kind \notin Accepting /\ m.kind # "GamePacket"
    <3>1. Says[m] = <<>>
      BY <2>3 DEF Says
    <3> QED BY <3>1
  <2> QED BY <2>1, <2>2, <2>3
<1>2. Says = [m \in Message |-> Says[m]]
  BY DEF Says
<1> QED BY <1>1, <1>2 DEF Maps

LEMMA TellsType ==
    ASSUME NEW h, NEW r
    PROVE  Maps(Tells(h, r), Event(h), Sign)
<1> DEFINE f == Tells(h, r)
<1>1. ASSUME NEW e \in Event(h)
      PROVE  f[e] \in Seq(Sign)
  <2>1. CASE e.remote # r \/ e.type = "Disconnected"
    <3>1. f[e] = <<>>
      BY <2>1 DEF Tells
    <3> QED BY <3>1
  <2>2. CASE e.remote = r /\ e.type = "Connected"
    <3>1. f[e] = <<"Connected">>
      BY <2>2 DEF Tells
    <3> QED BY <3>1, PacketsAreSigns
  <2>3. CASE e.remote = r /\ e.type \notin {"Connected", "Disconnected"}
    <3>1. e.packet \in Packet
      BY <2>3 DEF Event
    <3>2. f[e] = <<e.packet>>
      BY <2>3 DEF Tells
    <3> QED BY <3>1, <3>2, PacketsAreSigns
  <2> QED BY <2>1, <2>2, <2>3
<1>2. f = [e \in Event(h) |-> f[e]]
  BY DEF Tells
<1> QED BY <1>1, <1>2 DEF Maps

LEMMA LetterType == Maps(Letter, Sign, Packet)
<1>1. ASSUME NEW x \in Sign
      PROVE  Letter[x] \in Seq(Packet)
  <2>1. CASE x = "Connected"
    <3>1. Letter[x] = <<>>
      BY <2>1 DEF Letter
    <3> QED BY <3>1
  <2>2. CASE x # "Connected"
    <3>1. x \in Packet
      BY <2>2 DEF Sign
    <3>2. Letter[x] = <<x>>
      BY <2>2 DEF Letter
    <3> QED BY <3>1, <3>2, PacketsAreSigns
  <2> QED BY <2>1, <2>2
<1>2. Letter = [x \in Sign |-> Letter[x]]
  BY DEF Letter
<1> QED BY <1>1, <1>2 DEF Maps

LEMMA SpokenIs ==
    /\ Spoken(<<>>) = <<>>
    /\ \A m \in Message : Spoken(<<m>>) = Says[m]
    /\ \A v, w \in Seq(Message) : Spoken(v \o w) = Spoken(v) \o Spoken(w)
    /\ \A w \in Seq(Message) : Spoken(w) \in Seq(Sign)
<1> HIDE DEF Message, Sign
<1>1. Spoken(<<>>) = <<>>
  BY MappedEmpty DEF Spoken
<1>2. \A m \in Message : Spoken(<<m>>) = Says[m]
  BY SaysType, MappedOne DEF Spoken
<1>3. \A v, w \in Seq(Message) : Spoken(v \o w) = Spoken(v) \o Spoken(w)
  BY SaysType, MappedConcat DEF Spoken
<1>4. \A w \in Seq(Message) : Spoken(w) \in Seq(Sign)
  BY SaysType, MappedType DEF Spoken
<1> QED BY <1>1, <1>2, <1>3, <1>4

LEMMA HeardIs ==
    ASSUME NEW h, NEW r
    PROVE  /\ Heard(h, r, <<>>) = <<>>
           /\ \A e \in Event(h) : Heard(h, r, <<e>>) = Tells(h, r)[e]
           /\ \A v, w \in Seq(Event(h)) :
                 Heard(h, r, v \o w) = Heard(h, r, v) \o Heard(h, r, w)
           /\ \A w \in Seq(Event(h)) : Heard(h, r, w) \in Seq(Sign)
<1>1. Heard(h, r, <<>>) = <<>>
  BY MappedEmpty DEF Heard
<1>2. \A e \in Event(h) : Heard(h, r, <<e>>) = Tells(h, r)[e]
  BY TellsType, MappedOne DEF Heard
<1>3. \A v, w \in Seq(Event(h)) : Heard(h, r, v \o w) = Heard(h, r, v) \o Heard(h, r, w)
  BY TellsType, MappedConcat DEF Heard
<1>4. \A w \in Seq(Event(h)) : Heard(h, r, w) \in Seq(Sign)
  BY TellsType, MappedType DEF Heard
<1> QED BY <1>1, <1>2, <1>3, <1>4

LEMMA LettersAre ==
    /\ Letters(<<>>) = <<>> /\ Letters(<<"Connected">>) = <<>>
    /\ \A v, w \in Seq(Sign) : Letters(v \o w) = Letters(v) \o Letters(w)
    /\ \A q \in Seq(Packet) : Letters(q) = q
    /\ \A w \in Seq(Sign) : Letters(w) \in Seq(Packet)
<1> HIDE DEF Packet
<1>1. Letters(<<>>) = <<>>
  BY MappedEmpty DEF Letters
<1>2. Letters(<<"Connected">>) = <<>>
  <2>1. "Connected" \in Sign
    BY DEF Sign
  <2>2. Letter["Connected"] = <<>>
    BY <2>1 DEF Letter
  <2> HIDE DEF Sign
  <2>3. Mapped(Letter, <<"Connected">>) = Letter["Connected"]
    BY <2>1, LetterType, MappedOne
  <2> QED BY <2>2, <2>3 DEF Letters
<1>3. \A v, w \in Seq(Sign) : Letters(v \o w) = Letters(v) \o Letters(w)
  <2> HIDE DEF Sign
  <2> QED BY LetterType, MappedConcat DEF Letters
<1>4. ASSUME NEW q \in Seq(Packet)
      PROVE  Letters(q) = q
  <2> DEFINE f == [x \in Packet |-> <<x>>]
  <2>1. \A x \in Packet : f[x] = <<x>> /\ Letter[x] = <<x>> /\ <<x>> \in Seq(Packet)
    BY PacketsAreSigns DEF Letter, Sign
  <2>2. Maps(f, Packet, Packet)
    BY <2>1 DEF Maps
  <2> HIDE DEF f
  <2>3. Mapped(f, q) = q
    BY <2>1, <2>2, MappedSame
  <2>4. \A x \in Packet : Letter[x] = f[x]
    BY <2>1
  <2>5. Mapped(Letter, q) = Mapped(f, q)
    BY <2>4, MappedAlike
  <2> QED BY <2>3, <2>5 DEF Letters
<1>5. \A w \in Seq(Sign) : Letters(w) \in Seq(Packet)
  <2> HIDE DEF Sign
  <2> QED BY LetterType, MappedType DEF Letters
<1> QED BY <1>1, <1>2, <1>3, <1>4, <1>5

LEMMA ToldAre ==
    ASSUME TypeInv, NEW h \in Handler, NEW r
    PROVE  Told(h, r) = Letters(Heard(h, r, events[h]))
<1> DEFINE k == [e \in Event(h) |-> IF e.type = "PacketReceived" /\ e.remote = r
                                    THEN <<e.packet>> ELSE <<>>]
           q == events[h]
<1>1. q \in Seq(Event(h)) /\ DOMAIN q = 1 .. Len(q)
  BY DEF TypeInv
<1>2. ASSUME NEW e \in Event(h)
      PROVE  k[e] = Letters(Tells(h, r)[e]) /\ k[e] \in Seq(Packet)
  <2>1. CASE e.remote = r /\ e.type = "PacketReceived"
    <3>1. e.packet \in Packet
      BY <2>1 DEF Event
    <3>2. <<e.packet>> \in Seq(Packet)
      BY <3>1, PacketsAreSigns
    <3>3. Tells(h, r)[e] = <<e.packet>> /\ k[e] = <<e.packet>>
      BY <2>1 DEF Tells
    <3> HIDE DEF k
    <3> QED BY <3>2, <3>3, LettersAre
  <2>2. CASE e.remote = r /\ e.type = "Connected"
    <3>1. Tells(h, r)[e] = <<"Connected">> /\ k[e] = <<>>
      BY <2>2 DEF Tells
    <3> HIDE DEF k
    <3> QED BY <3>1, LettersAre
  <2>3. CASE e.remote # r \/ e.type = "Disconnected"
    <3>1. Tells(h, r)[e] = <<>> /\ k[e] = <<>>
      BY <2>3 DEF Tells
    <3> HIDE DEF k
    <3> QED BY <3>1, LettersAre
  <2>4. e.type \in {"Connected", "Disconnected", "PacketReceived"}
    BY DEF Event
  <2> QED BY <2>1, <2>2, <2>3, <2>4
<1>3. Told(h, r) = Mapped(k, q)
  <2>1. \A i \in 1 .. Len(q) : q[i] \in Event(h)
    BY <1>1
  <2>2. [i \in DOMAIN q |-> IF q[i].type = "PacketReceived" /\ q[i].remote = r
                              THEN <<q[i].packet>> ELSE <<>>]
            = [i \in 1 .. Len(q) |-> k[q[i]]]
    BY <1>1, <2>1
  <2> HIDE DEF k
  <2> QED BY <2>2 DEF Told, Mapped
<1>4. Maps(k, Event(h), Packet)
  BY <1>2 DEF Maps
<1> HIDE DEF k
<1>5. \A e \in Event(h) : k[e] = Mapped(Letter, Tells(h, r)[e])
  BY <1>2 DEF Letters
<1>6. Mapped(Letter, Mapped(Tells(h, r), q)) = Mapped(k, q)
  <2> HIDE DEF Packet, Sign, q
  <2> QED BY <1>1, <1>4, <1>5, TellsType, LetterType, MappedTwice
<1> QED BY <1>3, <1>6 DEF Letters, Heard

LEMMA InFlightAre ==
    ASSUME TypeInv, NEW h, NEW r, <<h, r>> \in Link
    PROVE  InFlight(h, r) = Letters(Spoken(wire[<<h, r>>]))
<1> DEFINE k == [m \in Message |-> IF m.kind = "GamePacket" THEN m.batch.packets ELSE <<>>]
           q == wire[<<h, r>>]
<1>1. q \in Seq(Message) /\ DOMAIN q = 1 .. Len(q)
  BY DEF TypeInv
<1>2. ASSUME NEW m \in Message
      PROVE  k[m] = Letters(Says[m]) /\ k[m] \in Seq(Packet)
  <2>1. CASE m.kind = "GamePacket"
    <3>1. m.batch \in Batch
      BY <2>1 DEF Message, Plains, Accepting
    <3>2. m.batch.packets \in Seq(Packet)
      BY <3>1 DEF Batch
    <3>3. Says[m] = m.batch.packets /\ k[m] = m.batch.packets
      BY <2>1 DEF Says, Accepting
    <3> HIDE DEF k
    <3> QED BY <3>2, <3>3, LettersAre
  <2>2. CASE m.kind # "GamePacket"
    <3>1. k[m] = <<>> /\ Says[m] \in {<<>>, <<"Connected">>}
      BY <2>2 DEF Says
    <3> HIDE DEF k
    <3> QED BY <3>1, LettersAre
  <2> QED BY <2>1, <2>2
<1>3. InFlight(h, r) = Mapped(k, q)
  <2>1. \A i \in 1 .. Len(q) : q[i] \in Message
    BY <1>1
  <2>2. [i \in DOMAIN q |-> IF i \in Batches(h, r) THEN q[i].batch.packets ELSE <<>>]
            = [i \in 1 .. Len(q) |-> k[q[i]]]
    BY <1>1, <2>1 DEF Batches
  <2> HIDE DEF k
  <2> QED BY <2>2 DEF InFlight, Mapped
<1>4. Maps(k, Message, Packet)
  BY <1>2 DEF Maps
<1> HIDE DEF k
<1>5. \A m \in Message : k[m] = Mapped(Letter, Says[m])
  BY <1>2 DEF Letters
<1>6. Mapped(Letter, Mapped(Says, q)) = Mapped(k, q)
  <2> HIDE DEF Packet, Sign, q, Message
  <2> QED BY <1>1, <1>4, <1>5, SaysType, LetterType, MappedTwice
<1> QED BY <1>3, <1>6 DEF Letters, Spoken

LEMMA ComingLetters ==
    ASSUME TypeInv, NEW h, NEW r, <<r, h>> \in Link
    PROVE  /\ Coming(h, r) \in Seq(Sign)
           /\ Letters(Coming(h, r)) = Told(h, r) \o InFlight(r, h)
<1>1. h \in Handler
  BY LinkEnds, RemotesLink
<1>2. PICK a \in Seq(Sign) : a = Heard(h, r, events[h])
  BY <1>1, HeardIs DEF TypeInv
<1>3. PICK b \in Seq(Sign) : b = Spoken(wire[<<r, h>>])
  BY SpokenIs DEF TypeInv
<1>4. Coming(h, r) = a \o b
  BY <1>2, <1>3 DEF Coming
<1>5. Letters(a \o b) = Letters(a) \o Letters(b)
  BY LettersAre
<1> HIDE DEF Sign
<1>6. a \o b \in Seq(Sign)
  OBVIOUS
<1> QED BY <1>1, <1>2, <1>3, <1>4, <1>5, <1>6, ToldAre, InFlightAre

-----------------------------------------------------------------------------
(* What a receiver must have for its next batches, n of them ahead.          *)
Header(p) == IF p.initialized THEN compressionHeaderByte(p.algorithm) ELSE "none"

Suits(p, d, n) ==
    /\ d.header = Header(p) /\ d.body = "stored"
    /\ d.cipher = IF p.enabled THEN p.recv_counter + n ELSE -1

(* What p encodes next q decodes after n more.                               *)
Leads(p, q, n) ==
    /\ Header(p) = Header(q)
    /\ p.enabled = q.enabled
    /\ p.enabled => p.send_counter = q.recv_counter + n

Uncompressing == Algorithm # "ZLib"

Advanced(p, n) == IF p.enabled THEN [p EXCEPT !.recv_counter = @ + n] ELSE p

LEMMA SuitsUnderstood ==
    ASSUME Uncompressing, NEW p \in Processor, NEW d \in Batch, Suits(p, d, 0)
    PROVE  decode(p, d) = "fine"
<1>1. /\ p.algorithm # "ZLib" /\ p.initialized \in BOOLEAN /\ p.enabled \in BOOLEAN
      /\ p.recv_counter \in Nat
  BY DEF Processor, Uncompressing
<1>2. decrypt(p, d) = "fine"
  BY <1>1 DEF Suits, decrypt
<1>3. decompressBatch(p, d) = "fine"
  BY <1>1 DEF Suits, Header, decompressBatch, decompress, compressionHeaderByte
<1> QED BY <1>2, <1>3 DEF decode

LEMMA SuitsNext ==
    ASSUME NEW p \in Processor, NEW d, NEW n \in Nat, Suits(p, d, n + 1)
    PROVE  Suits(decoded(p), d, n)
<1>1. p.recv_counter \in Nat
  BY DEF Processor
<1>2. CASE p.enabled
  <2>1. decoded(p) = [p EXCEPT !.recv_counter = @ + 1]
    BY <1>2 DEF decoded
  <2>2. /\ decoded(p).initialized = p.initialized /\ decoded(p).algorithm = p.algorithm
        /\ decoded(p).enabled = p.enabled /\ decoded(p).recv_counter = p.recv_counter + 1
    BY <2>1 DEF Processor
  <2> QED BY <1>1, <1>2, <2>2 DEF Suits, Header
<1>3. CASE ~ p.enabled
  <2>1. decoded(p) = p
    BY <1>3 DEF decoded
  <2> QED BY <1>3, <2>1 DEF Suits, Header
<1> QED BY <1>2, <1>3

LEMMA LeadsSuits ==
    ASSUME Uncompressing, NEW p \in Processor, NEW q, NEW n, Leads(p, q, n), NEW packets
    PROVE  Suits(q, encode(p, packets), n) /\ encode(p, packets).packets = packets
<1>1. p.algorithm # "ZLib"
  BY DEF Processor, Uncompressing
<1>2. compress(p.algorithm, packets) = "stored"
  BY <1>1 DEF compress
<1> QED BY <1>2 DEF encode, Suits, Leads, Header

LEMMA AdvancedIs ==
    ASSUME NEW p \in Processor, NEW n \in Nat
    PROVE  /\ Advanced(p, 0) = p
           /\ decoded(Advanced(p, n)) = Advanced(p, n + 1)
           /\ Advanced(p, n) \in Processor
           /\ Advanced(p, n).initialized = p.initialized
           /\ Advanced(p, n).algorithm = p.algorithm
           /\ Advanced(p, n).enabled = p.enabled
           /\ Advanced(p, n).send_counter = p.send_counter
           /\ p.enabled => Advanced(p, n).recv_counter = p.recv_counter + n
           /\ ~ p.enabled => Advanced(p, n) = p
<1>1. CASE p.enabled
  <2>1. Advanced(p, n) = [p EXCEPT !.recv_counter = @ + n]
    BY <1>1 DEF Advanced
  <2>2. Advanced(p, n + 1) = [p EXCEPT !.recv_counter = @ + (n + 1)]
    BY <1>1 DEF Advanced
  <2>3. Advanced(p, 0) = p
    BY <1>1 DEF Advanced, Processor
  <2>4. /\ Advanced(p, n).enabled /\ Advanced(p, n).initialized = p.initialized
        /\ Advanced(p, n).algorithm = p.algorithm
        /\ Advanced(p, n).enabled = p.enabled
        /\ Advanced(p, n).send_counter = p.send_counter
        /\ Advanced(p, n).recv_counter = p.recv_counter + n
    BY <1>1, <2>1 DEF Processor
  <2>5. Advanced(p, n) \in Processor
    BY <2>1 DEF Processor
  <2>6. decoded(Advanced(p, n)) = Advanced(p, n + 1)
    <3>1. PICK q \in Processor : q = Advanced(p, n)
      BY <2>5
    <3>2. decoded(q) = [q EXCEPT !.recv_counter = q.recv_counter + 1]
      BY <2>4, <3>1 DEF decoded
    <3>3. q.recv_counter + 1 = p.recv_counter + (n + 1)
      BY <2>4, <3>1 DEF Processor
    <3>4. decoded(q) = [p EXCEPT !.recv_counter = p.recv_counter + (n + 1)]
      BY <2>1, <3>1, <3>2, <3>3 DEF Processor
    <3> QED BY <2>2, <3>1, <3>4
  <2> QED BY <1>1, <2>3, <2>4, <2>5, <2>6
<1>2. CASE ~ p.enabled
  BY <1>2 DEF Advanced, decoded
<1> QED BY <1>1, <1>2

-----------------------------------------------------------------------------
(* The messages on the way to h: the connection opens first, the farewell is *)
(* last, and every batch suits the processor that will meet it.              *)
Opener(r) == IF r = Server THEN "ConnectionRequestAccepted" ELSE "NewIncomingConnection"

Opens(w) == Len(w) > 0 /\ w[1].kind \in Accepting

Fine(T, r, w, i) ==
    /\ w[i].batch.packets # <<>>
    /\ IF Opens(w) THEN Suits(NewProcessor, w[i].batch, 0)
       ELSE r \in DOMAIN T /\ Suits(T[r], w[i].batch, i - 1)

Reads(T, r, w) ==
    \A i \in 1 .. Len(w) :
        /\ w[i].kind \in Accepting => i = 1 /\ w[i].kind = Opener(r)
        /\ w[i].kind = "DisconnectionNotification" => i = Len(w)
        /\ w[i].kind = "GamePacket" => Fine(T, r, w, i)

Farewell(w) == \E i \in 1 .. Len(w) : w[i].kind = "DisconnectionNotification"

Kind(m) == m.kind \in Accepting \/ m.kind = "DisconnectionNotification" \/ m.kind = "GamePacket"

LEMMA MessageKind ==
    ASSUME NEW m \in Message
    PROVE  /\ Kind(m)
           /\ m.kind \in Accepting => m.kind # "GamePacket" /\ m.kind # "DisconnectionNotification"
           /\ m.kind = "GamePacket" => m.batch \in Batch
BY DEF Kind, Message, Plains, Accepting

LEMMA TailIs ==
    ASSUME NEW w \in Seq(Message), Len(w) > 0
    PROVE  /\ Tail(w) \in Seq(Message) /\ Len(Tail(w)) = Len(w) - 1
           /\ \A i \in 1 .. Len(Tail(w)) : Tail(w)[i] = w[i + 1] /\ i + 1 \in 1 .. Len(w)
           /\ w[1] \in Message /\ w[1] = Head(w) /\ 1 \in 1 .. Len(w)
<1> HIDE DEF Message
<1> QED OBVIOUS

(* The processor that is there after the first message is the one for the    *)
(* others.                                                                   *)
After(T, r, w, U) ==
    IF w[1].kind \in Accepting THEN U[r] = NewProcessor
    ELSE IF w[1].kind = "GamePacket" THEN r \in DOMAIN T /\ U[r] = decoded(T[r])
    ELSE U = T

LEMMA ReadsTail ==
    ASSUME NEW h, NEW T \in Table(h), NEW U, NEW r, NEW w \in Seq(Message), Len(w) > 0,
           Reads(T, r, w), After(T, r, w, U), w[1].kind # "DisconnectionNotification" => r \in DOMAIN U
    PROVE  Reads(U, r, Tail(w))
<1>1. PICK v \in Seq(Message) : v = Tail(w)
  BY TailIs
<1>2. /\ Len(v) = Len(w) - 1 /\ Len(v) \in Nat
      /\ \A i \in 1 .. Len(v) : v[i] = w[i + 1] /\ i + 1 \in 1 .. Len(w)
      /\ 1 \in 1 .. Len(w) /\ w[1] \in Message
  BY <1>1, TailIs
<1> SUFFICES ASSUME NEW i \in 1 .. Len(v)
             PROVE  /\ v[i].kind \notin Accepting
                    /\ v[i].kind = "DisconnectionNotification" => i = Len(v)
                    /\ v[i].kind = "GamePacket" => Fine(U, r, v, i)
  BY <1>1 DEF Reads
<1>3. v[i] = w[i + 1] /\ i + 1 \in 1 .. Len(w) /\ i + 1 # 1
  BY <1>2
<1>4. /\ w[i + 1].kind \notin Accepting
      /\ w[i + 1].kind = "DisconnectionNotification" => i + 1 = Len(w)
      /\ w[i + 1].kind = "GamePacket" => Fine(T, r, w, i + 1)
  BY <1>3 DEF Reads
<1>5. v[i] \in Message
  OBVIOUS
<1>6. ASSUME v[i].kind = "GamePacket"
      PROVE  Fine(U, r, v, i)
  <2>1. Fine(T, r, w, i + 1)
    BY <1>3, <1>4, <1>6
  <2>2. ~ Opens(v)
    <3>1. Len(v) > 0 => v[1] = w[2] /\ 2 \in 1 .. Len(w)
      BY <1>2
    <3>2. Len(v) > 0 => v[1].kind \notin Accepting
      BY <3>1 DEF Reads
    <3> QED BY <3>2 DEF Opens
  <2>3. Opens(w) <=> w[1].kind \in Accepting
    BY DEF Opens
  <2>4. CASE w[1].kind \in Accepting
    <3>1. U[r] = NewProcessor /\ r \in DOMAIN U
      BY <2>4, MessageKind, <1>2 DEF After
    <3>2. Suits(NewProcessor, w[i + 1].batch, 0)
      BY <2>1, <2>3, <2>4 DEF Fine
    <3>3. Suits(NewProcessor, w[i + 1].batch, i - 1)
      BY <3>2 DEF Suits, NewProcessor
    <3> QED BY <1>3, <2>1, <2>2, <3>1, <3>3 DEF Fine
  <2>5. CASE w[1].kind = "GamePacket"
    <3>1. r \in DOMAIN T /\ U[r] = decoded(T[r]) /\ r \in DOMAIN U
      BY <2>5, MessageKind, <1>2 DEF After
    <3>2. Suits(T[r], w[i + 1].batch, i)
      BY <2>1, <2>3, <2>5, MessageKind, <1>2 DEF Fine
    <3>3. T[r] \in Processor
      BY <3>1, TableIs
    <3>4. i - 1 \in Nat /\ (i - 1) + 1 = i
      OBVIOUS
    <3>5. Suits(decoded(T[r]), w[i + 1].batch, i - 1)
      BY <3>2, <3>3, <3>4, SuitsNext
    <3> QED BY <1>3, <2>1, <2>2, <3>1, <3>5 DEF Fine
  <2>6. CASE w[1].kind = "DisconnectionNotification"
    <3>1. Len(w) = 1
      BY <1>2, <2>6 DEF Reads
    <3> QED BY <1>2, <3>1
  <2> QED BY <1>2, <2>4, <2>5, <2>6, MessageKind DEF Kind
<1> QED BY <1>2, <1>3, <1>4, <1>6

-----------------------------------------------------------------------------
(* A tick, remote by remote.                                               *)
Leaves(evs, r) == \E i \in 1 .. Len(evs) : evs[i].type = "Disconnected" /\ evs[i].remote = r

\* From s to t nothing changes for q.
Spared(h, q, s, t) ==
    /\ q \in DOMAIN t.table <=> q \in DOMAIN s.table
    /\ q \in DOMAIN s.table => t.table[q] = s.table[q]
    /\ Heard(h, q, t.events) = Heard(h, q, s.events)
    /\ Leaves(t.events, q) => Leaves(s.events, q)

Works(h, t) == t \in Ticking(h) /\ t.result = "fine"

LEMMA LeavesAppend ==
    ASSUME NEW h, NEW evs \in Seq(Event(h)), NEW more \in Seq(Event(h)), NEW r
    PROVE  Leaves(evs \o more, r) => Leaves(evs, r) \/ Leaves(more, r)
<1> SUFFICES ASSUME Leaves(evs \o more, r) PROVE Leaves(evs, r) \/ Leaves(more, r)
  OBVIOUS
<1>1. PICK i \in 1 .. Len(evs \o more) : /\ (evs \o more)[i].type = "Disconnected"
                                         /\ (evs \o more)[i].remote = r
  BY DEF Leaves
<1>2. CASE i <= Len(evs)
  <2>1. i \in 1 .. Len(evs) /\ (evs \o more)[i] = evs[i]
    BY <1>2
  <2> QED BY <1>1, <2>1 DEF Leaves
<1>3. CASE i > Len(evs)
  <2>1. i - Len(evs) \in 1 .. Len(more) /\ (evs \o more)[i] = more[i - Len(evs)]
    BY <1>3
  <2> QED BY <1>1, <2>1 DEF Leaves
<1>4. i <= Len(evs) \/ i > Len(evs)
  OBVIOUS
<1> QED BY <1>2, <1>3, <1>4

LEMMA HeardFrom ==
    ASSUME NEW h, NEW r, NEW q, NEW packets \in Seq(Packet), NEW evs,
           evs = AllReceived(r, packets), r \in Remotes(h)
    PROVE  /\ Heard(h, q, evs) = IF q = r THEN packets ELSE <<>>
           /\ evs \in Seq(Event(h))
           /\ ~ Leaves(evs, q)
<1>1. /\ Len(packets) \in Nat
      /\ evs = [i \in 1 .. Len(packets) |-> PacketReceived(r, packets[i])]
  BY DEF AllReceived
<1>2. evs \in Seq(Event(h))
  BY AllReceivedType
<1>3. Len(evs) = Len(packets) /\ \A i \in 1 .. Len(evs) : evs[i] = PacketReceived(r, packets[i])
  <2>1. evs \in [1 .. Len(packets) -> Event(h)]
    <3>1. \A i \in 1 .. Len(packets) : evs[i] \in Event(h)
      <4>1. DOMAIN evs = 1 .. Len(packets) /\ DOMAIN evs = 1 .. Len(evs)
        BY <1>1, <1>2, LenProperties
      <4> QED BY <1>2, <4>1, ElementOfSeq
    <3> QED BY <1>1, <3>1
  <2>2. Len(evs) = Len(packets)
    BY <1>1, <2>1, TupleIsSeq
  <2>3. \A i \in 1 .. Len(packets) : evs[i] = PacketReceived(r, packets[i])
    BY <1>1
  <2> QED BY <2>2, <2>3
<1>4. ~ Leaves(evs, q)
  <2>1. \A i \in 1 .. Len(evs) : evs[i].type = "PacketReceived"
    <3>1. \A p : PacketReceived(r, p).type = "PacketReceived"
      BY DEF PacketReceived
    <3> QED BY <1>3, <3>1
  <2> QED BY <2>1 DEF Leaves
<1>5. Heard(h, q, evs) = IF q = r THEN packets ELSE <<>>
  <2> DEFINE f == [x \in Packet |-> IF q = r THEN <<x>> ELSE <<>>]
  <2>1. \A x \in Packet : <<x>> \in Seq(Packet)
    BY PacketsAreSigns
  <2>2. Maps(f, Packet, Packet)
    BY <2>1 DEF Maps
  <2>3. ASSUME NEW i \in 1 .. Len(packets)
        PROVE  Tells(h, q)[evs[i]] = f[packets[i]]
    <3>1. packets[i] \in Packet /\ evs[i] \in Event(h) /\ evs[i] = PacketReceived(r, packets[i])
      BY <1>2, <1>3
    <3>2. evs[i].remote = r /\ evs[i].type = "PacketReceived" /\ evs[i].packet = packets[i]
      BY <3>1 DEF PacketReceived
    <3> QED BY <3>1, <3>2 DEF Tells
  <2>4. Heard(h, q, evs) = Mapped(f, packets)
    <3> HIDE DEF f
    <3>1. [i \in 1 .. Len(evs) |-> Tells(h, q)[evs[i]]] = [i \in 1 .. Len(packets) |-> f[packets[i]]]
      BY <1>3, <2>3
    <3> QED BY <3>1 DEF Heard, Mapped
  <2>5. CASE q = r
    <3>1. \A x \in Packet : f[x] = <<x>>
      BY <2>5
    <3> HIDE DEF f, Packet
    <3>2. Mapped(f, packets) = packets
      BY <2>2, <3>1, MappedSame
    <3> QED BY <2>4, <2>5, <3>2
  <2>6. CASE q # r
    <3>1. \A x \in Packet : f[x] = <<>>
      BY <2>6
    <3> HIDE DEF f, Packet
    <3>2. Mapped(f, packets) = <<>>
      BY <2>2, <3>1, MappedNothing
    <3> QED BY <2>4, <2>6, <3>2
  <2> QED BY <2>5, <2>6
<1> QED BY <1>2, <1>4, <1>5

(* What a message makes of the processor of its sender.                    *)
Turns(m, r, T, U) ==
    /\ m.kind \in Accepting => r \in DOMAIN U /\ U[r] = NewProcessor
    /\ m.kind = "GamePacket" => r \in DOMAIN T /\ r \in DOMAIN U /\ U[r] = decoded(T[r])
    /\ m.kind = "DisconnectionNotification" => U = T

Parts(h, r, s, t, heard) ==
    /\ Works(h, t)
    /\ Heard(h, r, t.events) = Heard(h, r, s.events) \o heard
    /\ Leaves(t.events, r) => Leaves(s.events, r)
    /\ \A q : q # r => Spared(h, q, s, t)

(* A message, and how it changes the state for its sender and for others.  *)
LEMMA OnConnectedParts ==
    ASSUME NEW h, NEW s \in Ticking(h), NEW r \in Remotes(h), NEW t, t = OnConnected(s, r)
    PROVE  /\ t \in Ticking(h) /\ t.result = s.result
           /\ r \in DOMAIN t.table /\ t.table[r] = NewProcessor
           /\ Heard(h, r, t.events) = Heard(h, r, s.events) \o <<"Connected">>
           /\ Leaves(t.events, r) => Leaves(s.events, r)
           /\ \A q : q # r => Spared(h, q, s, t)
<1> DEFINE e == [type |-> "Connected", remote |-> r]
<1>1. t \in Ticking(h)
  BY OnConnectedEffect DEF Evolves
<1>2. s.events \in Seq(Event(h))
  BY DEF Ticking
<1>3. t.table = Set(s.table, r, NewProcessor) /\ t.events = Append(s.events, e) /\ t.result = s.result
  BY DEF OnConnected
<1>4. e \in Event(h) /\ e.type = "Connected" /\ e.remote = r
  BY DEF Event
<1> HIDE DEF e
<1>5. PICK more \in Seq(Event(h)) : more = <<e>>
  BY <1>4, OneIsIn
<1>6. t.events = s.events \o more
  BY <1>2, <1>3, <1>4, <1>5
<1>7. \A q : ~ Leaves(more, q)
  BY <1>4, <1>5 DEF Leaves
<1>8. \A q : Leaves(t.events, q) => Leaves(s.events, q)
  BY <1>2, <1>6, <1>7, LeavesAppend
<1>9. \A q : Heard(h, q, more) = IF q = r THEN <<"Connected">> ELSE <<>>
  <2>1. \A q : Heard(h, q, more) = Tells(h, q)[e]
    BY <1>4, <1>5, HeardIs
  <2> QED BY <1>4, <2>1 DEF Tells
<1>10. \A q : Heard(h, q, t.events) = Heard(h, q, s.events) \o Heard(h, q, more)
  BY <1>2, <1>6, HeardIs
<1>11. \A q : q # r => Heard(h, q, t.events) = Heard(h, q, s.events)
  <2>1. \A q : Heard(h, q, s.events) \in Seq(Sign)
    BY <1>2, HeardIs
  <2>2. \A q : Heard(h, q, s.events) \o <<>> = Heard(h, q, s.events)
    BY <2>1, ConcatEmptySeq
  <2> QED BY <1>9, <1>10, <2>2
<1>12. /\ r \in DOMAIN t.table /\ t.table[r] = NewProcessor
       /\ \A q : q # r => /\ q \in DOMAIN t.table <=> q \in DOMAIN s.table
                          /\ q \in DOMAIN s.table => t.table[q] = s.table[q]
  BY <1>3 DEF Set
<1>13. Heard(h, r, t.events) = Heard(h, r, s.events) \o <<"Connected">>
  BY <1>9, <1>10
<1> QED BY <1>1, <1>3, <1>8, <1>11, <1>12, <1>13 DEF Spared

LEMMA OnGamePacketParts ==
    ASSUME Uncompressing, NEW h, NEW s \in Ticking(h), NEW r \in Remotes(h), NEW d \in Batch,
           r \in DOMAIN s.table, Suits(s.table[r], d, 0), s.result = "fine",
           NEW t, t = OnGamePacket(s, r, d)
    PROVE  /\ Parts(h, r, s, t, d.packets)
           /\ r \in DOMAIN t.table /\ t.table[r] = decoded(s.table[r])
<1>1. t \in Ticking(h)
  BY OnGamePacketEffect DEF Evolves
<1>2. s.events \in Seq(Event(h)) /\ s.table \in Table(h) /\ d.packets \in Seq(Packet)
  BY DEF Ticking, Batch
<1>3. s.table[r] \in Processor
  BY <1>2, TableIs
<1>4. decode(s.table[r], d) = "fine"
  BY <1>3, SuitsUnderstood
<1>5. PICK more : more = AllReceived(r, d.packets)
  OBVIOUS
<1>6. /\ t.table = Set(s.table, r, decoded(s.table[r]))
      /\ t.events = s.events \o more /\ t.result = "fine"
  BY <1>4, <1>5 DEF OnGamePacket
<1>7. more \in Seq(Event(h)) /\ \A q : ~ Leaves(more, q)
  BY <1>2, <1>5, HeardFrom
<1>8. \A q : Leaves(t.events, q) => Leaves(s.events, q)
  BY <1>2, <1>6, <1>7, LeavesAppend
<1>9. \A q : Heard(h, q, more) = IF q = r THEN d.packets ELSE <<>>
  BY <1>2, <1>5, HeardFrom
<1>10. \A q : Heard(h, q, t.events) = Heard(h, q, s.events) \o Heard(h, q, more)
  BY <1>2, <1>6, <1>7, HeardIs
<1>11. \A q : q # r => Heard(h, q, t.events) = Heard(h, q, s.events)
  <2>1. \A q : Heard(h, q, s.events) \in Seq(Sign)
    BY <1>2, HeardIs
  <2>2. \A q : Heard(h, q, s.events) \o <<>> = Heard(h, q, s.events)
    BY <2>1, ConcatEmptySeq
  <2> QED BY <1>9, <1>10, <2>2
<1>12. /\ r \in DOMAIN t.table /\ t.table[r] = decoded(s.table[r])
       /\ \A q : q # r => /\ q \in DOMAIN t.table <=> q \in DOMAIN s.table
                          /\ q \in DOMAIN s.table => t.table[q] = s.table[q]
  BY <1>6 DEF Set
<1>13. Heard(h, r, t.events) = Heard(h, r, s.events) \o d.packets
  BY <1>9, <1>10
<1> QED BY <1>1, <1>6, <1>8, <1>11, <1>12, <1>13 DEF Spared, Parts, Works

LEMMA SparedNot ==
    ASSUME NEW h, NEW s
    PROVE  \A q : Spared(h, q, s, s)
BY DEF Spared

LEMMA SparedOn ==
    ASSUME NEW h, NEW q, NEW s, NEW t, NEW u, Spared(h, q, s, t), Spared(h, q, t, u)
    PROVE  Spared(h, q, s, u)
BY DEF Spared

LEMMA OnMessageParts ==
    ASSUME Uncompressing, NEW h, NEW s, Works(h, s), NEW r \in Remotes(h),
           NEW v \in Seq(Message), Len(v) > 0, Reads(s.table, r, v),
           NEW t, t = OnMessage(s, r, v[1])
    PROVE  /\ Parts(h, r, s, t, Says[v[1]])
           /\ Turns(v[1], r, s.table, t.table)
           /\ Reads(t.table, r, Tail(v))
<1>1. v[1] \in Message /\ 1 \in 1 .. Len(v)
  BY TailIs
<1>2. s \in Ticking(h) /\ s.result = "fine" /\ s.table \in Table(h)
  BY DEF Works, Ticking
<1> SUFFICES Parts(h, r, s, t, Says[v[1]]) /\ Turns(v[1], r, s.table, t.table)
  <2> SUFFICES ASSUME Turns(v[1], r, s.table, t.table) PROVE Reads(t.table, r, Tail(v))
    OBVIOUS
  <2>1. PICK m \in Message : m = v[1]
    BY <1>1
  <2>2. Kind(m)
    BY MessageKind
  <2>3. After(s.table, r, v, t.table)
    BY <2>1, <2>2 DEF Turns, After, Kind
  <2>4. v[1].kind # "DisconnectionNotification" => r \in DOMAIN t.table
    BY <2>1, <2>2 DEF Turns, Kind
  <2> QED BY <1>2, <2>3, <2>4, ReadsTail
<1>3. CASE v[1].kind \in Accepting
  <2>0. v[1].kind # "GamePacket"
    BY <1>1, <1>3, MessageKind
  <2>1. t = OnConnected(s, r)
    BY <1>2, <1>3, <2>0 DEF OnMessage
  <2>2. Says[v[1]] = <<"Connected">>
    BY <1>1, <1>3, <2>0 DEF Says
  <2>3. /\ t \in Ticking(h) /\ t.result = s.result
        /\ r \in DOMAIN t.table /\ t.table[r] = NewProcessor
        /\ Heard(h, r, t.events) = Heard(h, r, s.events) \o <<"Connected">>
        /\ Leaves(t.events, r) => Leaves(s.events, r)
        /\ \A q : q # r => Spared(h, q, s, t)
    BY <1>2, <2>1, OnConnectedParts
  <2>4. v[1].kind # "GamePacket" /\ v[1].kind # "DisconnectionNotification"
    BY <1>1, <1>3, MessageKind
  <2> QED BY <1>2, <2>2, <2>3, <2>4 DEF Parts, Turns, Works
<1>4. CASE v[1].kind = "GamePacket"
  <2>1. v[1].kind \notin Accepting /\ v[1].batch \in Batch
    BY <1>1, <1>4, MessageKind
  <2>2. t = OnGamePacket(s, r, v[1].batch)
    BY <1>2, <1>4, <2>1 DEF OnMessage
  <2>3. Says[v[1]] = v[1].batch.packets
    BY <1>1, <1>4, <2>1 DEF Says
  <2>4. Fine(s.table, r, v, 1) /\ ~ Opens(v)
    BY <1>1, <1>4, <2>1 DEF Reads, Opens
  <2>5. r \in DOMAIN s.table /\ Suits(s.table[r], v[1].batch, 0)
    BY <2>4 DEF Fine
  <2>6. /\ Parts(h, r, s, t, v[1].batch.packets)
        /\ r \in DOMAIN t.table /\ t.table[r] = decoded(s.table[r])
    <3>1. PICK d \in Batch : d = v[1].batch
      BY <2>1
    <3>2. Suits(s.table[r], d, 0) /\ r \in DOMAIN s.table
      BY <2>5, <3>1
    <3>3. PICK u : u = OnGamePacket(s, r, d)
      OBVIOUS
    <3>4. Parts(h, r, s, u, d.packets) /\ r \in DOMAIN u.table /\ u.table[r] = decoded(s.table[r])
      BY <1>2, <3>2, <3>3, OnGamePacketParts
    <3> QED BY <2>2, <3>1, <3>3, <3>4
  <2>7. v[1].kind # "DisconnectionNotification"
    BY <1>4
  <2> QED BY <2>1, <2>3, <2>5, <2>6, <2>7 DEF Turns
<1>5. CASE v[1].kind = "DisconnectionNotification"
  <2>0. PICK m \in Message : m = v[1]
    BY <1>1
  <2>1. v[1].kind \notin Accepting /\ v[1].kind # "GamePacket"
    BY <1>5, <2>0, MessageKind
  <2>2. t = s
    BY <1>2, <2>1 DEF OnMessage
  <2>3. Says[v[1]] = <<>>
    BY <1>1, <2>1 DEF Says
  <2>4. Heard(h, r, s.events) \o <<>> = Heard(h, r, s.events)
    <3>1. s.events \in Seq(Event(h))
      BY <1>2 DEF Ticking
    <3>2. Heard(h, r, s.events) \in Seq(Sign)
      BY <3>1, HeardIs
    <3> QED BY <3>2, ConcatEmptySeq
  <2>5. \A q : Spared(h, q, s, s)
    BY SparedNot
  <2> QED BY <2>1, <2>2, <2>3, <2>4, <2>5 DEF Parts, Turns
<1> QED BY <1>1, <1>3, <1>4, <1>5, MessageKind DEF Kind

LEMMA PartsOn ==
    ASSUME NEW h, NEW r, NEW s \in Ticking(h), NEW t, NEW u, NEW a \in Seq(Sign), NEW b \in Seq(Sign),
           Parts(h, r, s, t, a), Parts(h, r, t, u, b)
    PROVE  Parts(h, r, s, u, a \o b)
<1>1. Heard(h, r, u.events) = Heard(h, r, s.events) \o (a \o b)
  <2>1. s.events \in Seq(Event(h))
    BY DEF Ticking
  <2>2. Heard(h, r, s.events) \in Seq(Sign)
    BY <2>1, HeardIs
  <2>3. Heard(h, r, u.events) = (Heard(h, r, s.events) \o a) \o b
    BY DEF Parts
  <2> QED BY <2>2, <2>3, ConcatAssociative
<1>2. \A q : q # r => Spared(h, q, s, u)
  BY SparedOn DEF Parts
<1> QED BY <1>1, <1>2 DEF Parts

-----------------------------------------------------------------------------
(* The first k of the messages w of r.                                     *)
First(w, k) == SubSeq(w, 1, k)
Rest(w, k) == SubSeq(w, k + 1, Len(w))

Turned(r, w, k, T, U) ==
    ~ Farewell(First(w, k)) =>
        IF Opens(w) /\ k > 0 THEN r \in DOMAIN U /\ U[r] = NewProcessor
        ELSE /\ r \in DOMAIN U <=> r \in DOMAIN T
             /\ r \in DOMAIN T => U[r] = Advanced(T[r], k)

Part(h, r, w, k, s, t) ==
    /\ Parts(h, r, s, t, Spoken(First(w, k)))
    /\ Reads(t.table, r, Rest(w, k))
    /\ Turned(r, w, k, s.table, t.table)

LEMMA FirstRest ==
    ASSUME NEW w \in Seq(Message), NEW k \in 1 .. Len(w)
    PROVE  /\ First(w, k) = First(w, k - 1) \o <<w[k]>>
           /\ First(w, k - 1) \in Seq(Message) /\ w[k] \in Message
           /\ Rest(w, k - 1) \in Seq(Message) /\ Len(Rest(w, k - 1)) > 0
           /\ Rest(w, k - 1)[1] = w[k]
           /\ Tail(Rest(w, k - 1)) = Rest(w, k)
<1> HIDE DEF Message
<1>1. w[k] \in Message /\ First(w, k - 1) \in Seq(Message)
      /\ First(w, k) = Append(First(w, k - 1), w[k])
  BY PrefixGrows DEF First
<1>2. First(w, k) = First(w, k - 1) \o <<w[k]>>
  BY <1>1
<1>3. /\ Rest(w, k - 1) \in Seq(Message) /\ Len(Rest(w, k - 1)) = Len(w) - (k - 1)
      /\ \A i \in 1 .. Len(w) - (k - 1) : Rest(w, k - 1)[i] = w[k - 1 + i]
      /\ Rest(w, k) \in Seq(Message) /\ Len(Rest(w, k)) = Len(w) - k
      /\ \A i \in 1 .. Len(w) - k : Rest(w, k)[i] = w[k + i]
  BY DEF Rest
<1>4. PICK v \in Seq(Message) : v = Rest(w, k - 1)
  BY <1>3
<1>5. PICK u \in Seq(Message) : u = Rest(w, k)
  BY <1>3
<1>6. Len(v) > 0 /\ v[1] = w[k]
  <2>1. Len(w) \in Nat /\ k \in Nat /\ k <= Len(w)
    OBVIOUS
  <2>2. 1 \in 1 .. Len(w) - (k - 1) /\ k - 1 + 1 = k
    BY <2>1
  <2>3. Len(v) = Len(w) - (k - 1) /\ v[1] = w[k]
    BY <1>3, <1>4, <2>2
  <2> QED BY <2>1, <2>3
<1>7. /\ Tail(v) \in Seq(Message) /\ Len(Tail(v)) = Len(v) - 1
      /\ \A i \in 1 .. Len(Tail(v)) : Tail(v)[i] = v[i + 1]
  BY <1>6, TailIs
<1>8. Len(Tail(v)) = Len(u) /\ \A i \in 1 .. Len(u) : Tail(v)[i] = u[i]
  <2>1. Len(w) \in Nat /\ k \in Nat /\ k <= Len(w) /\ k >= 1
    OBVIOUS
  <2>2. Len(v) = Len(w) - (k - 1) /\ Len(u) = Len(w) - k
    BY <1>3, <1>4, <1>5
  <2>3. Len(Tail(v)) = Len(u)
    BY <1>7, <2>1, <2>2
  <2>4. ASSUME NEW i \in 1 .. Len(u) PROVE Tail(v)[i] = u[i]
    <3>1. i \in 1 .. Len(w) - k /\ i + 1 \in 1 .. Len(w) - (k - 1) /\ k - 1 + (i + 1) = k + i
      BY <2>1, <2>2
    <3>2. v[i + 1] = w[k - 1 + (i + 1)] /\ u[i] = w[k + i]
      BY <1>3, <1>4, <1>5, <3>1
    <3> QED BY <1>7, <2>3, <3>1, <3>2
  <2> QED BY <2>3, <2>4
<1>9. Tail(v) = u
  BY <1>7, <1>8, SeqEqual
<1> QED BY <1>1, <1>2, <1>3, <1>4, <1>5, <1>6, <1>9

LEMMA FarewellGrows ==
    ASSUME NEW v \in Seq(Message), NEW m \in Message, ~ Farewell(v \o <<m>>)
    PROVE  ~ Farewell(v) /\ m.kind # "DisconnectionNotification"
<1> HIDE DEF Message
<1>1. /\ Len(v \o <<m>>) = Len(v) + 1 /\ (v \o <<m>>)[Len(v) + 1] = m
      /\ \A i \in 1 .. Len(v) : (v \o <<m>>)[i] = v[i]
  OBVIOUS
<1>2. PICK u : u = v \o <<m>>
  OBVIOUS
<1>3. \A i \in 1 .. Len(u) : u[i].kind # "DisconnectionNotification"
  BY <1>2 DEF Farewell
<1>4. Len(v) \in Nat
  OBVIOUS
<1> QED BY <1>1, <1>2, <1>3, <1>4 DEF Farewell

LEMMA PartGrows ==
    ASSUME Uncompressing, NEW h, NEW r \in Remotes(h), NEW w \in Seq(Message),
           NEW k \in 1 .. Len(w), NEW s, Works(h, s), Reads(s.table, r, w),
           NEW t, Part(h, r, w, k - 1, s, t), NEW u, u = OnMessage(t, r, w[k])
    PROVE  Part(h, r, w, k, s, u)
<1>1. /\ First(w, k) = First(w, k - 1) \o <<w[k]>>
      /\ First(w, k - 1) \in Seq(Message) /\ w[k] \in Message
      /\ Rest(w, k - 1) \in Seq(Message) /\ Len(Rest(w, k - 1)) > 0
      /\ Rest(w, k - 1)[1] = w[k]
      /\ Tail(Rest(w, k - 1)) = Rest(w, k)
  BY FirstRest
<1>2. /\ Parts(h, r, t, u, Says[w[k]])
      /\ Turns(w[k], r, t.table, u.table)
      /\ Reads(u.table, r, Rest(w, k))
  <2>1. Works(h, t) /\ Reads(t.table, r, Rest(w, k - 1))
    BY DEF Part, Parts
  <2> QED BY <1>1, <2>1, OnMessageParts
<1>3. Spoken(First(w, k)) = Spoken(First(w, k - 1)) \o Says[w[k]]
  <2>1. PICK one \in Seq(Message) : one = <<w[k]>>
    BY <1>1, OneIsIn
  <2>2. Spoken(one) = Says[w[k]]
    BY <1>1, <2>1, SpokenIs
  <2> QED BY <1>1, <2>1, <2>2, SpokenIs
<1>4. Spoken(First(w, k - 1)) \in Seq(Sign) /\ Says[w[k]] \in Seq(Sign)
  <2>1. \A m \in Message : Says[m] \in Seq(Sign)
    BY SaysType DEF Maps
  <2> QED BY <1>1, <2>1, SpokenIs
<1>5. s \in Ticking(h) /\ s.table \in Table(h)
  BY DEF Works, Ticking
<1>6. Parts(h, r, s, u, Spoken(First(w, k)))
  BY <1>2, <1>3, <1>4, <1>5, PartsOn DEF Part
<1>7. Turned(r, w, k, s.table, u.table)
  <2> SUFFICES ASSUME ~ Farewell(First(w, k))
               PROVE  IF Opens(w) /\ k > 0 THEN r \in DOMAIN u.table /\ u.table[r] = NewProcessor
                      ELSE /\ r \in DOMAIN u.table <=> r \in DOMAIN s.table
                           /\ r \in DOMAIN s.table => u.table[r] = Advanced(s.table[r], k)
    BY DEF Turned
  <2>1. ~ Farewell(First(w, k - 1)) /\ w[k].kind # "DisconnectionNotification"
    BY <1>1, FarewellGrows
  <2>2. IF Opens(w) /\ k - 1 > 0 THEN r \in DOMAIN t.table /\ t.table[r] = NewProcessor
        ELSE /\ r \in DOMAIN t.table <=> r \in DOMAIN s.table
             /\ r \in DOMAIN s.table => t.table[r] = Advanced(s.table[r], k - 1)
    BY <2>1 DEF Part, Turned
  <2>3. w[k].kind \in Accepting => k = 1
    BY DEF Reads
  <2>4. CASE w[k].kind \in Accepting
    <3>1. Opens(w)
      BY <2>3, <2>4 DEF Opens
    <3> QED BY <1>2, <2>4, <3>1 DEF Turns
  <2>5. CASE w[k].kind = "GamePacket"
    <3>1. r \in DOMAIN t.table /\ r \in DOMAIN u.table /\ u.table[r] = decoded(t.table[r])
      BY <1>2, <2>5 DEF Turns
    <3>2. CASE Opens(w)
      <4>1. k # 1
        <5>1. w[k].kind \notin Accepting
          BY <2>5 DEF Accepting
        <5> QED BY <3>2, <5>1 DEF Opens
      <4>2. t.table[r] = NewProcessor
        BY <2>2, <3>2, <4>1
      <4>3. decoded(NewProcessor) = NewProcessor
        BY DEF decoded, NewProcessor
      <4> QED BY <3>1, <3>2, <4>2, <4>3
    <3>3. CASE ~ Opens(w)
      <4>1. r \in DOMAIN s.table /\ t.table[r] = Advanced(s.table[r], k - 1)
        BY <2>2, <3>1, <3>3
      <4>2. s.table[r] \in Processor
        BY <1>5, <4>1, TableIs
      <4>3. k - 1 \in Nat /\ (k - 1) + 1 = k
        OBVIOUS
      <4>4. decoded(Advanced(s.table[r], k - 1)) = Advanced(s.table[r], k)
        BY <4>2, <4>3, AdvancedIs
      <4> QED BY <3>1, <3>3, <4>1, <4>4
    <3> QED BY <3>2, <3>3
  <2> QED BY <1>1, <2>1, <2>4, <2>5, MessageKind DEF Kind
<1> QED BY <1>2, <1>6, <1>7 DEF Part

LEMMA OnMessagesParts ==
    ASSUME Uncompressing, NEW h, NEW r \in Remotes(h), NEW w \in Seq(Message),
           NEW n \in 0 .. Len(w), NEW s, Works(h, s), Reads(s.table, r, w)
    PROVE  Part(h, r, w, n, s, OnMessages(s, r, First(w, n)))
<1>1. PICK messages : messages = First(w, n)
  OBVIOUS
<1>2. Len(messages) = n /\ n \in Nat /\ \A k \in 1 .. n : messages[k] = w[k]
  BY <1>1 DEF First
<1>3. PICK run : MessageRun(run, s, r, messages)
  BY <1>2, OnMessagesRun
<1>4. /\ run[0] = s
      /\ \A k \in 1 .. n : run[k] = OnMessage(run[k - 1], r, w[k])
      /\ OnMessages(s, r, messages) = run[n]
  BY <1>2, <1>3 DEF MessageRun
<1> DEFINE G == {k \in 0 .. n : Part(h, r, w, k, s, run[k])}
<1>5. Part(h, r, w, 0, s, s)
  <2>1. s \in Ticking(h) /\ s.table \in Table(h) /\ s.events \in Seq(Event(h))
    BY DEF Works, Ticking
  <2>2. First(w, 0) = <<>> /\ Rest(w, 0) = w
    BY DEF First, Rest
  <2>3. Spoken(First(w, 0)) = <<>>
    BY <2>2, SpokenIs
  <2>4. Heard(h, r, s.events) \o <<>> = Heard(h, r, s.events)
    <3>1. Heard(h, r, s.events) \in Seq(Sign)
      BY <2>1, HeardIs
    <3> QED BY <3>1, ConcatEmptySeq
  <2>5. Parts(h, r, s, s, <<>>)
    BY <2>4, SparedNot DEF Parts
  <2>6. r \in DOMAIN s.table => Advanced(s.table[r], 0) = s.table[r]
    <3>1. r \in DOMAIN s.table => s.table[r] \in Processor
      BY <2>1, TableIs
    <3> QED BY <3>1, AdvancedIs
  <2>7. Turned(r, w, 0, s.table, s.table)
    BY <2>6 DEF Turned
  <2> QED BY <2>2, <2>3, <2>5, <2>7 DEF Part
<1>6. 0 \in G
  BY <1>2, <1>4, <1>5
<1>7. ASSUME NEW k \in 1 .. n, k - 1 \in G
      PROVE  k \in G
  <2>1. Part(h, r, w, k - 1, s, run[k - 1]) /\ run[k] = OnMessage(run[k - 1], r, w[k])
    BY <1>4, <1>7
  <2>2. k \in 1 .. Len(w)
    OBVIOUS
  <2>3. Part(h, r, w, k, s, run[k])
    BY <2>1, <2>2, PartGrows
  <2> QED BY <2>3
<1> HIDE DEF G
<1>8. \A k \in 0 .. n : k \in G
  BY <1>2, <1>6, <1>7, StepsInduction
<1>9. n \in 0 .. n
  BY <1>2
<1>10. n \in G
  BY <1>8, <1>9
<1> QED BY <1>1, <1>4, <1>10 DEF G

(* What happens to r when the first k of its messages w are looked at,     *)
(* whatever happens to the others.                                         *)
Took(h, r, w, k, s, t) ==
    /\ Heard(h, r, t.events) = Heard(h, r, s.events) \o Spoken(First(w, k))
    /\ Leaves(t.events, r) => Leaves(s.events, r)
    /\ Reads(t.table, r, Rest(w, k))
    /\ Turned(r, w, k, s.table, t.table)

LEMMA PartTook ==
    ASSUME NEW h, NEW r, NEW w, NEW k, NEW s, NEW t, Part(h, r, w, k, s, t)
    PROVE  Works(h, t) /\ Took(h, r, w, k, s, t) /\ \A q : q # r => Spared(h, q, s, t)
BY DEF Part, Parts, Took

LEMMA ReadsSpared ==
    ASSUME NEW h, NEW r, NEW w, NEW s, NEW t, Spared(h, r, s, t), Reads(s.table, r, w)
    PROVE  Reads(t.table, r, w)
BY DEF Spared, Reads, Fine

LEMMA TookBefore ==
    ASSUME NEW h, NEW r, NEW w, NEW k, NEW s, NEW t, NEW u,
           Spared(h, r, s, t), Took(h, r, w, k, t, u)
    PROVE  Took(h, r, w, k, s, u)
<1>1. Turned(r, w, k, s.table, u.table)
  BY DEF Spared, Took, Turned
<1> QED BY <1>1 DEF Spared, Took

LEMMA TookAfter ==
    ASSUME NEW h, NEW r, NEW w, NEW k, NEW s, NEW t, NEW u,
           Took(h, r, w, k, s, t), Spared(h, r, t, u)
    PROVE  Took(h, r, w, k, s, u)
<1>1. Turned(r, w, k, s.table, u.table)
  BY DEF Spared, Took, Turned
<1>2. Reads(u.table, r, Rest(w, k))
  BY ReadsSpared DEF Took
<1> QED BY <1>1, <1>2 DEF Spared, Took

Due(h, s, W, n, received) ==
    \A q \in Remotes(h) : /\ W[q] \in Seq(Message) /\ n[q] \in 0 .. Len(W[q])
                          /\ received[q] = First(W[q], n[q])
                          /\ Reads(s.table, q, W[q])

\* The first k in the order had their turn.
TurnsTaken(h, W, n, order, k, s, t) ==
    /\ Works(h, t)
    /\ \A i \in 1 .. Len(order) :
          IF i <= k THEN Took(h, order[i], W[order[i]], n[order[i]], s, t)
          ELSE Spared(h, order[i], s, t)

LEMMA OrderOnce ==
    ASSUME NEW S, IsFiniteSet(S), NEW order \in SetToSeqs(S)
    PROVE  \A i, j \in 1 .. Len(order) : i # j => order[i] # order[j]
<1>1. Cardinality(S) \in Nat
  BY FS_CardinalityType
<1>2. PICK n \in Nat : n = Cardinality(S)
  BY <1>1
<1>3. order \in [1 .. n -> S] /\ \A i, j \in 1 .. n : i # j => order[i] # order[j]
  BY <1>2 DEF SetToSeqs
<1>4. Len(order) = n
  BY <1>3
<1> QED BY <1>3, <1>4

LEMMA TurnTaken ==
    ASSUME Uncompressing, NEW h, NEW W, NEW n, NEW received, NEW order \in Seq(Remotes(h)),
           \A i, j \in 1 .. Len(order) : i # j => order[i] # order[j],
           NEW s, Due(h, s, W, n, received), NEW k \in 1 .. Len(order),
           NEW t, TurnsTaken(h, W, n, order, k - 1, s, t),
           NEW u, u = OnMessages(t, order[k], received[order[k]])
    PROVE  TurnsTaken(h, W, n, order, k, s, u)
<1>1. PICK r \in Remotes(h) : r = order[k]
  OBVIOUS
<1>2. PICK w \in Seq(Message) : w = W[r]
  BY DEF Due
<1>3. PICK m \in 0 .. Len(w) : m = n[r]
  BY <1>2 DEF Due
<1>4. received[r] = First(w, m) /\ Reads(s.table, r, w)
  BY <1>2, <1>3 DEF Due
<1>5. Spared(h, r, s, t) /\ Works(h, t)
  BY <1>1 DEF TurnsTaken
<1>6. Reads(t.table, r, w)
  BY <1>4, <1>5, ReadsSpared
<1>7. Part(h, r, w, m, t, OnMessages(t, r, First(w, m)))
  BY <1>5, <1>6, OnMessagesParts
<1>8. Part(h, r, w, m, t, u)
  BY <1>1, <1>4, <1>7
<1>9. Works(h, u) /\ Took(h, r, w, m, t, u) /\ \A q : q # r => Spared(h, q, t, u)
  BY <1>8, PartTook
<1>10. Took(h, r, w, m, s, u)
  BY <1>5, <1>9, TookBefore
<1>11. ASSUME NEW i \in 1 .. Len(order)
       PROVE  IF i <= k THEN Took(h, order[i], W[order[i]], n[order[i]], s, u)
              ELSE Spared(h, order[i], s, u)
  <2>1. CASE i = k
    BY <1>1, <1>2, <1>3, <1>10, <2>1
  <2>2. CASE i # k
    <3>1. order[i] # r
      BY <1>1, <2>2
    <3>2. Spared(h, order[i], t, u)
      BY <1>9, <3>1
    <3>3. CASE i <= k
      <4>1. i <= k - 1
        BY <2>2, <3>3
      <4>2. Took(h, order[i], W[order[i]], n[order[i]], s, t)
        BY <4>1 DEF TurnsTaken
      <4>3. Took(h, order[i], W[order[i]], n[order[i]], s, u)
        BY <3>2, <4>2, TookAfter
      <4> QED BY <3>3, <4>3
    <3>4. CASE ~ (i <= k)
      <4>1. ~ (i <= k - 1)
        BY <3>4
      <4>2. Spared(h, order[i], s, t)
        BY <4>1 DEF TurnsTaken
      <4>3. Spared(h, order[i], s, u)
        BY <3>2, <4>2, SparedOn
      <4> QED BY <3>4, <4>3
    <3> QED BY <3>3, <3>4
  <2> QED BY <2>1, <2>2
<1> QED BY <1>9, <1>11 DEF TurnsTaken

LEMMA ArrivalsTake ==
    ASSUME Uncompressing, NEW h, IsFiniteSet(Remotes(h)), NEW W, NEW n, NEW received,
           NEW order \in SetToSeqs(Remotes(h)),
           NEW s, Works(h, s), Due(h, s, W, n, received)
    PROVE  /\ Works(h, Arrivals(s, order, received))
           /\ \A q \in Remotes(h) : Took(h, q, W[q], n[q], s, Arrivals(s, order, received))
<1>1. /\ order \in Seq(Remotes(h))
      /\ \A r \in Remotes(h) : \E i \in 1 .. Len(order) : order[i] = r
  BY OrderCovers
<1>2. \A i, j \in 1 .. Len(order) : i # j => order[i] # order[j]
  BY OrderOnce
<1>3. Len(order) \in Nat
  BY <1>1
<1>4. PICK run : ArrivalRun(run, s, order, received)
  BY <1>3, ArrivalsRun
<1>5. PICK N \in Nat : N = Len(order)
  BY <1>3
<1>6. /\ run[0] = s /\ Arrivals(s, order, received) = run[N]
      /\ \A k \in 1 .. N : run[k] = OnMessages(run[k - 1], order[k], received[order[k]])
  BY <1>4, <1>5 DEF ArrivalRun
<1> DEFINE G == {k \in 0 .. N : TurnsTaken(h, W, n, order, k, s, run[k])}
<1>7. 0 \in G
  <2>1. \A i \in 1 .. Len(order) : ~ (i <= 0)
    OBVIOUS
  <2>2. \A i \in 1 .. Len(order) : Spared(h, order[i], s, s)
    BY SparedNot
  <2>3. TurnsTaken(h, W, n, order, 0, s, s)
    BY <2>1, <2>2 DEF TurnsTaken
  <2> QED BY <1>5, <1>6, <2>3
<1>8. ASSUME NEW k \in 1 .. N, k - 1 \in G
      PROVE  k \in G
  <2>1. /\ TurnsTaken(h, W, n, order, k - 1, s, run[k - 1])
        /\ run[k] = OnMessages(run[k - 1], order[k], received[order[k]])
    BY <1>6, <1>8
  <2>2. k \in 1 .. Len(order)
    BY <1>5
  <2>3. TurnsTaken(h, W, n, order, k, s, run[k])
    BY <1>1, <1>2, <2>1, <2>2, TurnTaken
  <2> QED BY <2>3
<1> HIDE DEF G
<1>9. \A k \in 0 .. N : k \in G
  BY <1>5, <1>7, <1>8, StepsInduction
<1>10. N \in 0 .. N
  BY <1>5
<1>11. TurnsTaken(h, W, n, order, N, s, run[N])
  BY <1>9, <1>10 DEF G
<1>12. ASSUME NEW q \in Remotes(h)
       PROVE  Took(h, q, W[q], n[q], s, run[N])
  <2>1. PICK i \in 1 .. Len(order) : order[i] = q
    BY <1>1
  <2>2. i <= N
    BY <1>5
  <2> QED BY <1>11, <2>1, <2>2 DEF TurnsTaken
<1> QED BY <1>6, <1>11, <1>12 DEF TurnsTaken

(* The removal of the disconnected.                                        *)
Parted(h, received, s, t) ==
    /\ Works(h, t)
    /\ \A q : Heard(h, q, t.events) = Heard(h, q, s.events)
    /\ \A q : ~ Left(received[q]) => Spared(h, q, s, t)

LEMMA OnLeftParts ==
    ASSUME NEW h, NEW received, NEW r \in Remotes(h), NEW s, Works(h, s),
           NEW t, t = OnLeft(s, r, received[r])
    PROVE  Parted(h, received, s, t)
<1>1. s \in Ticking(h) /\ s.result = "fine" /\ s.events \in Seq(Event(h))
  BY DEF Works, Ticking
<1>2. CASE ~ Left(received[r])
  <2>1. t = s
    BY <1>2 DEF OnLeft
  <2> QED BY <2>1, SparedNot DEF Parted
<1>3. CASE Left(received[r])
  <2>1. t = OnDisconnected(s, r)
    BY <1>1, <1>3 DEF OnLeft
  <2>2. t \in Ticking(h)
    BY <1>1, <2>1, OnDisconnectedEffect DEF Evolves
  <2>3. PICK e : e = [type |-> "Disconnected", remote |-> r]
    OBVIOUS
  <2>4. e \in Event(h) /\ e.type = "Disconnected" /\ e.remote = r
    BY <2>3 DEF Event
  <2>5. t.table = Drop(s.table, {r}) /\ t.events = Append(s.events, e) /\ t.result = "fine"
    BY <1>1, <2>1, <2>3 DEF OnDisconnected
  <2>6. PICK more \in Seq(Event(h)) : more = <<e>>
    BY <2>4, OneIsIn
  <2>7. t.events = s.events \o more
    BY <1>1, <2>4, <2>5, <2>6
  <2>8. ASSUME NEW q
        PROVE  Heard(h, q, t.events) = Heard(h, q, s.events)
    <3>1. Heard(h, q, more) = Tells(h, q)[e]
      BY <2>4, <2>6, HeardIs
    <3>2. Tells(h, q)[e] = <<>>
      BY <2>4 DEF Tells
    <3>3. Heard(h, q, t.events) = Heard(h, q, s.events) \o Heard(h, q, more)
      BY <1>1, <2>7, HeardIs
    <3>4. Heard(h, q, s.events) \in Seq(Sign)
      BY <1>1, HeardIs
    <3>5. Heard(h, q, s.events) \o <<>> = Heard(h, q, s.events)
      BY <3>4, ConcatEmptySeq
    <3> QED BY <3>1, <3>2, <3>3, <3>5
  <2>9. ASSUME NEW q, q # r
        PROVE  Spared(h, q, s, t)
    <3>1. ~ Leaves(more, q)
      BY <2>4, <2>6, <2>9 DEF Leaves
    <3>2. Leaves(t.events, q) => Leaves(s.events, q)
      BY <1>1, <2>7, <3>1, LeavesAppend
    <3>3. /\ q \in DOMAIN t.table <=> q \in DOMAIN s.table
          /\ q \in DOMAIN s.table => t.table[q] = s.table[q]
      BY <2>5, <2>9 DEF Drop
    <3> QED BY <2>8, <3>2, <3>3 DEF Spared
  <2> QED BY <1>3, <2>2, <2>5, <2>8, <2>9 DEF Parted, Works
<1> QED BY <1>2, <1>3

LEMMA PartedOn ==
    ASSUME NEW h, NEW received, NEW s, NEW t, NEW u, Parted(h, received, s, t), Parted(h, received, t, u)
    PROVE  Parted(h, received, s, u)
<1>1. \A q : ~ Left(received[q]) => Spared(h, q, s, u)
  BY SparedOn DEF Parted
<1> QED BY <1>1 DEF Parted

LEMMA DeparturesParts ==
    ASSUME NEW h, NEW received, NEW order \in Seq(Remotes(h)), NEW s, Works(h, s)
    PROVE  Parted(h, received, s, Departures(s, order, received))
<1>1. PICK N \in Nat : N = Len(order)
  OBVIOUS
<1>2. PICK run : DepartureRun(run, s, order, received)
  BY <1>1, DeparturesRun
<1>3. /\ run[0] = s /\ Departures(s, order, received) = run[N]
      /\ \A k \in 1 .. N : run[k] = OnLeft(run[k - 1], order[k], received[order[k]])
  BY <1>1, <1>2 DEF DepartureRun
<1> DEFINE G == {k \in 0 .. N : Parted(h, received, s, run[k])}
<1>4. 0 \in G
  <2>1. Parted(h, received, s, s)
    BY SparedNot DEF Parted
  <2> QED BY <1>1, <1>3, <2>1
<1>5. ASSUME NEW k \in 1 .. N, k - 1 \in G
      PROVE  k \in G
  <2>1. Parted(h, received, s, run[k - 1])
    BY <1>5
  <2>2. PICK r \in Remotes(h) : r = order[k]
    BY <1>1
  <2>3. run[k] = OnLeft(run[k - 1], r, received[r])
    BY <1>3, <2>2
  <2>4. Works(h, run[k - 1])
    BY <2>1 DEF Parted
  <2>5. Parted(h, received, run[k - 1], run[k])
    BY <2>3, <2>4, OnLeftParts
  <2>6. Parted(h, received, s, run[k])
    BY <2>1, <2>5, PartedOn
  <2> QED BY <2>6
<1> HIDE DEF G
<1>6. \A k \in 0 .. N : k \in G
  BY <1>1, <1>4, <1>5, StepsInduction
<1>7. N \in 0 .. N
  BY <1>1
<1>8. N \in G
  BY <1>6, <1>7
<1> QED BY <1>3, <1>8 DEF G

Greeted(w, k) == Opens(w) /\ k > 0

(* The kinds of the messages received say as much.                         *)
LEMMA KindsFirst ==
    ASSUME NEW T, NEW r, NEW w \in Seq(Message), NEW k \in 0 .. Len(w), Reads(T, r, w)
    PROVE  /\ Left(First(w, k)) <=> Farewell(First(w, k))
           /\ Farewell(First(w, k)) => k = Len(w) /\ Rest(w, k) = <<>>
           /\ Kinds(First(w, k)) \intersect Accepting # {} <=> Greeted(w, k)
           /\ "ConnectionRequestAccepted" \in Kinds(First(w, k)) <=> Greeted(w, k) /\ r = Server
<1>1. PICK v \in Seq(Message) : v = First(w, k)
  <2>1. First(w, k) \in Seq(Message)
    BY DEF First
  <2> QED BY <2>1
<1>2. Len(v) = k /\ k \in Nat /\ \A i \in 1 .. k : v[i] = w[i] /\ i \in 1 .. Len(w)
  BY <1>1 DEF First
<1>3. DOMAIN v = 1 .. k
  BY <1>2
<1>4. Left(v) <=> Farewell(v)
  <2>1. Left(v) <=> \E i \in 1 .. k : v[i].kind = "DisconnectionNotification"
    BY <1>3 DEF Left, Kinds
  <2>2. Farewell(v) <=> \E i \in 1 .. k : v[i].kind = "DisconnectionNotification"
    BY <1>2 DEF Farewell
  <2> QED BY <2>1, <2>2
<1>5. Farewell(v) => k = Len(w) /\ Rest(w, k) = <<>>
  <2> SUFFICES ASSUME Farewell(v) PROVE k = Len(w) /\ Rest(w, k) = <<>>
    OBVIOUS
  <2>1. PICK i \in 1 .. k : w[i].kind = "DisconnectionNotification" /\ i \in 1 .. Len(w)
    BY <1>2 DEF Farewell
  <2>2. i = Len(w)
    BY <2>1 DEF Reads
  <2>3. k = Len(w)
    BY <2>1, <2>2
  <2>4. Rest(w, k) = <<>>
    BY <2>3 DEF Rest
  <2> QED BY <2>3, <2>4
<1>6. \A i \in 1 .. k : w[i].kind \in Accepting => i = 1 /\ w[i].kind = Opener(r)
  BY <1>2 DEF Reads
<1>7. Greeted(w, k) => 1 \in 1 .. k /\ v[1] = w[1] /\ w[1].kind \in Accepting /\ w[1].kind = Opener(r)
  BY <1>2, <1>6 DEF Greeted, Opens
<1>8. Kinds(v) \intersect Accepting # {} <=> Greeted(w, k)
  <2>1. Kinds(v) \intersect Accepting # {} <=> \E i \in 1 .. k : w[i].kind \in Accepting
    BY <1>2, <1>3 DEF Kinds
  <2>2. ASSUME NEW i \in 1 .. k, w[i].kind \in Accepting PROVE Greeted(w, k)
    <3>1. i = 1 /\ Len(w) > 0
      BY <1>2, <1>6, <2>2
    <3> QED BY <2>2, <3>1 DEF Greeted, Opens
  <2> QED BY <1>7, <2>1, <2>2
<1>9. "ConnectionRequestAccepted" \in Kinds(v) <=> Greeted(w, k) /\ r = Server
  <2>1. "ConnectionRequestAccepted" \in Kinds(v) <=> \E i \in 1 .. k : w[i].kind = "ConnectionRequestAccepted"
    BY <1>2, <1>3 DEF Kinds
  <2>2. ASSUME NEW i \in 1 .. k, w[i].kind = "ConnectionRequestAccepted" PROVE Greeted(w, k) /\ r = Server
    <3>1. w[i].kind \in Accepting
      BY <2>2 DEF Accepting
    <3>2. i = 1 /\ w[i].kind = Opener(r) /\ Len(w) > 0
      BY <1>2, <1>6, <3>1
    <3>3. r = Server
      BY <2>2, <3>2 DEF Opener
    <3> QED BY <3>1, <3>2, <3>3 DEF Greeted, Opens
  <2>3. ASSUME Greeted(w, k), r = Server PROVE \E i \in 1 .. k : w[i].kind = "ConnectionRequestAccepted"
    BY <1>7, <2>3 DEF Opener
  <2> QED BY <2>1, <2>2, <2>3
<1> QED BY <1>1, <1>4, <1>5, <1>8, <1>9

(* What a tick of h does with k messages of r.                             *)
Drew(h, r, k) ==
    LET w == wire[<<r, h>>]
    IN  /\ wire'[<<r, h>>] = Rest(w, k)
        /\ Heard(h, r, events'[h]) = Spoken(First(w, k))
        /\ Leaves(events'[h], r) => Farewell(First(w, k))
        /\ Reads(table'[h], r, Rest(w, k))
        /\ Turned(r, w, k, table[h], table'[h])
        /\ peer'[<<h, r>>] = IF Farewell(First(w, k)) THEN "None"
                             ELSE IF Greeted(w, k) THEN "Connected" ELSE peer[<<h, r>>]
        /\ wire'[<<h, r>>] = IF Greeted(w, k) /\ r = Server
                               THEN Append(wire[<<h, r>>], Plain("NewIncomingConnection"))
                             ELSE wire[<<h, r>>]

\* And nothing else.
Elsewhere(h) ==
    /\ \A g \in Handler : g # h => table'[g] = table[g] /\ events'[g] = events[g]
    /\ \A l \in Link : l[1] # h => peer'[l] = peer[l]
    /\ \A l \in Link : l[1] # h /\ l[2] # h => wire'[l] = wire[l]
    /\ UNCHANGED <<running, sent, seen, clients, phase, budgets>>

LEMMA RemotesFinite ==
    ASSUME NEW h \in Handler
    PROVE  IsFiniteSet(Remotes(h))
BY ServerAssumption, FS_Singleton DEF Remotes

LEMMA TickDraws ==
    ASSUME Uncompressing, TypeInv, NEW h \in Handler, TickSome(h), mishap = "fine",
           \A r \in Remotes(h) : Reads(table[h], r, wire[<<r, h>>])
    PROVE  /\ mishap' = "fine" /\ h \in running /\ events[h] = <<>>
           /\ Elsewhere(h)
           /\ \A r \in Remotes(h) : \E k \in 0 .. Len(wire[<<r, h>>]) : Drew(h, r, k)
<1>1. h \in running /\ events[h] = <<>> /\ UNCHANGED <<running, sent, seen, clients, phase, budgets>>
  BY TickTakes
<1>2. PICK n, order, received, s : Ticks(h, n, order, received, s)
  BY TickTakes
<1>3. PICK W : W = [r \in Remotes(h) |-> wire[<<r, h>>]]
  OBVIOUS
<1>4. ASSUME NEW r \in Remotes(h)
      PROVE  /\ W[r] = wire[<<r, h>>] /\ W[r] \in Seq(Message)
             /\ n[r] \in 0 .. Len(W[r]) /\ received[r] = First(W[r], n[r])
             /\ Reads(table[h], r, W[r])
  <2>1. W[r] = wire[<<r, h>>] /\ W[r] \in Seq(Message)
    BY <1>3, RemotesLink DEF TypeInv
  <2>2. n[r] \in Nat /\ n[r] <= Len(wire[<<r, h>>]) /\ received[r] = SubSeq(wire[<<r, h>>], 1, n[r])
    BY <1>2 DEF Ticks
  <2>3. Len(W[r]) \in Nat
    BY <2>1
  <2>4. n[r] \in 0 .. Len(W[r])
    BY <2>1, <2>2, <2>3
  <2> QED BY <2>1, <2>2, <2>4 DEF First
<1>5. PICK s0 : s0 = Unticked(h)
  OBVIOUS
<1>6. s0.table = table[h] /\ s0.events = <<>> /\ s0.result = "fine"
  BY <1>5 DEF Unticked
<1>7. Works(h, s0)
  BY <1>5, <1>6, UntickedType DEF Works
<1>8. Due(h, s0, W, n, received)
  BY <1>4, <1>6 DEF Due
<1>9. order \in SetToSeqs(Remotes(h)) /\ IsFiniteSet(Remotes(h)) /\ order \in Seq(Remotes(h))
  BY <1>2, RemotesFinite, OrderCovers DEF Ticks
<1>10. PICK a : a = Arrivals(s0, order, received)
  OBVIOUS
<1>11. Works(h, a) /\ \A q \in Remotes(h) : Took(h, q, W[q], n[q], s0, a)
  BY <1>7, <1>8, <1>9, <1>10, ArrivalsTake
<1>12. s = Departures(a, order, received)
  BY <1>2, <1>5, <1>10 DEF Ticks, Ticked
<1>13. Parted(h, received, a, s)
  BY <1>9, <1>11, <1>12, DeparturesParts
<1>14. Works(h, s) /\ s.result = "fine"
  BY <1>13 DEF Parted, Works
<1>15. table \in Tables /\ DOMAIN events = Handler /\ DOMAIN table = Handler
  BY DEF TypeInv, Tables
<1>16. table'[h] = s.table /\ events'[h] = s.events /\ mishap' = "fine"
  BY <1>2, <1>14, <1>15 DEF Ticks
<1>17. Elsewhere(h)
  <2>1. \A g \in Handler : g # h => table'[g] = table[g] /\ events'[g] = events[g]
    BY <1>2, <1>15 DEF Ticks
  <2>2. \A l \in Link : l[1] # h => peer'[l] = peer[l]
    BY <1>2 DEF Ticks
  <2>3. \A l \in Link : l[1] # h /\ l[2] # h => wire'[l] = wire[l]
    BY <1>2 DEF Ticks
  <2> QED BY <1>1, <2>1, <2>2, <2>3 DEF Elsewhere
<1>18. ASSUME NEW r \in Remotes(h)
       PROVE  \E k \in 0 .. Len(wire[<<r, h>>]) : Drew(h, r, k)
  <2>1. PICK w \in Seq(Message) : w = wire[<<r, h>>]
    BY <1>4
  <2>2. PICK k \in 0 .. Len(w) : k = n[r]
    BY <1>4, <2>1
  <2>3. W[r] = w /\ received[r] = First(w, k) /\ Reads(table[h], r, w)
    BY <1>4, <2>1, <2>2
  <2>4. Took(h, r, w, k, s0, a)
    BY <1>11, <2>2, <2>3
  <2>5. /\ Left(First(w, k)) <=> Farewell(First(w, k))
        /\ Farewell(First(w, k)) => Rest(w, k) = <<>>
        /\ Kinds(First(w, k)) \intersect Accepting # {} <=> Greeted(w, k)
        /\ "ConnectionRequestAccepted" \in Kinds(First(w, k)) <=> Greeted(w, k) /\ r = Server
    BY <2>3, KindsFirst
  <2>6. <<r, h>> \in Link /\ <<h, r>> \in Link /\ h # r
    BY RemotesLink
  <2>7. wire'[<<r, h>>] = Rest(w, k)
    BY <1>2, <2>1, <2>2, <2>6 DEF Ticks, Rest
  <2>8. wire'[<<h, r>>] = IF Greeted(w, k) /\ r = Server
                            THEN Append(wire[<<h, r>>], Plain("NewIncomingConnection"))
                          ELSE wire[<<h, r>>]
    <3>1. wire'[<<h, r>>] = IF "ConnectionRequestAccepted" \in Kinds(received[r])
                            THEN Append(wire[<<h, r>>], Plain("NewIncomingConnection"))
                            ELSE wire[<<h, r>>]
      <4>1. <<h, r>>[1] = h /\ <<h, r>>[2] = r
        OBVIOUS
      <4> QED BY <1>2, <2>6, <4>1 DEF Ticks
    <3> QED BY <2>3, <2>5, <3>1
  <2>9. peer'[<<h, r>>] = IF Farewell(First(w, k)) THEN "None"
                          ELSE IF Greeted(w, k) THEN "Connected" ELSE peer[<<h, r>>]
    <3>1. peer'[<<h, r>>] = PeerAfter(peer[<<h, r>>], received[r])
      BY <1>2, <2>6 DEF Ticks
    <3> QED BY <2>3, <2>5, <3>1 DEF PeerAfter
  <2>10. Heard(h, r, s.events) = Spoken(First(w, k))
    <3>1. Heard(h, r, s.events) = Heard(h, r, a.events)
      BY <1>13 DEF Parted
    <3>2. Heard(h, r, a.events) = Heard(h, r, s0.events) \o Spoken(First(w, k))
      BY <2>4 DEF Took
    <3>3. Heard(h, r, s0.events) = <<>>
      BY <1>6, HeardIs
    <3>4. First(w, k) \in Seq(Message)
      BY DEF First
    <3>5. Spoken(First(w, k)) \in Seq(Sign)
      BY <3>4, SpokenIs
    <3>6. <<>> \o Spoken(First(w, k)) = Spoken(First(w, k))
      BY <3>5, ConcatEmptySeq
    <3> QED BY <3>1, <3>2, <3>3, <3>6
  <2>11. CASE Farewell(First(w, k))
    <3>1. Reads(s.table, r, Rest(w, k))
      BY <2>5, <2>11 DEF Reads
    <3>2. Turned(r, w, k, table[h], s.table)
      BY <2>11 DEF Turned
    <3> QED BY <1>16, <2>1, <2>7, <2>8, <2>9, <2>10, <2>11, <3>1, <3>2 DEF Drew
  <2>12. CASE ~ Farewell(First(w, k))
    <3>1. Spared(h, r, a, s)
      BY <1>13, <2>3, <2>5, <2>12 DEF Parted
    <3>2. Took(h, r, w, k, s0, s)
      BY <2>4, <3>1, TookAfter
    <3>3. Reads(s.table, r, Rest(w, k)) /\ Turned(r, w, k, table[h], s.table)
      BY <1>6, <3>2 DEF Took
    <3>4. ~ Leaves(s.events, r)
      <4>1. ~ Leaves(s0.events, r)
        BY <1>6 DEF Leaves
      <4> QED BY <3>2, <4>1 DEF Took
    <3> QED BY <1>16, <2>1, <2>7, <2>8, <2>9, <2>10, <3>3, <3>4 DEF Drew
  <2> QED BY <2>1, <2>11, <2>12
<1> QED BY <1>1, <1>16, <1>17, <1>18
=============================================================================
