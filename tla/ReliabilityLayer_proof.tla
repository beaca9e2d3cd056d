---------------------- MODULE ReliabilityLayer_proof -----------------------
EXTENDS ReliabilityLayer, FiniteSetTheorems, WellFoundedInduction, TLAPS

(***************************************************************************)
(* The drain loop of processOrdered stops: a finite set of indices has a   *)
(* first gap from any index on, and everything before the gap is in it.    *)
(***************************************************************************)
LEMMA FirstGapIsGap ==
    ASSUME NEW D, D \subseteq Nat, IsFiniteSet(D), NEW e \in Nat
    PROVE  /\ FirstGap(D, e) \in Nat
           /\ FirstGap(D, e) >= e
           /\ FirstGap(D, e) \notin D
           /\ \A k \in e .. (FirstGap(D, e) - 1) : k \in D
<1> DEFINE T == {n \in Nat : n >= e /\ n \notin D}
<1>1. T # {}
  <2> DEFINE I == e .. (e + Cardinality(D))
  <2>1. Cardinality(D) \in Nat
    BY FS_CardinalityType
  <2>2. Cardinality(I) = Cardinality(D) + 1
    BY <2>1, FS_Interval
  <2>3. ~ (I \subseteq D)
    <3> HIDE DEF I
    <3> QED BY <2>1, <2>2, FS_Subset
  <2>4. PICK n \in I : n \notin D
    BY <2>3
  <2>5. n \in T
    BY <2>1, <2>4
  <2> QED BY <2>5
<1>2. PICK n \in T : \A y \in T : ~ (<<y, n>> \in OpToRel(<, Nat))
  <2>1. T \subseteq Nat
    OBVIOUS
  <2> HIDE DEF T
  <2> QED BY <1>1, <2>1, WFMin, NatLessThanWellFounded
<1>3. \A y \in T : n <= y
  <2> SUFFICES ASSUME NEW y \in T, ~ (n <= y) PROVE FALSE
    OBVIOUS
  <2>1. y \in Nat /\ n \in Nat /\ y < n
    OBVIOUS
  <2>2. <<y, n>> \in OpToRel(<, Nat)
    BY <2>1 DEF OpToRel
  <2> QED BY <1>2, <2>2
<1>4. \A k \in e .. (n - 1) : k \in D
  BY <1>3
<1>5. n \in {e} \union {k + 1 : k \in D}
  <2>1. CASE n = e
    BY <2>1
  <2>2. CASE n # e
    <3>1. n - 1 \in D
      BY <2>2, <1>4
    <3> QED BY <3>1
  <2> QED BY <2>1, <2>2
<1>6. \E x \in {e} \union {k + 1 : k \in D} :
        /\ x \notin D
        /\ x >= e
        /\ \A k \in e .. (x - 1) : k \in D
  BY <1>4, <1>5
<1>7. FirstGap(D, e) \in {e} \union {k + 1 : k \in D}
      /\ FirstGap(D, e) \notin D
      /\ FirstGap(D, e) >= e
      /\ \A k \in e .. (FirstGap(D, e) - 1) : k \in D
  BY <1>6 DEF FirstGap
<1>8. FirstGap(D, e) \in Nat
  <2>1. {e} \union {k + 1 : k \in D} \subseteq Nat
    OBVIOUS
  <2> QED BY <1>7, <2>1
<1> QED BY <1>7, <1>8

(***************************************************************************)
(* Renumbering is injective and leaves no hole: the datagrams of T get the *)
(* numbers next .. next + Cardinality(T) - 1, and none of them is lost.    *)
(***************************************************************************)
LEMMA RankBelow ==
    ASSUME NEW T, T \subseteq Nat, IsFiniteSet(T), NEW s \in T
    PROVE  Rank(s, T) \in 0 .. (Cardinality(T) - 1)
<1> DEFINE A == {t \in T : t < s}
<1>1. A \subseteq T /\ s \notin A
  <2>1. s \in Nat
    OBVIOUS
  <2> QED BY <2>1
<1>2. /\ IsFiniteSet(A)
      /\ Cardinality(A) <= Cardinality(T)
      /\ A # T => Cardinality(A) # Cardinality(T)
  <2> HIDE DEF A
  <2> QED BY <1>1, FS_Subset
<1>3. Cardinality(T) \in Nat /\ Cardinality(A) \in Nat
  <2> HIDE DEF A
  <2> QED BY <1>2, FS_CardinalityType
<1> QED BY <1>1, <1>2, <1>3 DEF Rank

LEMMA RankIncreases ==
    ASSUME NEW T, T \subseteq Nat, IsFiniteSet(T),
           NEW s \in T, NEW t \in T, s < t
    PROVE  Rank(s, T) < Rank(t, T)
<1> DEFINE A == {x \in T : x < s}
           B == {x \in T : x < t}
<1>1. A \subseteq B /\ s \in B /\ s \notin A /\ B \subseteq T
  <2>1. s \in Nat /\ t \in Nat
    OBVIOUS
  <2>2. \A x \in A : x \in B
    BY <2>1
  <2>3. ~ (s < s)
    BY <2>1
  <2> QED BY <2>2, <2>3
<1>2. IsFiniteSet(B) /\ IsFiniteSet(A)
  BY <1>1, FS_Subset
<1>3. Cardinality(A) <= Cardinality(B) /\ (A # B => Cardinality(A) # Cardinality(B))
  <2> HIDE DEF A, B
  <2> QED BY <1>1, <1>2, FS_Subset
<1>4. Cardinality(A) \in Nat /\ Cardinality(B) \in Nat
  <2> HIDE DEF A, B
  <2> QED BY <1>2, FS_CardinalityType
<1> QED BY <1>1, <1>3, <1>4 DEF Rank

LEMMA RenumberedInjective ==
    ASSUME NEW T, T \subseteq Nat, IsFiniteSet(T), NEW next \in Nat
    PROVE  \A s, t \in T : next + Rank(s, T) = next + Rank(t, T) => s = t
<1>1. \A s \in T : Rank(s, T) \in 0 .. (Cardinality(T) - 1)
  BY RankBelow
<1> SUFFICES ASSUME NEW s \in T, NEW t \in T, s # t
             PROVE  next + Rank(s, T) # next + Rank(t, T)
  OBVIOUS
<1>2. s < t \/ t < s
  OBVIOUS
<1>3. Rank(s, T) < Rank(t, T) \/ Rank(t, T) < Rank(s, T)
  BY <1>2, RankIncreases
<1> QED BY <1>1, <1>3

LEMMA RenumberedKeepsAll ==
    ASSUME NEW f, NEW T, T \subseteq Nat, IsFiniteSet(T), NEW next \in Nat
    PROVE  \A s \in T :
              /\ next + Rank(s, T) \in DOMAIN Renumbered(f, T, next)
              /\ Renumbered(f, T, next)[next + Rank(s, T)] = f[s]
<1>1. \A s, t \in T : next + Rank(s, T) = next + Rank(t, T) => s = t
  BY RenumberedInjective
<1>2. \A s \in T : (CHOOSE t \in T : next + Rank(t, T) = next + Rank(s, T)) = s
  BY <1>1
<1>3. DOMAIN Renumbered(f, T, next) = {next + Rank(s, T) : s \in T}
  BY DEF Renumbered
<1>4. \A s \in T : Renumbered(f, T, next)[next + Rank(s, T)] = f[s]
  BY <1>2 DEF Renumbered
<1> QED BY <1>3, <1>4

LEMMA RenumberedAddsNone ==
    ASSUME NEW f, NEW T, T \subseteq Nat, IsFiniteSet(T), NEW next \in Nat,
           NEW n \in DOMAIN Renumbered(f, T, next)
    PROVE  \E s \in T : Renumbered(f, T, next)[n] = f[s]
<1>1. PICK s \in T : n = next + Rank(s, T)
  BY DEF Renumbered
<1> QED BY <1>1, RenumberedKeepsAll

LEMMA RenumberedDomain ==
    ASSUME NEW f, NEW T, T \subseteq Nat, IsFiniteSet(T), NEW next \in Nat
    PROVE  /\ Cardinality(T) \in Nat
           /\ DOMAIN Renumbered(f, T, next) =
                next .. (next + Cardinality(T) - 1)
<1> DEFINE I == next .. (next + Cardinality(T) - 1)
           number == [s \in T |-> next + Rank(s, T)]
<1>1. \A s \in T : Rank(s, T) \in 0 .. (Cardinality(T) - 1)
  BY RankBelow
<1>2. Cardinality(T) \in Nat
  BY FS_CardinalityType
<1>3. \A s, t \in T : next + Rank(s, T) = next + Rank(t, T) => s = t
  BY RenumberedInjective
<1>4. \A s \in T : next + Rank(s, T) \in I
  <2>1. SUFFICES ASSUME NEW s \in T PROVE next + Rank(s, T) \in I
    OBVIOUS
  <2>2. Rank(s, T) \in 0 .. (Cardinality(T) - 1)
    BY <1>1
  <2> QED BY <1>2, <2>2
<1>5. number \in Injection(T, I)
  <2> HIDE DEF I
  <2> QED BY <1>3, <1>4 DEF Injection, IsInjective
<1>6. IsFiniteSet(I) /\ Cardinality(I) = Cardinality(T)
  <2> DEFINE C == Cardinality(T)
             b == next + C - 1
  <2>1. next \in Int /\ b \in Int /\ b - next + 1 = C
    BY <1>2
  <2>2. C = IF next > b THEN 0 ELSE b - next + 1
    BY <1>2
  <2> HIDE DEF b, C
  <2>3. IsFiniteSet(next .. b)
        /\ Cardinality(next .. b) = IF next > b THEN 0 ELSE b - next + 1
    BY <2>1, FS_Interval
  <2>4. IsFiniteSet(next .. b) /\ Cardinality(next .. b) = C
    BY <2>2, <2>3
  <2> QED BY <2>4 DEF b, C
<1>7. number \in Surjection(T, I)
  <2> HIDE DEF I, number
  <2> QED BY <1>5, <1>6, FS_Injection
<1>8. I = {next + Rank(s, T) : s \in T}
  <2> HIDE DEF I
  <2> QED BY <1>4, <1>7 DEF Surjection
<1> QED BY <1>2, <1>8 DEF Renumbered

-----------------------------------------------------------------------------
(***************************************************************************)
(* Ordered delivery on one channel.                                        *)
(***************************************************************************)
ChannelState(state) ==
    /\ DOMAIN state = {"expected_index", "buffered"}
    /\ state.expected_index \in Nat
    /\ DOMAIN state.buffered \subseteq Nat
    /\ IsFiniteSet(DOMAIN state.buffered)

LEMMA ProcessOrderedType ==
    ASSUME NEW state, ChannelState(state), NEW index \in Nat, NEW data
    PROVE  ChannelState(ProcessOrdered(state, index, data).state)
<1> DEFINE held == Put(state.buffered, index, data)
           next == FirstGap(DOMAIN held, index)
<1>1. DOMAIN held = DOMAIN state.buffered \union {index}
  BY DEF Put
<1>2. DOMAIN held \subseteq Nat /\ IsFiniteSet(DOMAIN held)
  BY <1>1, FS_AddElement DEF ChannelState
<1>3. next \in Nat
  <2> HIDE DEF held
  <2> QED BY <1>2, FirstGapIsGap
<1>4. CASE index = state.expected_index
  <2> DEFINE rest == Remove(held, index .. (next - 1))
  <2>1. ProcessOrdered(state, index, data).state =
          [expected_index |-> next, buffered |-> rest]
    BY <1>4 DEF ProcessOrdered
  <2>2. DOMAIN rest \subseteq DOMAIN held
    BY DEF Remove, Restrict
  <2>3. IsFiniteSet(DOMAIN rest)
    <3> HIDE DEF held, rest
    <3> QED BY <1>2, <2>2, FS_Subset
  <2> HIDE DEF held, rest, next
  <2> QED BY <1>2, <1>3, <2>1, <2>2, <2>3 DEF ChannelState
<1>5. CASE index # state.expected_index /\ index > state.expected_index
  <2>1. ProcessOrdered(state, index, data).state = [state EXCEPT !.buffered = held]
    BY <1>5 DEF ProcessOrdered
  <2> HIDE DEF held
  <2> QED BY <1>2, <2>1 DEF ChannelState
<1>6. CASE index # state.expected_index /\ ~ (index > state.expected_index)
  <2>1. ProcessOrdered(state, index, data).state = state
    BY <1>6 DEF ProcessOrdered
  <2> QED BY <2>1
<1> QED BY <1>4, <1>5, <1>6


(* The state of a channel on which the messages B[0] .. B[L - 1] were sent: *)
(* what waits is ahead of its turn and is what was sent.                   *)
Consistent(state, B, L) ==
    /\ ChannelState(state)
    /\ state.expected_index <= L
    /\ \A k \in DOMAIN state.buffered :
          /\ state.expected_index < k /\ k < L
          /\ state.buffered[k] = B[k]

(***************************************************************************)
(* processOrdered on a message that was sent hands up the run of messages  *)
(* that became due, in order, and forgets none.                            *)
(***************************************************************************)
LEMMA ProcessOrderedDelivers ==
    ASSUME NEW L \in Nat, NEW B, NEW state, Consistent(state, B, L),
           NEW index \in 0 .. (L - 1)
    PROVE  LET o == ProcessOrdered(state, index, B[index])
               e == state.expected_index
           IN  /\ Consistent(o.state, B, L)
               /\ o.state.expected_index >= e
               /\ o.ready = [i \in 1 .. (o.state.expected_index - e) |->
                               B[e + i - 1]]
               /\ \A k \in Nat :
                     k < e \/ k \in DOMAIN state.buffered \/ k = index
                     => \/ k < o.state.expected_index
                        \/ k \in DOMAIN o.state.buffered
<1> DEFINE e == state.expected_index
           held == Put(state.buffered, index, B[index])
           next == FirstGap(DOMAIN held, index)
           o == ProcessOrdered(state, index, B[index])
<1>1. /\ e \in Nat /\ e <= L /\ index \in Nat /\ index < L
      /\ DOMAIN state.buffered \subseteq Nat
      /\ \A k \in DOMAIN state.buffered :
            e < k /\ k < L /\ state.buffered[k] = B[k]
  BY DEF Consistent, ChannelState
<1>2. ChannelState(o.state)
  BY <1>1, ProcessOrderedType DEF Consistent
<1>3. /\ DOMAIN held = DOMAIN state.buffered \union {index}
      /\ \A k \in DOMAIN held : held[k] = B[k] /\ k < L /\ k \in Nat
  BY <1>1 DEF Put
<1>4. IsFiniteSet(DOMAIN held)
  BY <1>3, FS_AddElement DEF Consistent, ChannelState
<1>5. /\ next \in Nat /\ next >= index /\ next \notin DOMAIN held
      /\ \A k \in index .. (next - 1) : k \in DOMAIN held
  <2>1. DOMAIN held \subseteq Nat
    BY <1>3
  <2> HIDE DEF held
  <2> QED BY <1>1, <1>4, <2>1, FirstGapIsGap
<1>6. CASE index = e
  <2> DEFINE rest == Remove(held, index .. (next - 1))
  <2>1. /\ o.state.expected_index = next
        /\ o.state.buffered = rest
        /\ o.ready = [i \in 1 .. (next - index) |-> held[index + i - 1]]
    BY <1>6 DEF ProcessOrdered
  <2> HIDE DEF held, next, o
  <2>2. /\ DOMAIN rest = DOMAIN held \ (index .. (next - 1))
        /\ \A k \in DOMAIN rest : rest[k] = held[k]
    BY DEF Remove, Restrict
  <2> HIDE DEF rest
  <2>3. next <= L
    <3>1. CASE next = index
      BY <1>1, <3>1
    <3>2. CASE next # index
      <4>1. next - 1 \in index .. (next - 1)
        BY <1>1, <1>5, <3>2
      <4> QED BY <1>3, <1>5, <4>1
    <3> QED BY <3>1, <3>2
  <2>4. ASSUME NEW k \in DOMAIN rest PROVE next < k /\ k < L /\ rest[k] = B[k]
    <3>1. k \in Nat /\ k # next /\ ~ (k \in index .. (next - 1)) /\ k >= index
      BY <1>1, <1>3, <1>5, <1>6, <2>2
    <3> QED BY <1>1, <1>3, <1>5, <2>2, <3>1
  <2>5. ASSUME NEW i \in 1 .. (next - index)
        PROVE  held[index + i - 1] = B[index + i - 1]
    <3>1. index + i - 1 \in index .. (next - 1)
      BY <1>1, <1>5
    <3> QED BY <1>3, <1>5, <3>1
  <2>6. ASSUME NEW k \in Nat, k < e \/ k \in DOMAIN state.buffered \/ k = index
        PROVE  k < next \/ k \in DOMAIN rest
    BY <1>1, <1>3, <1>5, <1>6, <2>2, <2>6
  <2> QED BY <1>2, <1>5, <1>6, <2>1, <2>3, <2>4, <2>5, <2>6 DEF Consistent, o
<1>7. CASE index > e
  <2>1. /\ o.state = [state EXCEPT !.buffered = held]
        /\ o.ready = <<>>
    BY <1>1, <1>7 DEF ProcessOrdered
  <2>2. o.state.expected_index = e /\ o.state.buffered = held
    BY <2>1 DEF Consistent, ChannelState
  <2>3. o.ready = [i \in 1 .. (o.state.expected_index - e) |-> B[e + i - 1]]
    BY <1>1, <2>1, <2>2
  <2> HIDE DEF held, o
  <2>4. \A k \in DOMAIN held : e < k /\ k < L /\ held[k] = B[k]
    BY <1>1, <1>3, <1>7
  <2> QED BY <1>1, <1>2, <1>3, <2>2, <2>3, <2>4 DEF Consistent, o
<1>8. CASE index < e
  <2>1. o.state = state /\ o.ready = <<>>
    BY <1>1, <1>8 DEF ProcessOrdered
  <2>2. o.ready = [i \in 1 .. (o.state.expected_index - e) |-> B[e + i - 1]]
    BY <1>1, <2>1
  <2> HIDE DEF o
  <2> QED BY <1>1, <1>8, <2>1, <2>2 DEF o, Consistent
<1>9. index = e \/ index > e \/ index < e
  BY <1>1
<1> QED BY <1>6, <1>7, <1>8, <1>9

(* What was handed up, followed by the run that became due. *)
LEMMA DeliveredGrows ==
    ASSUME NEW a \in Nat, NEW b \in Nat, a <= b,
           NEW S, NEW g, \A n \in 1 .. b : g[n] \in S
    PROVE  [n \in 1 .. a |-> g[n]] \o [i \in 1 .. (b - a) |-> g[a + i]]
             = [n \in 1 .. b |-> g[n]]
<1> DEFINE s == [n \in 1 .. a |-> g[n]]
           t == [i \in 1 .. (b - a) |-> g[a + i]]
           u == [n \in 1 .. b |-> g[n]]
<1>1. s \in Seq(S) /\ Len(s) = a
  OBVIOUS
<1>2. t \in Seq(S) /\ Len(t) = b - a
  <2>1. \A i \in 1 .. (b - a) : a + i \in 1 .. b
    OBVIOUS
  <2> QED BY <2>1
<1>3. u \in Seq(S) /\ Len(u) = b
  OBVIOUS
<1>4. s \o t \in Seq(S) /\ Len(s \o t) = b
  <2> HIDE DEF s, t
  <2> QED BY <1>1, <1>2
<1>5. ASSUME NEW n \in 1 .. b PROVE (s \o t)[n] = u[n]
  <2>1. CASE n <= a
    <3>1. (s \o t)[n] = s[n]
      <4> HIDE DEF s, t
      <4> QED BY <1>1, <1>2, <2>1
    <3> QED BY <2>1, <3>1
  <2>2. CASE n > a
    <3>1. (s \o t)[n] = t[n - a]
      <4> HIDE DEF s, t
      <4> QED BY <1>1, <1>2, <2>2
    <3>2. n - a \in 1 .. (b - a) /\ a + (n - a) = n
      BY <2>2
    <3> QED BY <3>1, <3>2
  <2> QED BY <2>1, <2>2
<1>6. s \o t = u
  <2> HIDE DEF s, t, u
  <2> QED BY <1>3, <1>4, <1>5
<1> QED BY <1>6

-----------------------------------------------------------------------------
(***************************************************************************)
(* Fragment assembly.  If what waits under the frame's split_id are        *)
(* fragments of the same message, whose chunks are C[0] .. C[n - 1], then  *)
(* the frame either completes exactly that message or joins what waits.    *)
(***************************************************************************)
FragmentsFrom(fragments, C, n) ==
    /\ DOMAIN fragments \subseteq 0 .. (n - 1)
    /\ \A i \in DOMAIN fragments : fragments[i] = C[i]

Assembles(p, f, C, n) ==
    LET added == AddFragment(p, f)
        entry == PendingSplit(p, f)
    IN  /\ FragmentsFrom(entry.fragments, C, n)
        /\ f.split_index \in DOMAIN entry.fragments
        /\ DOMAIN FragmentsOf(p, f.split_id) \subseteq DOMAIN entry.fragments
        /\ \/ /\ added.pending = Remove(p, {f.split_id})
              /\ added.assembled = {[i \in 0 .. (n - 1) |-> C[i]]}
           \/ /\ added.pending = Put(p, f.split_id, entry)
              /\ added.assembled = {}

LEMMA AddFragmentAssembles ==
    ASSUME NEW p, NEW f, NEW n \in Nat, NEW C,
           f.is_split, f.split_count = n, f.split_index \in 0 .. (n - 1),
           f.body = C[f.split_index],
           FragmentsFrom(FragmentsOf(p, f.split_id), C, n)
    PROVE  Assembles(p, f, C, n)
<1> DEFINE old == FragmentsOf(p, f.split_id)
           entry == PendingSplit(p, f)
           D == DOMAIN entry.fragments
<1>1. /\ entry.total_count = n
      /\ entry.fragments = Put(old, f.split_index, f.body)
  BY DEF PendingSplit
<1>2. /\ D = DOMAIN old \union {f.split_index}
      /\ FragmentsFrom(entry.fragments, C, n)
  <2> HIDE DEF entry, old
  <2> QED BY <1>1 DEF Put, FragmentsFrom, old
<1>3. CASE IsComplete(entry)
  <2>1. /\ AddFragment(p, f).pending = Remove(p, {f.split_id})
        /\ AddFragment(p, f).assembled = {Assemble(entry)}
    BY <1>3 DEF AddFragment
  <2>2. D = 0 .. (n - 1)
    <3>1. Cardinality(D) = n
      BY <1>1, <1>3 DEF IsComplete
    <3>2. IsFiniteSet(0 .. (n - 1)) /\ Cardinality(0 .. (n - 1)) = n
      <4>1. 0 \in Int /\ n - 1 \in Int /\ (n - 1) - 0 + 1 = n
        OBVIOUS
      <4>2. n = IF 0 > n - 1 THEN 0 ELSE n
        OBVIOUS
      <4> QED BY <4>1, <4>2, FS_Interval
    <3>3. D \subseteq 0 .. (n - 1)
      BY <1>2 DEF FragmentsFrom
    <3> HIDE DEF D
    <3> QED BY <3>1, <3>2, <3>3, FS_Subset
  <2>3. Assemble(entry) = [i \in 0 .. (n - 1) |-> C[i]]
    <3>1. {i \in D : i < entry.total_count} = 0 .. (n - 1)
      BY <1>1, <2>2
    <3>2. \A i \in 0 .. (n - 1) : entry.fragments[i] = C[i]
      BY <1>2, <2>2 DEF FragmentsFrom
    <3> HIDE DEF entry
    <3> QED BY <3>1, <3>2 DEF Assemble, Restrict
  <2> QED BY <1>2, <2>1, <2>3 DEF Assembles
<1>4. CASE ~ IsComplete(entry)
  <2>1. /\ AddFragment(p, f).pending = Put(p, f.split_id, entry)
        /\ AddFragment(p, f).assembled = {}
    BY <1>4 DEF AddFragment
  <2> QED BY <1>2, <2>1 DEF Assembles
<1> QED BY <1>3, <1>4

(***************************************************************************)
(* An ACK names exactly the numbers it was built from: the ranges of       *)
(* buildAck, expanded again by getSequenceNumbers, lose and invent none.   *)
(***************************************************************************)
THEOREM AckNamesWhatWasReceived ==
    ASSUME NEW S, S \subseteq Nat, IsFiniteSet(S)
    PROVE  SequenceNumbers(BuildAck(S)) = S
<1>1. SequenceNumbers(BuildAck(S)) \subseteq S
  BY DEF SequenceNumbers, BuildAck
<1>2. ASSUME NEW s \in S PROVE s \in SequenceNumbers(BuildAck(S))
  <2> DEFINE T == {n \in Nat : n <= s /\ n .. s \subseteq S}
             b == FirstGap(S, s) - 1
  <2>1. s \in Nat
    OBVIOUS
  <2>2. PICK a \in T : \A y \in T : ~ (<<y, a>> \in OpToRel(<, Nat))
    <3>1. T \subseteq Nat
      OBVIOUS
    <3>2. s \in T
      BY <2>1
    <3> HIDE DEF T
    <3> QED BY <3>1, <3>2, WFMin, NatLessThanWellFounded
  <2>3. a \in Nat /\ a <= s /\ a .. s \subseteq S
    OBVIOUS
  <2>4. a - 1 \notin S
    <3> SUFFICES ASSUME a - 1 \in S PROVE FALSE
      OBVIOUS
    <3>1. a - 1 \in Nat /\ a - 1 < a
      BY <2>3
    <3>2. (a - 1) .. s \subseteq S
      BY <2>1, <2>3, <3>1
    <3>3. a - 1 \in T
      BY <2>1, <2>3, <3>1, <3>2
    <3>4. <<a - 1, a>> \in OpToRel(<, Nat)
      BY <2>3, <3>1 DEF OpToRel
    <3> QED BY <2>2, <3>3, <3>4
  <2>5. /\ FirstGap(S, s) \in Nat
        /\ FirstGap(S, s) >= s
        /\ FirstGap(S, s) \notin S
        /\ \A k \in s .. (FirstGap(S, s) - 1) : k \in S
    BY <2>1, FirstGapIsGap
  <2>6. FirstGap(S, s) # s
    BY <2>5
  <2>7. b \in Nat /\ s <= b /\ b + 1 \notin S /\ s .. b \subseteq S
    BY <2>1, <2>5, <2>6
  <2> HIDE DEF T, b
  <2>8. a .. b \subseteq S /\ a <= b /\ s \in a .. b
    BY <2>1, <2>3, <2>7
  <2>9. a \in S /\ b \in S
    BY <2>3, <2>7, <2>8
  <2>10. <<a, b>> \in BuildAck(S)
    BY <2>4, <2>7, <2>8, <2>9 DEF BuildAck
  <2> QED BY <2>8, <2>10 DEF SequenceNumbers
<1> QED BY <1>1, <1>2
=============================================================================
