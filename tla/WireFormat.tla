----------------------------- MODULE WireFormat -----------------------------
(***************************************************************************)
(* How a class puts its members on the wire and takes them off.            *)
(*                                                                         *)
(* The wire is a sequence of tokens [k, v]: the kind k says how many bytes *)
(* are read and how, v is what they mean.  Kinds that are the same bytes   *)
(* are one kind (a bool is a byte; a float, an int32 and a uint32 are four *)
(* bytes; a string and a byte array are a length and its bytes).  Values   *)
(* are integers: what a string or a float says is data, and data is only   *)
(* told apart.                                                             *)
(*                                                                         *)
(* A codec is [write, read]: the two member functions of a class, each as  *)
(* the sequence of its stream calls in program order.  An object is a      *)
(* record with one component per member; a vector is a sequence of         *)
(* records (a scalar element is the component "it" of its record) and an   *)
(* optional a vector of at most one.                                       *)
(***************************************************************************)
EXTENDS Integers, Sequences, FiniteSets, TLC

Codec(write, read) == [write |-> write, read |-> read]

Token(k, v) == [k |-> k, v |-> v]

(***************************************************************************)
(* Stream calls on one member.                                             *)
(***************************************************************************)
Field(k, f) == [op |-> "field", k |-> k, f |-> f]

Bool(f)      == [op |-> "bool", k |-> "byte", f |-> f]
Byte(f)      == Field("byte", f)
Short(f)     == Field("le16", f)
Int32(f)     == Field("le32", f)
Float(f)     == Field("le32", f)
BigInt(f)    == Field("be32", f)
Int64(f)     == Field("le64", f)
VarInt(f)    == Field("varint", f)
UVarInt(f)   == Field("uvarint", f)
VarInt64(f)  == Field("varint64", f)
UVarInt64(f) == Field("uvarint64", f)
String(f)    == Field("bytes", f)

\* A shared_ptr to an NBT tag, 0 when null.  Some writers skip a null tag and
\* some write an empty compound (1) for it; the readers always expect a tag.
Nbt(f)        == Field("nbt", f)
NbtIfSet(f)   == [op |-> "ifSet", k |-> "nbt", f |-> f]
NbtOrEmpty(f) == [op |-> "orEmpty", k |-> "nbt", f |-> f]
RootNbt(f)      == Field("rootnbt", f)
RootNbtIfSet(f) == [op |-> "ifSet", k |-> "rootnbt", f |-> f]

\* writeRawBytes writes no length; the value 0 is the empty buffer.  It is read
\* back by readRemainingBytes, or by taking all but the last n bytes, or by
\* taking all and moving the last byte to the member g.
Rest(f)           == [op |-> "rest", k |-> "raw", f |-> f]
RestBut(n, f)     == [op |-> "restBut", k |-> "raw", f |-> f, n |-> n]
RestAndLast(f, g) == [op |-> "restAndLast", k |-> "raw", f |-> f, g |-> g]

\* A value multiplied by n on the way out and divided on the way in; a literal
\* that the reader skips; a member assigned without the wire; a member that is
\* not on the wire.
Scaled(n, item) == [op |-> "scaled", k |-> item.k, f |-> item.f, n |-> n]
Literal(k, v)   == [op |-> "literal", k |-> k, v |-> v]
Skip(k)         == [op |-> "skip", k |-> k]
Assign(f, v)    == [op |-> "assign", f |-> f, v |-> v]
Hidden(f)       == [op |-> "hidden", f |-> f]

(***************************************************************************)
(* Members with structure of their own.                                    *)
(***************************************************************************)
Sub(f, codec) == [op |-> "sub", f |-> f, codec |-> codec]
Symmetric(items) == Codec(items, items)

\* The compound types of the streams.
Vec3(f) == Sub(f, Symmetric(<<Float("x"), Float("y"), Float("z")>>))
Vec2(f) == Sub(f, Symmetric(<<Float("x"), Float("y")>>))
BlockPos(f) == Sub(f, Symmetric(<<VarInt("x"), VarInt("y"), VarInt("z")>>))
NetworkBlockPos(f) == Sub(f, Symmetric(<<VarInt("x"), UVarInt("y"), VarInt("z")>>))
UUID(f) == Sub(f, Symmetric(<<Int64("most_significant"), Int64("least_significant")>>))
ActorUniqueID(f)  == VarInt64(f)
ActorRuntimeID(f) == UVarInt64(f)

\* Write a vector's size (of vectors f and g together), or read it and resize
\* f; a loop over the elements; a resize from elsewhere than the wire; a loop
\* as long as g over f, with v for what f lacks; a new vector instead of f.
CountAs(k, f)     == [op |-> "count", k |-> k, f |-> f]
Count(f)          == CountAs("uvarint", f)
CountBoth(k, f, g) == [op |-> "countBoth", k |-> k, f |-> f, g |-> g]
EachOf(f, codec)  == [op |-> "each", f |-> f, codec |-> codec]
Each(f, items)    == EachOf(f, Symmetric(items))
Fresh(f)          == [op |-> "fresh", f |-> f]
Resize(f, n)      == [op |-> "resize", f |-> f, n |-> n]
ResizeBy(f, g, h) == [op |-> "resizeBy", f |-> f, g |-> g, h |-> h]
ResizeLike(f, g)  == [op |-> "resizeLike", f |-> f, g |-> g]
PadTo(g, item, v) == [op |-> "padTo", k |-> item.k, f |-> item.f, g |-> g, v |-> v]

Optional(k, f, items) ==
    [op |-> "optional", k |-> k, f |-> f, codec |-> Symmetric(items)]

\* The calls of a helper function on the same stream.
Calls(items) == [op |-> "calls", then |-> items]

(***************************************************************************)
(* Branches on members already written, or already read.                   *)
(***************************************************************************)
If(c, items)       == [op |-> "if", c |-> c, then |-> items, else |-> <<>>]
IfElse(c, yes, no) == [op |-> "if", c |-> c, then |-> yes, else |-> no]
Is(f, S)      == [test |-> "in", f |-> f, s |-> S]
IsNot(f, S)   == [test |-> "notin", f |-> f, s |-> S]
Below(f, n)   == [test |-> "below", f |-> f, n |-> n]
HasBits(f, n) == [test |-> "bits", f |-> f, n |-> n]
Either(c, d)  == [test |-> "or", c |-> c, d |-> d]

BitsOf(v) == {p \in 0..9 : (v \div 2^p) % 2 = 1}

RECURSIVE Holds(_, _)
Holds(c, o) ==
    CASE c.test = "in"    -> o[c.f] \in c.s
      [] c.test = "notin" -> o[c.f] \notin c.s
      [] c.test = "below" -> o[c.f] < c.n
      [] c.test = "bits"  -> BitsOf(o[c.f]) \cap BitsOf(c.n) # {}
      [] c.test = "or"    -> Holds(c.c, o) \/ Holds(c.d, o)

(***************************************************************************)
(* Writing.  In an element of a vector the conditions may also look at the *)
(* members of the object the vector belongs to.                            *)
(***************************************************************************)
RECURSIVE Put(_, _)
PutEach(codec, es, o) ==
    LET P[n \in 0..Len(es)] ==
            IF n = 0 THEN <<>> ELSE P[n - 1] \o Put(codec.write, es[n] @@ o)
    IN  P[Len(es)]

PutOne(i, o) ==
    CASE i.op \in {"field", "bool"} -> <<Token(i.k, o[i.f])>>
      [] i.op \in {"rest", "ifSet"} -> IF o[i.f] = 0 THEN <<>> ELSE <<Token(i.k, o[i.f])>>
      [] i.op = "orEmpty"   -> <<Token(i.k, IF o[i.f] = 0 THEN 1 ELSE o[i.f])>>
      [] i.op = "scaled"    -> <<Token(i.k, o[i.f] * i.n)>>
      [] i.op = "literal"   -> <<Token(i.k, i.v)>>
      [] i.op \in {"hidden", "fresh", "resize", "resizeBy"} -> <<>>
      [] i.op = "calls"     -> Put(i.then, o)
      [] i.op = "sub"       -> Put(i.codec.write, o[i.f] @@ o)
      [] i.op = "count"     -> <<Token(i.k, Len(o[i.f]))>>
      [] i.op = "countBoth" -> <<Token(i.k, Len(o[i.f]) + Len(o[i.g]))>>
      [] i.op = "each"      -> PutEach(i.codec, o[i.f], o)
      [] i.op = "padTo"     -> [n \in DOMAIN o[i.g] |->
                                  Token(i.k, IF n <= Len(o[i.f]) THEN o[i.f][n].it ELSE i.v)]
      [] i.op = "optional"  -> <<Token(i.k, Len(o[i.f]))>> \o PutEach(i.codec, o[i.f], o)
      [] i.op = "if"        -> Put(IF Holds(i.c, o) THEN i.then ELSE i.else, o)

Put(items, o) ==
    IF items = <<>> THEN <<>> ELSE PutOne(Head(items), o) \o Put(Tail(items), o)

(***************************************************************************)
(* The object a default constructor makes.  A vector that was resized      *)
(* holds Unread elements until the loop over it reads them.                *)
(***************************************************************************)
Unread == [unread |-> TRUE]
IsUnread(e) == DOMAIN e = {"unread"}

RECURSIVE Default(_)
DefaultOne(i) ==
    CASE i.op \in {"literal", "skip"} -> <<>>
      [] i.op = "sub" -> i.f :> Default(i.codec.write \o i.codec.read)
      [] i.op \in {"count", "each", "fresh", "resize", "resizeBy", "resizeLike", "padTo", "optional"}
           -> i.f :> <<>>
      [] i.op = "calls" -> Default(i.then)
      [] i.op = "countBoth"   -> i.f :> <<>> @@ i.g :> <<>>
      [] i.op = "restAndLast" -> i.f :> 0 @@ i.g :> 0
      [] i.op = "if" -> Default(i.then) @@ Default(i.else)
      [] OTHER       -> i.f :> 0
Default(items) ==
    IF items = <<>> THEN <<>> ELSE DefaultOne(Head(items)) @@ Default(Tail(items))

New(codec) == Default(codec.write \o codec.read)

(***************************************************************************)
(* Reading.  s is the object o being filled, the enclosing members up, the *)
(* tokens left, and the stream's flag: once a read overflows every later   *)
(* one gives 0.  misfit is set when a call meets bytes of another kind,    *)
(* after which what is read says nothing.                                  *)
(***************************************************************************)
\* Mutant: a read beyond the end gives 0 and is not remembered.
PullLenient(k, s) ==
    IF ~s.ok \/ s.left = <<>> THEN [v |-> 0, s |-> s]
    ELSE IF Head(s.left).k # k
         THEN [v |-> 0, s |-> [s EXCEPT !.ok = FALSE, !.misfit = TRUE]]
         ELSE [v |-> Head(s.left).v, s |-> [s EXCEPT !.left = Tail(@)]]

Pull(k, s) ==
    IF ~s.ok \/ s.left = <<>> THEN [v |-> 0, s |-> [s EXCEPT !.ok = FALSE]]
    ELSE IF Head(s.left).k # k
         THEN [v |-> 0, s |-> [s EXCEPT !.ok = FALSE, !.misfit = TRUE]]
         ELSE [v |-> Head(s.left).v, s |-> [s EXCEPT !.left = Tail(@)]]

Resized(es, n) == [j \in 1..n |-> IF j <= Len(es) THEN es[j] ELSE Unread]

RECURSIVE Take(_, _)
TakeSub(codec, o, s) ==
    LET r == Take(codec.read, [s EXCEPT !.o = IF IsUnread(o) THEN New(codec) ELSE o,
                                        !.up = s.o @@ s.up])
    IN  [o |-> r.o, s |-> [r EXCEPT !.o = s.o, !.up = s.up]]

TakeEach(i, s) ==
    LET T[n \in 0..Len(s.o[i.f])] ==
            IF n = 0 THEN s
            ELSE LET t == TakeSub(i.codec, s.o[i.f][n], T[n - 1])
                 IN  [t.s EXCEPT !.o = [@ EXCEPT ![i.f] = [@ EXCEPT ![n] = t.o]]]
    IN  T[Len(s.o[i.f])]

Set(s, f, v) == [s EXCEPT !.o = [@ EXCEPT ![f] = v]]

\* readRemainingBytes, of all but the last n bytes; -1 stands for bytes that were
\* not written as raw bytes.
Whole(ts) == IF Len(ts) = 1 /\ ts[1].k = "raw" THEN ts[1].v ELSE -1

TakeRest(n, s) ==
    LET m == Len(s.left) - n
    IN  IF ~s.ok \/ m <= 0 THEN [v |-> 0, s |-> s]
        ELSE [v |-> Whole(SubSeq(s.left, 1, m)), s |-> [s EXCEPT !.left = SubSeq(@, m + 1, m + n)]]

\* All that is left, then its last byte taken off again.
TakeRestAndLast(i, s) ==
    LET n == Len(s.left)
        last == s.left[n]
        none == [s EXCEPT !.left = <<>>]
    IN  CASE ~s.ok \/ n = 0  -> Set(s, i.f, 0)
          [] last.k # "byte" -> Set(Set(none, i.f, -1), i.g, -1)
          [] n = 1           -> Set(Set(none, i.f, 0), i.g, last.v)
          [] OTHER           -> Set(Set(none, i.f, Whole(SubSeq(s.left, 1, n - 1))), i.g, last.v)

TakeOne(i, s) ==
    LET p == Pull(i.k, s)
    IN  CASE i.op \in {"field", "orEmpty", "ifSet"} -> Set(p.s, i.f, p.v)
          [] i.op = "bool"   -> Set(p.s, i.f, IF p.v = 0 THEN 0 ELSE 1)
          [] i.op = "scaled" -> Set(p.s, i.f, p.v \div i.n)
          [] i.op = "skip"   -> p.s
          [] i.op = "assign" -> Set(s, i.f, i.v)
          [] i.op = "rest"   -> LET r == TakeRest(0, s) IN Set(r.s, i.f, r.v)
          [] i.op = "restBut" -> IF Len(s.left) <= i.n THEN s
                                 ELSE LET r == TakeRest(i.n, s) IN Set(r.s, i.f, r.v)
          [] i.op = "restAndLast" -> TakeRestAndLast(i, s)
          [] i.op = "sub" ->
               LET t == TakeSub(i.codec, s.o[i.f], s) IN Set(t.s, i.f, t.o)
          [] i.op = "count"      -> Set(p.s, i.f, Resized(s.o[i.f], p.v))
          [] i.op = "fresh"      -> Set(s, i.f, <<>>)
          [] i.op = "calls"      -> Take(i.then, s)
          [] i.op = "resize"     -> Set(s, i.f, Resized(s.o[i.f], i.n))
          [] i.op = "resizeBy"   -> Set(s, i.f, Resized(s.o[i.f], s.o[i.g] * s.o[i.h]))
          [] i.op = "resizeLike" -> Set(s, i.f, Resized(s.o[i.f], Len(s.o[i.g])))
          [] i.op = "each"       -> TakeEach(i, s)
          [] i.op = "optional"   ->
               IF p.v = 0 THEN p.s
               ELSE TakeEach(i, Set(p.s, i.f, Resized(s.o[i.f], 1)))
          [] i.op = "if" ->
               Take(IF Holds(i.c, s.o @@ s.up) THEN i.then ELSE i.else, s)

Take(items, s) ==
    IF items = <<>> \/ s.misfit THEN s ELSE Take(Tail(items), TakeOne(Head(items), s))

\* write() of an object, and read() into an object.
Written(codec, o) == Put(codec.write, o)
ReadInto(codec, o, tokens) ==
    Take(codec.read, [o |-> o, up |-> <<>>, left |-> tokens, ok |-> TRUE, misfit |-> FALSE])

(***************************************************************************)
(* Objects to send.  A member that some condition looks at takes each      *)
(* value the conditions tell apart, a vector has up to two elements, other *)
(* members take values of their own so that no two are confused.  The      *)
(* number k picks the alternatives, as its digits in a mixed radix; null   *)
(* tells whether a tag that is left out when null was left null: the rest  *)
(* of such an object stays as constructed.                                 *)
(***************************************************************************)
RECURSIVE Tests(_)
FlatTest(c) == IF c.test = "or" THEN {c.c, c.d} ELSE {c}
TestsOne(i) ==
    CASE i.op = "if" -> FlatTest(i.c) \cup Tests(i.then) \cup Tests(i.else)
      [] i.op = "calls" -> Tests(i.then)
      [] i.op \in {"each", "optional"} -> Tests(i.codec.write)
      [] OTHER -> {}
Tests(items) == UNION {TestsOne(items[n]) : n \in DOMAIN items}

Masks(T, f) == {c.n : c \in {d \in T : d.test = "bits" /\ d.f = f}}
Named(T, f) ==
    UNION {IF c.f # f THEN {}
           ELSE CASE c.test \in {"in", "notin"} -> c.s
                  [] c.test = "below" -> {c.n}
                  [] c.test = "bits"  -> {c.n} \cup {c.n + m : m \in Masks(T, f) \ {c.n}}
           : c \in T}
Options(T, f) ==
    IF Named(T, f) = {} THEN {}
    ELSE Named(T, f) \cup {CHOOSE n \in 0..Cardinality(Named(T, f)) :
                              /\ n \notin Named(T, f)
                              /\ \A m \in 0..(n - 1) : m \in Named(T, f)}

RECURSIVE Fill(_, _)
Choose(s, n) == [d |-> s.k % n, s |-> [s EXCEPT !.k = @ \div n]]
Leaf(s, f) == [Set(s, f, 1 + (s.n % 250)) EXCEPT !.n = @ + 1]

FillSub(codec, s) ==
    LET r == Fill(codec.write, [s EXCEPT !.o = New(codec), !.up = s.o @@ s.up,
                                         !.tests = Tests(codec.write) \cup s.tests])
    IN  [o |-> r.o, s |-> [s EXCEPT !.n = r.n, !.k = r.k, !.null = r.null]]

FillEach(f, codec, len, s) ==
    LET F[n \in 0..len] ==
            IF n = 0 THEN Set(s, f, <<>>)
            ELSE LET t == FillSub(codec, F[n - 1]) IN Set(t.s, f, Append(t.s.o[f], t.o))
    IN  F[len]

FillOne(i, s) ==
    CASE i.op \in {"field", "hidden", "bool"} ->
           LET os == Options(s.tests, i.f)
               c  == Choose(s, IF os = {} THEN 1 ELSE Cardinality(os))
           IN  IF os # {}
               THEN Set(c.s, i.f, CHOOSE v \in os : Cardinality({w \in os : w < v}) = c.d)
               ELSE IF i.op = "bool" THEN [Set(s, i.f, (s.n + s.seed) % 2) EXCEPT !.n = @ + 1]
               ELSE Leaf(s, i.f)
      [] i.op \in {"rest", "orEmpty"} ->
           LET c == Choose(s, 2) IN IF c.d = 1 THEN c.s ELSE Leaf(c.s, i.f)
      [] i.op = "ifSet" ->
           LET c == Choose(s, 3)
           IN  IF c.d = 2 THEN [c.s EXCEPT !.null = TRUE] ELSE Leaf(c.s, i.f)
      [] i.op = "scaled" -> Leaf(s, i.f)
      [] i.op \in {"literal", "fresh"} -> s
      [] i.op = "calls" -> Fill(i.then, s)
      [] i.op = "sub" -> LET t == FillSub(i.codec, s) IN Set(t.s, i.f, t.o)
      [] i.op = "count" ->
           LET c == Choose(s, 3) IN Set(c.s, i.f, Resized(<<>>, c.d))
      [] i.op = "countBoth" ->
           LET c == Choose(s, 3)
           IN  Set(Set(c.s, i.f, Resized(<<>>, c.d)), i.g, Resized(<<>>, 1))
      [] i.op = "each" -> FillEach(i.f, i.codec, Len(s.o[i.f]), s)
      [] i.op = "padTo" ->
           LET c == Choose(s, 2)
           IN  IF c.d = 0 THEN c.s ELSE Set(c.s, i.f, [n \in DOMAIN s.o[i.g] |-> [it |-> 0]])
      [] i.op = "optional" ->
           LET c == Choose(s, 2) IN FillEach(i.f, i.codec, 1 - c.d, c.s)
      [] i.op = "if" -> Fill(IF Holds(i.c, s.o @@ s.up) THEN i.then ELSE i.else, s)
      \* lengths the wire does not carry
      [] i.op = "resize"   -> Set(s, i.f, Resized(<<>>, i.n))
      [] i.op = "resizeBy" ->
           LET c == Choose(s, 2)
           IN  Set(Set(Set(c.s, i.g, 1), i.h, 1 + c.d), i.f, Resized(<<>>, 1 + c.d))

Fill(items, s) ==
    IF items = <<>> \/ s.null THEN s ELSE Fill(Tail(items), FillOne(Head(items), s))

Sample(codec, k) ==
    Fill(codec.write, [o |-> New(codec), up |-> <<>>, n |-> 1, k |-> k, seed |-> k,
                       null |-> FALSE, tests |-> Tests(codec.write)])
=============================================================================
