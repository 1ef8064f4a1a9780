--------------------------- MODULE IOServerProofs ---------------------------
(***************************************************************************)
(* The I/O server for any number of clients, servers, buffers, queue       *)
(* sizes, rounds and messages: what its threads pass on is what the        *)
(* clients sent, and it keeps the promise of IOService.                    *)
(*                                                                         *)
(* The idea of the proof: what client c says to server s is a conversation *)
(* (open, fields, synchronization, close).  The main thread of s has       *)
(* followed it to some point, the client is at its end, and the buffers    *)
(* between them hold the rest of it, in order.                             *)
(***************************************************************************)
EXTENDS IOServer, TLAPS, FiniteSetTheorems, SequenceTheorems, WellFoundedInduction

Messages == [src : Clients, tag : Tags, n : Nat]

\* How far a conversation is: what was said last, and how many fields
Points == [ph : {"new", "open", "synced", "closed"}, n : Nat]

\* Message m takes the conversation of c from x to y.
Says(c, m, x, y) ==
    \/ m.src # c /\ y = x
    \/ /\ m.src = c
       /\ \/ m.tag = "Open" /\ x.ph = "new" /\ y = [ph |-> "open", n |-> x.n]
          \/ m.tag = "Field" /\ x.ph = "open" /\ m.n = x.n + 1 /\ y = [ph |-> "open", n |-> x.n + 1]
          \/ m.tag = "Synchronization" /\ x.ph = "open" /\ y = [ph |-> "synced", n |-> x.n]
          \/ m.tag = "Close" /\ x.ph = "open" /\ y = [ph |-> "closed", n |-> x.n]

\* The messages of q, and the buffers of w, take it from x to y.
Path(q, c, x, y) ==
    \E f \in [0 .. Len(q) -> Points] :
        /\ f[0] = x /\ f[Len(q)] = y
        /\ \A i \in 1 .. Len(q) : Says(c, q[i], f[i - 1], f[i])

Paths(w, c, x, y) ==
    \E f \in [0 .. Len(w) -> Points] :
        /\ f[0] = x /\ f[Len(w)] = y
        /\ \A i \in 1 .. Len(w) : Path(w[i], c, f[i - 1], f[i])

\* From m, where the main thread is, to e, where the client is: pack, received
\* buffers, wire and stream
Line(c, m, pack, received, onWire, open, e) ==
    \E x, y, z \in Points :
        /\ Path(pack, c, m, x) /\ Paths(received, c, x, y)
        /\ Paths(onWire, c, y, z) /\ Path(open, c, z, e)

-----------------------------------------------------------------------------
(* Induction over the natural numbers, on sets *)

\* A set that holds 0 and with n also n + 1 holds every natural number.
LEMMA SetInduction ==
    ASSUME NEW S, 0 \in S, \A n \in Nat : n \in S => n + 1 \in S
    PROVE  Nat \subseteq S
<1> SUFFICES ASSUME Nat \ S # {} PROVE FALSE OBVIOUS
<1>1. IsWellFoundedOn(OpToRel(<, Nat), Nat) BY NatLessThanWellFounded
<1>2. PICK x \in Nat \ S : \A y \in Nat \ S : ~ (<<y, x>> \in OpToRel(<, Nat))
  BY <1>1, WFMin
<1>3. x # 0 /\ x - 1 \in Nat OBVIOUS
<1>4. x - 1 \in S
  <2>1. <<x - 1, x>> \in OpToRel(<, Nat) BY <1>3 DEF OpToRel
  <2> QED BY <1>2, <1>3, <2>1
<1>5. (x - 1) + 1 \in S BY <1>3, <1>4
<1>6. (x - 1) + 1 = x BY <1>3
<1> QED BY <1>5, <1>6

-----------------------------------------------------------------------------
(* Paths *)

\* Where nothing was said, a conversation stays where it is ...
LEMMA PathEmpty ==
    ASSUME NEW c, NEW x \in Points PROVE Path(<<>>, c, x, x) /\ Paths(<<>>, c, x, x)
<1> DEFINE f == [i \in 0 .. 0 |-> x]
<1>1. f \in [0 .. Len(<<>>) -> Points] /\ f[0] = x /\ f[Len(<<>>)] = x /\ 1 .. Len(<<>>) = {}
  OBVIOUS
<1> HIDE DEF f
<1>2. Path(<<>>, c, x, x) BY <1>1 DEF Path
<1>3. Paths(<<>>, c, x, x) BY <1>1 DEF Paths
<1> QED BY <1>2, <1>3

\* ... and only there.
LEMMA PathEmptyEnds ==
    ASSUME NEW c, NEW x, NEW y
    PROVE  (Path(<<>>, c, x, y) => x = y) /\ (Paths(<<>>, c, x, y) => x = y)
BY DEF Path, Paths

\* One more message, or one more buffer, prolongs a path at its end.
LEMMA PathAppend ==
    ASSUME NEW M, NEW q \in Seq(M), NEW m \in M, NEW c, NEW x, NEW y, NEW z \in Points,
           Path(q, c, x, y), Says(c, m, y, z)
    PROVE  Path(Append(q, m), c, x, z)
<1>1. PICK f \in [0 .. Len(q) -> Points] :
        /\ f[0] = x /\ f[Len(q)] = y
        /\ \A i \in 1 .. Len(q) : Says(c, q[i], f[i - 1], f[i])
  BY DEF Path
<1> DEFINE r == Append(q, m)
           g == [i \in 0 .. Len(r) |-> IF i <= Len(q) THEN f[i] ELSE z]
<1>2. /\ Len(r) = Len(q) + 1 /\ Len(q) \in Nat /\ r[Len(q) + 1] = m
      /\ \A i \in 1 .. Len(q) : r[i] = q[i]
  OBVIOUS
<1> HIDE DEF r
<1>3. g \in [0 .. Len(r) -> Points] BY <1>2
<1>4. g[0] = x /\ g[Len(r)] = z BY <1>1, <1>2
<1>5. ASSUME NEW i \in 1 .. Len(r) PROVE Says(c, r[i], g[i - 1], g[i])
  <2>1. CASE i <= Len(q) 
    <3>1. g[i] = f[i] /\ g[i - 1] = f[i - 1] /\ r[i] = q[i] /\ i \in 1 .. Len(q) BY <1>2, <2>1
    <3> QED BY <1>1, <3>1
  <2>2. CASE i = Len(q) + 1 
    <3>1. g[i] = z /\ g[i - 1] = y /\ r[i] = m BY <1>1, <1>2, <2>2
    <3> QED BY <3>1
  <2> QED BY <1>2, <2>1, <2>2
<1> HIDE DEF g
<1> QED BY <1>3, <1>4, <1>5 DEF Path, r

\* A buffer is added behind others.
LEMMA PathsAppend ==
    ASSUME NEW M, NEW w \in Seq(Seq(M)), NEW q \in Seq(M), NEW c, NEW x, NEW y,
           NEW z \in Points, Paths(w, c, x, y), Path(q, c, y, z)
    PROVE  Paths(Append(w, q), c, x, z)
<1>1. PICK f \in [0 .. Len(w) -> Points] :
        /\ f[0] = x /\ f[Len(w)] = y
        /\ \A i \in 1 .. Len(w) : Path(w[i], c, f[i - 1], f[i])
  BY DEF Paths
<1> DEFINE r == Append(w, q)
           g == [i \in 0 .. Len(r) |-> IF i <= Len(w) THEN f[i] ELSE z]
<1>2. /\ Len(r) = Len(w) + 1 /\ Len(w) \in Nat /\ r[Len(w) + 1] = q
      /\ \A i \in 1 .. Len(w) : r[i] = w[i]
  OBVIOUS
<1> HIDE DEF r
<1>3. g \in [0 .. Len(r) -> Points] BY <1>2
<1>4. g[0] = x /\ g[Len(r)] = z BY <1>1, <1>2
<1>5. ASSUME NEW i \in 1 .. Len(r) PROVE Path(r[i], c, g[i - 1], g[i])
  <2>1. CASE i <= Len(w)
    <3>1. g[i] = f[i] /\ g[i - 1] = f[i - 1] /\ r[i] = w[i] /\ i \in 1 .. Len(w) BY <1>2, <2>1
    <3> QED BY <1>1, <3>1
  <2>2. CASE i = Len(w) + 1
    <3>1. g[i] = z /\ g[i - 1] = y /\ r[i] = q BY <1>1, <1>2, <2>2
    <3> QED BY <3>1
  <2> QED BY <1>2, <2>1, <2>2
<1> HIDE DEF g
<1> QED BY <1>3, <1>4, <1>5 DEF Paths, r

\* Taking the first message, or the first buffer, shortens it at its beginning.
LEMMA PathHead ==
    ASSUME NEW M, NEW q \in Seq(M), q # <<>>, NEW c, NEW x, NEW y, Path(q, c, x, y)
    PROVE  \E z \in Points : Says(c, Head(q), x, z) /\ Path(Tail(q), c, z, y)
<1>1. PICK f \in [0 .. Len(q) -> Points] :
        /\ f[0] = x /\ f[Len(q)] = y
        /\ \A i \in 1 .. Len(q) : Says(c, q[i], f[i - 1], f[i])
  BY DEF Path
<1> DEFINE r == Tail(q)
           g == [i \in 0 .. Len(r) |-> f[i + 1]]
<1>2. /\ Len(q) \in Nat /\ Len(q) >= 1 /\ Len(r) = Len(q) - 1 /\ Head(q) = q[1]
      /\ \A i \in 1 .. Len(r) : r[i] = q[i + 1]
  OBVIOUS
<1> HIDE DEF r
<1>3. f[1] \in Points /\ Says(c, Head(q), x, f[1])
  <2>1. 1 \in 1 .. Len(q) /\ 1 - 1 = 0 BY <1>2
  <2>2. Says(c, q[1], f[1 - 1], f[1]) BY <1>1, <2>1
  <2> QED BY <1>1, <1>2, <2>1, <2>2
<1>4. g \in [0 .. Len(r) -> Points] BY <1>2
<1>5. g[0] = f[1] /\ g[Len(r)] = y BY <1>1, <1>2
<1>6. ASSUME NEW i \in 1 .. Len(r) PROVE Says(c, r[i], g[i - 1], g[i])
  <2>1. g[i] = f[i + 1] /\ g[i - 1] = f[i] /\ r[i] = q[i + 1] /\ i + 1 \in 1 .. Len(q) BY <1>2
  <2>2. (i + 1) - 1 = i OBVIOUS
  <2> QED BY <1>1, <2>1, <2>2
<1>7. Path(r, c, f[1], y)
  <2> HIDE DEF g
  <2> QED BY <1>4, <1>5, <1>6 DEF Path
<1> QED BY <1>3, <1>7 DEF r

\* The first of several buffers is taken.
LEMMA PathsHead ==
    ASSUME NEW M, NEW w \in Seq(Seq(M)), w # <<>>, NEW c, NEW x, NEW y, Paths(w, c, x, y)
    PROVE  \E z \in Points : Path(Head(w), c, x, z) /\ Paths(Tail(w), c, z, y)
<1>1. PICK f \in [0 .. Len(w) -> Points] :
        /\ f[0] = x /\ f[Len(w)] = y
        /\ \A i \in 1 .. Len(w) : Path(w[i], c, f[i - 1], f[i])
  BY DEF Paths
<1> DEFINE r == Tail(w)
           g == [i \in 0 .. Len(r) |-> f[i + 1]]
<1>2. /\ Len(w) \in Nat /\ Len(w) >= 1 /\ Len(r) = Len(w) - 1 /\ Head(w) = w[1]
      /\ \A i \in 1 .. Len(r) : r[i] = w[i + 1]
  OBVIOUS
<1> HIDE DEF r
<1>3. f[1] \in Points /\ Path(Head(w), c, x, f[1])
  <2>1. 1 \in 1 .. Len(w) /\ 1 - 1 = 0 BY <1>2
  <2>2. Path(w[1], c, f[1 - 1], f[1]) BY <1>1, <2>1
  <2>3. f[1] \in Points BY <1>2
  <2>4. f[1 - 1] = x BY <1>1, <2>1
  <2> QED BY <1>2, <2>2, <2>3, <2>4
<1>4. g \in [0 .. Len(r) -> Points] BY <1>2
<1>5. g[0] = f[1] /\ g[Len(r)] = y BY <1>1, <1>2
<1>6. ASSUME NEW i \in 1 .. Len(r) PROVE Path(r[i], c, g[i - 1], g[i])
  <2>1. i \in 0 .. Len(r) /\ i - 1 \in 0 .. Len(r) /\ i + 1 \in 1 .. Len(w) BY <1>2
  <2>2. (i + 1) - 1 = i /\ (i - 1) + 1 = i OBVIOUS
  <2>3. g[i] = f[i + 1] /\ g[i - 1] = f[i] /\ r[i] = w[i + 1] BY <1>2, <2>1, <2>2
  <2>4. Path(w[i + 1], c, f[(i + 1) - 1], f[i + 1]) BY <1>1, <2>1
  <2> QED BY <2>2, <2>3, <2>4
<1>7. Paths(r, c, f[1], y)
  <2> HIDE DEF g
  <2> QED BY <1>4, <1>5, <1>6 DEF Paths
<1> QED BY <1>3, <1>7 DEF r

\* Messages of others leave a conversation where it is.
LEMMA PathForeign ==
    ASSUME NEW M, NEW q \in Seq(M), NEW c, NEW x \in Points,
           \A i \in 1 .. Len(q) : q[i].src # c
    PROVE  Path(q, c, x, x)
<1> DEFINE f == [i \in 0 .. Len(q) |-> x]
<1>1. f \in [0 .. Len(q) -> Points] /\ f[0] = x /\ f[Len(q)] = x OBVIOUS
<1>2. \A i \in 1 .. Len(q) : Says(c, q[i], f[i - 1], f[i]) BY DEF Says
<1> HIDE DEF f
<1> QED BY <1>1, <1>2 DEF Path

\* Fields are only ever added.
LEMMA PathGrows ==
    ASSUME NEW M, NEW q \in Seq(M), NEW c, NEW x, NEW y, Path(q, c, x, y)
    PROVE  x \in Points /\ y \in Points /\ x.n <= y.n
<1>1. PICK f \in [0 .. Len(q) -> Points] :
        /\ f[0] = x /\ f[Len(q)] = y
        /\ \A i \in 1 .. Len(q) : Says(c, q[i], f[i - 1], f[i])
  BY DEF Path
<1>2. Len(q) \in Nat OBVIOUS
<1> DEFINE S == {i \in Nat : i <= Len(q) => x.n <= f[i].n}
<1>3. x \in Points /\ y \in Points BY <1>1, <1>2
<1>4. 0 \in S BY <1>1, <1>2, <1>3 DEF Points
<1>5. ASSUME NEW i \in Nat, i \in S PROVE i + 1 \in S
  <2> SUFFICES ASSUME i + 1 <= Len(q) PROVE x.n <= f[i + 1].n OBVIOUS
  <2>1. i \in 0 .. Len(q) /\ i + 1 \in 1 .. Len(q) /\ (i + 1) - 1 = i BY <1>2
  <2>2. Says(c, q[i + 1], f[(i + 1) - 1], f[i + 1]) BY <1>1, <2>1
  <2>3. Says(c, q[i + 1], f[i], f[i + 1]) BY <2>1, <2>2
  <2>4. f[i] \in Points BY <2>1
  <2>5. f[i].n <= f[i + 1].n BY <2>3, <2>4 DEF Says, Points
  <2>6. f[i + 1] \in Points BY <2>1
  <2>7. x.n \in Nat /\ f[i].n \in Nat /\ f[i + 1].n \in Nat BY <1>3, <2>4, <2>6 DEF Points
  <2>8. x.n <= f[i].n BY <1>5, <2>1
  <2> QED BY <2>5, <2>7, <2>8
<1> HIDE DEF S
<1>6. Nat \subseteq S BY <1>4, <1>5, SetInduction
<1>7. Len(q) \in S BY <1>2, <1>6
<1> QED BY <1>1, <1>2, <1>3, <1>7 DEF S

\* The same for a sequence of buffers.
LEMMA PathsGrow ==
    ASSUME NEW M, NEW w \in Seq(Seq(M)), NEW c, NEW x, NEW y, Paths(w, c, x, y)
    PROVE  x \in Points /\ y \in Points /\ x.n <= y.n
<1>1. PICK f \in [0 .. Len(w) -> Points] :
        /\ f[0] = x /\ f[Len(w)] = y
        /\ \A i \in 1 .. Len(w) : Path(w[i], c, f[i - 1], f[i])
  BY DEF Paths
<1>2. Len(w) \in Nat OBVIOUS
<1> DEFINE S == {i \in Nat : i <= Len(w) => x.n <= f[i].n}
<1>3. x \in Points /\ y \in Points BY <1>1, <1>2
<1>4. 0 \in S BY <1>1, <1>2, <1>3 DEF Points
<1>5. ASSUME NEW i \in Nat, i \in S PROVE i + 1 \in S
  <2> SUFFICES ASSUME i + 1 <= Len(w) PROVE x.n <= f[i + 1].n OBVIOUS
  <2>1. i \in 0 .. Len(w) /\ i + 1 \in 1 .. Len(w) /\ (i + 1) - 1 = i BY <1>2
  <2>2. Path(w[i + 1], c, f[(i + 1) - 1], f[i + 1]) BY <1>1, <2>1
  <2>3. Path(w[i + 1], c, f[i], f[i + 1]) BY <2>1, <2>2
  <2>4. w[i + 1] \in Seq(M) BY <2>1
  <2>5. f[i] \in Points /\ f[i + 1] \in Points /\ f[i].n <= f[i + 1].n
    BY <2>3, <2>4, PathGrows
  <2>6. x.n \in Nat /\ f[i].n \in Nat /\ f[i + 1].n \in Nat BY <1>3, <2>5 DEF Points
  <2>7. x.n <= f[i].n BY <1>5, <2>1
  <2> QED BY <2>5, <2>6, <2>7
<1> HIDE DEF S
<1>6. Nat \subseteq S BY <1>4, <1>5, SetInduction
<1>7. Len(w) \in S BY <1>2, <1>6
<1> QED BY <1>1, <1>2, <1>3, <1>7 DEF S

-----------------------------------------------------------------------------
(* Lines: what each thread does to the conversation on its way *)

LineTypes(pack, received, onWire, open) ==
    /\ pack \in Seq(Messages) /\ received \in Seq(Seq(Messages))
    /\ onWire \in Seq(Seq(Messages)) /\ open \in Seq(Messages)

\* The main thread never knows of more fields than the client sent.
LEMMA LineGrows ==
    ASSUME NEW c, NEW m, NEW p, NEW r, NEW w, NEW o, NEW e,
           LineTypes(p, r, w, o), Line(c, m, p, r, w, o, e)
    PROVE  m \in Points /\ e \in Points /\ m.n <= e.n
<1>1. PICK x, y, z \in Points :
        /\ Path(p, c, m, x) /\ Paths(r, c, x, y) /\ Paths(w, c, y, z) /\ Path(o, c, z, e)
  BY DEF Line
<1>2. m \in Points /\ m.n <= x.n BY <1>1, PathGrows DEF LineTypes
<1>3. x.n <= y.n BY <1>1, PathsGrow DEF LineTypes
<1>4. y.n <= z.n BY <1>1, PathsGrow DEF LineTypes
<1>5. e \in Points /\ z.n <= e.n BY <1>1, PathGrows DEF LineTypes
<1>6. m.n \in Nat /\ x.n \in Nat /\ y.n \in Nat /\ z.n \in Nat /\ e.n \in Nat
  BY <1>2, <1>5 DEF Points
<1> QED BY <1>2, <1>3, <1>4, <1>5, <1>6

\* Nothing under way: the server is where the client is.
LEMMA LineEmpty ==
    ASSUME NEW c, NEW m \in Points PROVE Line(c, m, <<>>, <<>>, <<>>, <<>>, m)
BY PathEmpty DEF Line

\* And it is nowhere else.
LEMMA LineEmptyEnds ==
    ASSUME NEW c, NEW m, NEW e, Line(c, m, <<>>, <<>>, <<>>, <<>>, e)
    PROVE  e = m
<1>1. PICK x, y, z \in Points :
        /\ Path(<<>>, c, m, x) /\ Paths(<<>>, c, x, y) /\ Paths(<<>>, c, y, z) /\ Path(<<>>, c, z, e)
  BY DEF Line
<1>2. m = x /\ x = y /\ y = z /\ z = e BY <1>1, PathEmptyEnds
<1> QED BY <1>2

\* The client puts a message into its stream.
LEMMA LineSay ==
    ASSUME NEW c, NEW m, NEW p, NEW r, NEW w, NEW o, NEW e, LineTypes(p, r, w, o),
           Line(c, m, p, r, w, o, e), NEW k \in Messages, NEW d \in Points, Says(c, k, e, d)
    PROVE  Line(c, m, p, r, w, Append(o, k), d)
<1>1. PICK x, y, z \in Points :
        /\ Path(p, c, m, x) /\ Paths(r, c, x, y) /\ Paths(w, c, y, z) /\ Path(o, c, z, e)
  BY DEF Line
<1>2. Path(Append(o, k), c, z, d) BY <1>1, PathAppend DEF LineTypes
<1> QED BY <1>1, <1>2 DEF Line

\* The stream is posted.
LEMMA LinePost ==
    ASSUME NEW c, NEW m, NEW p, NEW r, NEW w, NEW o, NEW e, LineTypes(p, r, w, o),
           Line(c, m, p, r, w, o, e)
    PROVE  Line(c, m, p, r, Append(w, o), <<>>, e)
<1>1. PICK x, y, z \in Points :
        /\ Path(p, c, m, x) /\ Paths(r, c, x, y) /\ Paths(w, c, y, z) /\ Path(o, c, z, e)
  BY DEF Line
<1>2. e \in Points BY <1>1, PathGrows DEF LineTypes
<1>3. Paths(Append(w, o), c, y, e) BY <1>1, <1>2, PathsAppend DEF LineTypes
<1> QED BY <1>1, <1>2, <1>3, PathEmpty DEF Line

\* listen(): a buffer of the client is received, or one of another client.
LEMMA LineListen ==
    ASSUME NEW c, NEW m, NEW p, NEW r, NEW w, NEW o, NEW e, LineTypes(p, r, w, o),
           Line(c, m, p, r, w, o, e), w # <<>>
    PROVE  Line(c, m, p, Append(r, Head(w)), Tail(w), o, e)
<1>1. PICK x, y, z \in Points :
        /\ Path(p, c, m, x) /\ Paths(r, c, x, y) /\ Paths(w, c, y, z) /\ Path(o, c, z, e)
  BY DEF Line
<1>2. PICK u \in Points : Path(Head(w), c, y, u) /\ Paths(Tail(w), c, u, z)
  BY <1>1, PathsHead DEF LineTypes
<1>3. Head(w) \in Seq(Messages) BY DEF LineTypes
<1>4. Paths(Append(r, Head(w)), c, x, u) BY <1>1, <1>2, <1>3, PathsAppend DEF LineTypes
<1> QED BY <1>1, <1>2, <1>4 DEF Line

\* A buffer of another client is received: the line of c stays whole.
LEMMA LineListenOther ==
    ASSUME NEW c, NEW m, NEW p, NEW r, NEW w, NEW o, NEW e, LineTypes(p, r, w, o),
           Line(c, m, p, r, w, o, e), NEW b \in Seq(Messages),
           \A i \in 1 .. Len(b) : b[i].src # c
    PROVE  Line(c, m, p, Append(r, b), w, o, e)
<1>1. PICK x, y, z \in Points :
        /\ Path(p, c, m, x) /\ Paths(r, c, x, y) /\ Paths(w, c, y, z) /\ Path(o, c, z, e)
  BY DEF Line
<1>2. Path(b, c, y, y) BY PathForeign
<1>3. Paths(Append(r, b), c, x, y) BY <1>1, <1>2, PathsAppend DEF LineTypes
<1> QED BY <1>1, <1>3 DEF Line

\* receive() decodes the next buffer.
LEMMA LineDecode ==
    ASSUME NEW c, NEW m, NEW r, NEW w, NEW o, NEW e, LineTypes(<<>>, r, w, o),
           Line(c, m, <<>>, r, w, o, e), r # <<>>
    PROVE  Line(c, m, Head(r), Tail(r), w, o, e)
<1>1. PICK x, y, z \in Points :
        /\ Path(<<>>, c, m, x) /\ Paths(r, c, x, y) /\ Paths(w, c, y, z) /\ Path(o, c, z, e)
  BY DEF Line
<1>2. m = x BY <1>1, PathEmptyEnds
<1>3. PICK u \in Points : Path(Head(r), c, x, u) /\ Paths(Tail(r), c, u, y)
  BY <1>1, PathsHead DEF LineTypes
<1> QED BY <1>1, <1>2, <1>3 DEF Line

\* The main thread takes the next message.
LEMMA LineHandle ==
    ASSUME NEW c, NEW m, NEW p, NEW r, NEW w, NEW o, NEW e, LineTypes(p, r, w, o),
           Line(c, m, p, r, w, o, e), p # <<>>
    PROVE  \E d \in Points : Says(c, Head(p), m, d) /\ Line(c, d, Tail(p), r, w, o, e)
<1>1. PICK x, y, z \in Points :
        /\ Path(p, c, m, x) /\ Paths(r, c, x, y) /\ Paths(w, c, y, z) /\ Path(o, c, z, e)
  BY DEF Line
<1>2. PICK u \in Points : Says(c, Head(p), m, u) /\ Path(Tail(p), c, u, x)
  BY <1>1, PathHead DEF LineTypes
<1> QED BY <1>1, <1>2 DEF Line

\* A conversation that waits or has ended is at its end: no message of c follows.
LEMMA LineQuiet ==
    ASSUME NEW c, NEW m, NEW p, NEW r, NEW w, NEW o, NEW e, LineTypes(p, r, w, o),
           Line(c, m, p, r, w, o, e), m.ph \in {"synced", "closed"}
    PROVE  /\ p # <<>> => Head(p).src # c
           /\ p = <<>> /\ r # <<>> /\ Head(r) # <<>> => Head(Head(r)).src # c
           /\ p = <<>> /\ r = <<>> /\ w # <<>> /\ Head(w) # <<>> => Head(Head(w)).src # c
           /\ p = <<>> /\ r = <<>> /\ w = <<>> /\ o # <<>> => Head(o).src # c
<1>1. ASSUME NEW pp, NEW rr, NEW ww, NEW oo, LineTypes(pp, rr, ww, oo),
             Line(c, m, pp, rr, ww, oo, e), pp # <<>>
      PROVE  Head(pp).src # c
  <2>1. PICK d \in Points : Says(c, Head(pp), m, d) BY <1>1, LineHandle
  <2> QED BY <2>1 DEF Says
<1>2. ASSUME NEW rr, NEW ww, NEW oo, LineTypes(<<>>, rr, ww, oo),
             Line(c, m, <<>>, rr, ww, oo, e), rr # <<>>, Head(rr) # <<>>
      PROVE  Head(Head(rr)).src # c
  <2>1. Line(c, m, Head(rr), Tail(rr), ww, oo, e) BY <1>2, LineDecode
  <2>2. LineTypes(Head(rr), Tail(rr), ww, oo) BY <1>2 DEF LineTypes
  <2> QED BY <1>1, <1>2, <2>1, <2>2
<1>3. ASSUME NEW ww, NEW oo, LineTypes(<<>>, <<>>, ww, oo),
             Line(c, m, <<>>, <<>>, ww, oo, e), ww # <<>>, Head(ww) # <<>>
      PROVE  Head(Head(ww)).src # c
  <2> DEFINE b == Append(<<>>, Head(ww))
  <2>1. Line(c, m, <<>>, b, Tail(ww), oo, e) BY <1>3, LineListen
  <2>2. LineTypes(<<>>, b, Tail(ww), oo) BY <1>3 DEF LineTypes
  <2>3. b # <<>> /\ Head(b) = Head(ww) BY <1>3 DEF LineTypes
  <2> HIDE DEF b
  <2> QED BY <1>2, <1>3, <2>1, <2>2, <2>3
<1>4. ASSUME p = <<>>, r = <<>>, w = <<>>, o # <<>> PROVE Head(o).src # c
  <2> DEFINE b == Append(<<>>, o)
  <2>1. Line(c, m, <<>>, <<>>, b, <<>>, e) BY <1>4, LinePost
  <2>2. LineTypes(<<>>, <<>>, b, <<>>) BY <1>4 DEF LineTypes
  <2>3. b # <<>> /\ Head(b) = o BY <1>4 DEF LineTypes
  <2> HIDE DEF b
  <2> QED BY <1>3, <1>4, <2>1, <2>2, <2>3
<1>5. p # <<>> => Head(p).src # c BY <1>1
<1>6. p = <<>> /\ r # <<>> /\ Head(r) # <<>> => Head(Head(r)).src # c BY <1>2
<1>7. p = <<>> /\ r = <<>> /\ w # <<>> /\ Head(w) # <<>> => Head(Head(w)).src # c BY <1>3
<1> QED BY <1>4, <1>5, <1>6, <1>7

-----------------------------------------------------------------------------
(* The invariant *)

PCs == {"opening", "openWait", "open", "acquire", "Synchronization",
        "Close", "waitSync", "waitClose", "barrier", "done"}

ClientTypes ==
    /\ pc \in [Clients -> PCs] /\ next \in [Clients -> Servers] /\ round \in [Clients -> Nat]
    /\ stream \in [Clients -> [Servers -> Seq(Messages)]]
    /\ sent \in [Clients -> [Servers -> Nat]]
    /\ wire \in [Clients -> [Servers -> Seq(Seq(Messages))]]

ListenTypes ==
    /\ connections \in [Servers -> SUBSET Clients]
    /\ opened \in [Servers -> Nat] /\ syncCount \in [Servers -> Nat]
    /\ running \in [Servers -> BOOLEAN] /\ failed \in [Servers -> BOOLEAN]
    /\ queueClosed \in [Servers -> BOOLEAN]

QueueTypes ==
    /\ streamQ \in [Servers -> Seq(Seq(Messages))]
    /\ msgPack \in [Servers -> Seq(Messages)]
    /\ msgQ \in [Servers -> Seq(Messages)]
    /\ dispatcher \in [Servers -> {"handling", "barrier", "ended"}]
    /\ handled \in [Clients -> [Servers -> Nat]]

Typed == ClientTypes /\ ListenTypes /\ QueueTypes

\* What a client sends is its own, and a buffer that is sent holds something.
OwnBuffer(c, b) == b # <<>> /\ \A j \in 1 .. Len(b) : b[j].src = c

Sources ==
    /\ \A c \in Clients, s \in Servers :
          /\ \A i \in 1 .. Len(wire[c][s]) : OwnBuffer(c, wire[c][s][i])
          /\ \A i \in 1 .. Len(stream[c][s]) : stream[c][s][i].src = c
    /\ \A s \in Servers : \A i \in 1 .. Len(streamQ[s]) : streamQ[s][i] # <<>>

Calls ==
    \A c \in Clients :
        /\ pc[c] \in {"open", "waitSync", "barrier"} => next[c] = 1
        /\ pc[c] \in {"opening", "openWait"} => \A s \in Servers : stream[c][s] = <<>>
        /\ round[c] <= Rounds /\ (Synchronizing(c) => round[c] < Rounds)
        /\ pc[c] = "acquire" => sent[c][next[c]] < MaxSent[c][next[c]]
        /\ \A s \in Servers : sent[c][s] <= MaxSent[c][s]

\* Where client c is in its conversation with server s
OpenSaid(c, s) ==
    CASE pc[c] = "opening" -> s < next[c] [] pc[c] = "openWait" -> s <= next[c] [] OTHER -> TRUE
SyncSaid(c, s) == (pc[c] = "Synchronization" /\ s < next[c]) \/ pc[c] \in {"waitSync", "barrier"}
CloseSaid(c, s) == (pc[c] = "Close" /\ s < next[c]) \/ pc[c] \in {"waitClose", "done"}

End(c, s) ==
    [ph |-> IF ~ OpenSaid(c, s) THEN "new" ELSE IF CloseSaid(c, s) THEN "closed"
            ELSE IF SyncSaid(c, s) THEN "synced" ELSE "open",
     n |-> sent[c][s]]

\* main[c][s]: how far the main thread of s has followed client c
Talk(main) ==
    \A c \in Clients, s \in Servers :
        Line(c, main[c][s], msgPack[s], streamQ[s], wire[c][s], stream[c][s], End(c, s))

Synced(main, s) == {c \in Clients : main[c][s].ph = "synced"}

\* Listener's members say where the conversations are.
Connected(main, s) ==
    /\ connections[s] = {c \in Clients : main[c][s].ph \in {"open", "synced"}}
    /\ opened[s] = Cardinality({c \in Clients : main[c][s].ph # "new"})
    /\ ~ failed[s]
    /\ running[s] <=> ~ queueClosed[s]
    /\ queueClosed[s] => connections[s] = {} /\ opened[s] = Cardinality(Clients)

\* The count of synchronizations, the message that goes on, the barrier
InSync(main, s) ==
    \/ /\ Synced(main, s) # Clients /\ syncCount[s] = Cardinality(Synced(main, s))
       /\ dispatcher[s] # "barrier"
       /\ \A i \in 1 .. Len(msgQ[s]) : msgQ[s][i].tag = "Field"
    \/ /\ Synced(main, s) = Clients /\ syncCount[s] = 0
       /\ dispatcher[s] = "barrier" /\ msgQ[s] = <<>>
    \/ /\ Synced(main, s) = Clients /\ syncCount[s] = 0
       /\ dispatcher[s] = "handling" /\ msgQ[s] # <<>>
       /\ \A i \in 1 .. Len(msgQ[s]) :
             msgQ[s][i].tag = IF i = Len(msgQ[s]) THEN "Synchronization" ELSE "Field"

\* msgQueue_ holds the fields from the last one dispatched to where main is.
Queued(main, c, s) ==
    \E y \in Points :
        /\ Path(msgQ[s], c, [ph |-> "open", n |-> handled[c][s]], y)
        /\ y.n = main[c][s].n
        /\ Synced(main, s) # Clients => y.ph = "open"

ServingAt(main, s) ==
    /\ Connected(main, s) /\ InSync(main, s)
    /\ \A c \in Clients : Queued(main, c, s)
    /\ dispatcher[s] = "ended" => queueClosed[s] /\ msgQ[s] = <<>>

Serving(main) == \A s \in Servers : ServingAt(main, s)

Mains == [Clients -> [Servers -> Points]]

Inv ==
    /\ Typed /\ Sources /\ Calls
    /\ \E main \in Mains : Talk(main) /\ Serving(main)

-----------------------------------------------------------------------------

\* Where a client is in a conversation is a point of it.
LEMMA EndPoint ==
    ASSUME Typed, NEW c \in Clients, NEW s \in Servers
    PROVE  End(c, s) \in Points /\ End(c, s).n = sent[c][s]
BY DEF Typed, ClientTypes, End, Points

\* The typed state gives typed lines.
LEMMA Lines ==
    ASSUME Typed, NEW c \in Clients, NEW s \in Servers
    PROVE  LineTypes(msgPack[s], streamQ[s], wire[c][s], stream[c][s])
BY DEF Typed, ClientTypes, QueueTypes, LineTypes

\* When every client waits for s, or has closed, nothing is under way to s.
LEMMA Drained ==
    ASSUME Typed, Sources, NEW main \in Mains, Talk(main), NEW s \in Servers,
           \A c \in Clients : main[c][s].ph \in {"synced", "closed"}
    PROVE  /\ msgPack[s] = <<>> /\ streamQ[s] = <<>>
           /\ \A c \in Clients : wire[c][s] = <<>> /\ stream[c][s] = <<>> /\ End(c, s) = main[c][s]
<1>1. \A c \in Clients :
        /\ Line(c, main[c][s], msgPack[s], streamQ[s], wire[c][s], stream[c][s], End(c, s))
        /\ LineTypes(msgPack[s], streamQ[s], wire[c][s], stream[c][s])
  BY Lines DEF Talk
<1>2. msgPack[s] = <<>>
  <2> SUFFICES ASSUME msgPack[s] # <<>> PROVE FALSE OBVIOUS
  <2>1. Head(msgPack[s]).src \in Clients
    <3>1. msgPack[s] \in Seq(Messages) BY DEF Typed, QueueTypes
    <3>2. Head(msgPack[s]) \in Messages BY <3>1
    <3> QED BY <3>2 DEF Messages
  <2>2. PICK c \in Clients : Head(msgPack[s]).src = c BY <2>1
  <2> QED BY <1>1, <2>2, LineQuiet
<1>3. streamQ[s] = <<>>
  <2> SUFFICES ASSUME streamQ[s] # <<>> PROVE FALSE OBVIOUS
  <2>0. streamQ[s] \in Seq(Seq(Messages)) BY DEF Typed, QueueTypes
  <2>1. Head(streamQ[s]) # <<>> /\ Head(streamQ[s]) \in Seq(Messages) BY <2>0 DEF Sources
  <2>2. Head(Head(streamQ[s])).src \in Clients
    <3>1. Head(Head(streamQ[s])) \in Messages BY <2>1
    <3> QED BY <3>1 DEF Messages
  <2>3. PICK c \in Clients : Head(Head(streamQ[s])).src = c BY <2>2
  <2> QED BY <1>1, <1>2, <2>1, <2>3, LineQuiet
<1>4. ASSUME NEW c \in Clients
      PROVE  wire[c][s] = <<>> /\ stream[c][s] = <<>> /\ End(c, s) = main[c][s]
  <2>1. wire[c][s] = <<>>
    <3> SUFFICES ASSUME wire[c][s] # <<>> PROVE FALSE OBVIOUS
    <3>1. wire[c][s] \in Seq(Seq(Messages)) BY DEF Typed, ClientTypes
    <3>2. Head(wire[c][s]) \in Seq(Messages) /\ Head(wire[c][s]) = wire[c][s][1]
          /\ 1 \in 1 .. Len(wire[c][s])
      BY <3>1
    <3>3. OwnBuffer(c, Head(wire[c][s])) BY <3>2 DEF Sources
    <3>4. Head(wire[c][s]) # <<>> /\ Head(Head(wire[c][s])).src = c BY <3>2, <3>3 DEF OwnBuffer
    <3> QED BY <1>1, <1>2, <1>3, <3>4, LineQuiet
  <2>2. stream[c][s] = <<>>
    <3> SUFFICES ASSUME stream[c][s] # <<>> PROVE FALSE OBVIOUS
    <3>1. stream[c][s] \in Seq(Messages) BY DEF Typed, ClientTypes
    <3>2. Head(stream[c][s]).src = c BY <3>1 DEF Sources
    <3> QED BY <1>1, <1>2, <1>3, <2>1, <3>2, LineQuiet
  <2>3. End(c, s) = main[c][s] BY <1>1, <1>2, <1>3, <2>1, <2>2, LineEmptyEnds
  <2> QED BY <2>1, <2>2, <2>3
<1> QED BY <1>2, <1>3, <1>4

\* Before the first open nothing is said anywhere.
LEMMA InitInv == Init => Inv
<1> SUFFICES ASSUME Init PROVE Inv OBVIOUS
<1>1. Servers \subseteq Nat /\ 1 \in Servers BY PoolAssumption DEF Servers
<1>2. <<>> \in Seq(Messages) /\ <<>> \in Seq(Seq(Messages)) OBVIOUS
<1>3. Typed BY <1>1, <1>2 DEF Init, Typed, ClientTypes, ListenTypes, QueueTypes, PerPair, PCs
<1>4. Sources BY DEF Init, Sources, PerPair
<1>5. Calls BY PoolAssumption DEF Init, Calls, PerPair, Synchronizing
<1> DEFINE new == [ph |-> "new", n |-> 0]
           main == [c \in Clients |-> [s \in Servers |-> new]]
<1>6. new \in Points /\ main \in Mains BY DEF Points, Mains
<1>7. \A c \in Clients, s \in Servers : main[c][s] = new /\ End(c, s) = new
  BY <1>1 DEF Init, PerPair, End, OpenSaid, Servers
<1>8. Talk(main)
  <2> SUFFICES ASSUME NEW c \in Clients, NEW s \in Servers
               PROVE  Line(c, main[c][s], msgPack[s], streamQ[s], wire[c][s], stream[c][s], End(c, s))
    BY DEF Talk
  <2>1. msgPack[s] = <<>> /\ streamQ[s] = <<>> /\ wire[c][s] = <<>> /\ stream[c][s] = <<>>
    BY DEF Init, PerPair
  <2>2. Line(c, new, <<>>, <<>>, <<>>, <<>>, new) BY <1>6, LineEmpty
  <2> QED BY <1>7, <2>1, <2>2
<1>9. Serving(main)
  <2> SUFFICES ASSUME NEW s \in Servers
               PROVE  ServingAt(main, s)
    BY DEF Serving
  <2>0. Cardinality({}) = 0 BY FS_EmptySet
  <2>1. connections[s] = {} /\ opened[s] = 0 /\ syncCount[s] = 0 /\ msgQ[s] = <<>>
        /\ dispatcher[s] = "handling"
    BY DEF Init
  <2>2. running[s] /\ ~ failed[s] /\ ~ queueClosed[s] BY DEF Init
  <2>3. {c \in Clients : main[c][s].ph # "new"} = {}
        /\ {c \in Clients : main[c][s].ph \in {"open", "synced"}} = {}
    BY <1>7
  <2>4. Synced(main, s) = {} BY <1>7 DEF Synced
  <2>5. Connected(main, s) BY <2>0, <2>1, <2>2, <2>3 DEF Connected
  <2>6. InSync(main, s)
    <3>1. Clients # {} BY PoolAssumption
    <3>2. 1 .. Len(msgQ[s]) = {} BY <2>1
    <3> QED BY <2>0, <2>1, <2>4, <3>1, <3>2 DEF InSync
  <2>7. ASSUME NEW c \in Clients PROVE Queued(main, c, s)
    <3>1. handled[c][s] = 0 BY DEF Init, PerPair
    <3>2. [ph |-> "open", n |-> 0] \in Points BY DEF Points
    <3>3. Path(msgQ[s], c, [ph |-> "open", n |-> handled[c][s]], [ph |-> "open", n |-> 0])
      BY <2>1, <3>1, <3>2, PathEmpty
    <3> QED BY <1>7, <3>2, <3>3 DEF Queued
  <2> HIDE DEF main
  <2> QED BY <2>1, <2>5, <2>6, <2>7 DEF ServingAt
<1> QED BY <1>3, <1>4, <1>5, <1>6, <1>8, <1>9 DEF Inv

-----------------------------------------------------------------------------
(* Steps of the clients *)

serverVars == <<listenVars, msgQ, dispatcher, handled>>

SameAt(s) ==
    /\ connections'[s] = connections[s] /\ opened'[s] = opened[s]
    /\ syncCount'[s] = syncCount[s] /\ running'[s] = running[s] /\ failed'[s] = failed[s]
    /\ queueClosed'[s] = queueClosed[s] /\ msgQ'[s] = msgQ[s] /\ dispatcher'[s] = dispatcher[s]
    /\ \A c \in Clients : handled'[c][s] = handled[c][s]

\* A server that no step concerns
LEMMA ServingAtSame ==
    ASSUME NEW main, NEW other, NEW s, ServingAt(main, s), SameAt(s),
           \A c \in Clients : other[c][s] = main[c][s]
    PROVE  ServingAt(other, s)'
<1> USE DEF SameAt
<1>1. Synced(other, s)' = Synced(main, s) BY DEF Synced
<1>2. Connected(other, s)'
  <2>1. {c \in Clients : other[c][s].ph \in {"open", "synced"}}
           = {c \in Clients : main[c][s].ph \in {"open", "synced"}}
    OBVIOUS
  <2>2. {c \in Clients : other[c][s].ph # "new"} = {c \in Clients : main[c][s].ph # "new"}
    OBVIOUS
  <2> QED BY <2>1, <2>2 DEF ServingAt, Connected
<1>3. InSync(other, s)' BY <1>1 DEF ServingAt, InSync
<1>4. \A c \in Clients : Queued(other, c, s)' BY <1>1 DEF ServingAt, Queued
<1> QED BY <1>2, <1>3, <1>4 DEF ServingAt

\* A step that leaves the state of all servers leaves what is said of it.
LEMMA ServingSame ==
    ASSUME NEW main, Serving(main), UNCHANGED serverVars
    PROVE  Serving(main)'
<1>1. \A s \in Servers : SameAt(s) BY DEF SameAt, serverVars, listenVars
<1> QED BY <1>1, ServingAtSame DEF Serving

\* It leaves their types too.
LEMMA ServerTypesSame ==
    ASSUME ListenTypes, QueueTypes, UNCHANGED <<streamQ, msgPack, serverVars>>
    PROVE  ListenTypes' /\ QueueTypes'
BY DEF ListenTypes, QueueTypes, serverVars, listenVars

\* A step of client c changes its own lines only.
LEMMA TalkStep ==
    ASSUME NEW main, Talk(main), NEW c \in Clients, UNCHANGED <<streamQ, msgPack>>,
           \A d \in Clients \ {c} : pc'[d] = pc[d] /\ next'[d] = next[d],
           \A d \in Clients \ {c}, s \in Servers :
              wire'[d][s] = wire[d][s] /\ stream'[d][s] = stream[d][s] /\ sent'[d][s] = sent[d][s],
           \A s \in Servers :
              Line(c, main[c][s], msgPack[s], streamQ[s], wire'[c][s], stream'[c][s], End(c, s)')
    PROVE  Talk(main)'
<1>1. \A d \in Clients \ {c}, s \in Servers : End(d, s)' = End(d, s)
  BY DEF End, OpenSaid, SyncSaid, CloseSaid
<1> SUFFICES ASSUME NEW d \in Clients, NEW s \in Servers
             PROVE  Line(d, main[d][s], msgPack'[s], streamQ'[s], wire'[d][s], stream'[d][s], End(d, s)')
  BY DEF Talk
<1>2. CASE d = c BY <1>2
<1>3. CASE d # c BY <1>1, <1>3 DEF Talk
<1> QED BY <1>2, <1>3

\* A client posts own buffers and keeps own messages in its stream.
LEMMA ClientSources ==
    ASSUME Typed, Sources, UNCHANGED streamQ,
           \A d \in Clients, s \in Servers :
              \/ wire'[d][s] = wire[d][s]
              \/ \E b \in Seq(Messages) : OwnBuffer(d, b) /\ wire'[d][s] = Append(wire[d][s], b),
           \A d \in Clients, s \in Servers :
              \A i \in 1 .. Len(stream'[d][s]) : stream'[d][s][i].src = d
    PROVE  Sources'
<1>1. ASSUME NEW d \in Clients, NEW s \in Servers, NEW i \in 1 .. Len(wire'[d][s])
      PROVE  OwnBuffer(d, wire'[d][s][i])
  <2>1. wire[d][s] \in Seq(Seq(Messages)) BY DEF Typed, ClientTypes
  <2>2. CASE wire'[d][s] = wire[d][s] BY <2>2 DEF Sources
  <2>3. ASSUME NEW b \in Seq(Messages), OwnBuffer(d, b), wire'[d][s] = Append(wire[d][s], b)
        PROVE  OwnBuffer(d, wire'[d][s][i])
    <3>1. CASE i = Len(wire[d][s]) + 1 BY <2>1, <2>3, <3>1
    <3>2. CASE i # Len(wire[d][s]) + 1
      <4>1. i \in 1 .. Len(wire[d][s]) /\ wire'[d][s][i] = wire[d][s][i] BY <2>1, <2>3, <3>2
      <4> QED BY <4>1 DEF Sources
    <3> QED BY <3>1, <3>2
  <2> QED BY <2>2, <2>3
<1> QED BY <1>1 DEF Sources

\* A control message is put behind what the stream holds and posted with it.
LEMMA LineControl ==
    ASSUME NEW c, NEW m, NEW p, NEW r, NEW w, NEW o, NEW e, LineTypes(p, r, w, o),
           Line(c, m, p, r, w, o, e), NEW k \in Messages, NEW d \in Points, Says(c, k, e, d)
    PROVE  Line(c, m, p, r, Append(w, Append(o, k)), <<>>, d)
<1>1. Line(c, m, p, r, w, Append(o, k), d) BY LineSay
<1>2. LineTypes(p, r, w, Append(o, k)) BY DEF LineTypes
<1> QED BY <1>1, <1>2, LinePost


\* A step of client c that touches at most its line to server t, and what it
\* puts there continues the conversation
OnlyLine(c, t) ==
    /\ \A d \in Clients \ {c} : pc'[d] = pc[d] /\ next'[d] = next[d]
    /\ \A d \in Clients, s \in Servers : ~ (d = c /\ s = t) =>
          wire'[d][s] = wire[d][s] /\ stream'[d][s] = stream[d][s] /\ sent'[d][s] = sent[d][s]
    /\ \A s \in Servers \ {t} : End(c, s)' = End(c, s)

Continues(c, t) ==
    \A m, p, r :
        /\ LineTypes(p, r, wire[c][t], stream[c][t])
        /\ Line(c, m, p, r, wire[c][t], stream[c][t], End(c, t))
        => Line(c, m, p, r, wire'[c][t], stream'[c][t], End(c, t)')

\* A client that continues one line and leaves its other lines keeps the invariant: the frame of all its steps.
LEMMA ClientStep ==
    ASSUME Inv, NEW c \in Clients, NEW t \in Servers,
           UNCHANGED <<streamQ, msgPack, serverVars>>, ClientTypes', Sources', Calls',
           OnlyLine(c, t), Continues(c, t)
    PROVE  Inv'
<1>1. PICK main \in Mains : Talk(main) /\ Serving(main) BY DEF Inv
<1>2. Serving(main)' BY <1>1, ServingSame
<1>3. Typed' BY ServerTypesSame DEF Inv, Typed
<1>4. ASSUME NEW s \in Servers
      PROVE  Line(c, main[c][s], msgPack[s], streamQ[s], wire'[c][s], stream'[c][s], End(c, s)')
  <2>1. Line(c, main[c][s], msgPack[s], streamQ[s], wire[c][s], stream[c][s], End(c, s))
    BY <1>1 DEF Talk
  <2>2. LineTypes(msgPack[s], streamQ[s], wire[c][s], stream[c][s]) BY Lines DEF Inv
  <2>3. CASE s = t BY <2>1, <2>2, <2>3 DEF Continues
  <2>4. CASE s # t
    <3>1. wire'[c][s] = wire[c][s] /\ stream'[c][s] = stream[c][s] /\ End(c, s)' = End(c, s)
      BY <2>4 DEF OnlyLine
    <3> QED BY <2>1, <3>1
  <2> QED BY <2>3, <2>4
<1>5. Talk(main)' BY <1>1, <1>4, TalkStep DEF OnlyLine
<1> QED BY <1>1, <1>2, <1>3, <1>5 DEF Inv

\* openConnections: the client says open to the next server.
LEMMA OpenSendInv ==
    ASSUME Inv, NEW c \in Clients, OpenSend(c)
    PROVE  Inv'
<1> DEFINE t == next[c]
           k == Msg(c, "Open", 0)
<1>1. /\ pc[c] = "opening" /\ t \in Servers
      /\ wire' = [wire EXCEPT ![c][t] = Append(@, <<k>>)]
      /\ pc' = [pc EXCEPT ![c] = "openWait"]
      /\ UNCHANGED <<next, round, stream, sent, streamQ, msgPack, serverVars>>
  BY DEF OpenSend, Post, Inv, Typed, ClientTypes, serverVars
<1>2. k \in Messages /\ k.src = c /\ k.tag = "Open" BY DEF Msg, Messages, Tags
<1> HIDE DEF k, t
<1>3. <<k>> \in Seq(Messages) /\ <<k>> # <<>> /\ OwnBuffer(c, <<k>>) /\ Append(<<>>, k) = <<k>>
  BY <1>2 DEF OwnBuffer
<1>4. \A d \in Clients, s \in Servers :
        wire'[d][s] = IF d = c /\ s = t THEN Append(wire[d][s], <<k>>) ELSE wire[d][s]
  BY <1>1 DEF Inv, Typed, ClientTypes
<1>5. \A d \in Clients : pc'[d] = IF d = c THEN "openWait" ELSE pc[d]
  BY <1>1 DEF Inv, Typed, ClientTypes
<1>6. ClientTypes'
  <2>1. wire' \in [Clients -> [Servers -> Seq(Seq(Messages))]]
    BY <1>1, <1>3 DEF Inv, Typed, ClientTypes
  <2> QED BY <1>1, <2>1 DEF Inv, Typed, ClientTypes, PCs
<1>7. Sources' BY <1>1, <1>3, <1>4, ClientSources DEF Inv, Sources
<1>8. Calls' BY <1>1, <1>5 DEF Inv, Calls, Synchronizing
<1>9. OnlyLine(c, t)
  <2>1. \A s \in Servers \ {t} : End(c, s)' = End(c, s)
    BY <1>1, <1>5 DEF End, OpenSaid, CloseSaid, SyncSaid, t, Servers
  <2> QED BY <1>1, <1>4, <1>5, <2>1 DEF OnlyLine
<1>10. Continues(c, t)
  <2> SUFFICES ASSUME NEW m, NEW p, NEW r, LineTypes(p, r, wire[c][t], stream[c][t]),
                      Line(c, m, p, r, wire[c][t], stream[c][t], End(c, t))
               PROVE  Line(c, m, p, r, wire'[c][t], stream'[c][t], End(c, t)')
    BY DEF Continues
  <2>1. stream[c][t] = <<>> /\ stream'[c][t] = <<>> BY <1>1 DEF Inv, Calls
  <2>2. wire'[c][t] = Append(wire[c][t], Append(stream[c][t], k)) BY <1>1, <1>3, <1>4, <2>1
  <2>3. End(c, t).ph = "new" /\ End(c, t)' = [ph |-> "open", n |-> End(c, t).n]
    BY <1>1, <1>5 DEF End, OpenSaid, CloseSaid, SyncSaid, t, Servers
  <2>4. End(c, t)' \in Points BY <1>1, <2>3, EndPoint DEF Points, Inv
  <2>5. Says(c, k, End(c, t), End(c, t)') BY <1>2, <2>3 DEF Says
  <2>6. Line(c, m, p, r, Append(wire[c][t], Append(stream[c][t], k)), <<>>, End(c, t)')
    BY <1>2, <2>4, <2>5, LineControl
  <2> QED BY <2>1, <2>2, <2>6
<1> QED BY <1>1, <1>6, <1>7, <1>8, <1>9, <1>10, ClientStep

\* A step that says nothing
LEMMA Silent ==
    ASSUME NEW c \in Clients, NEW t \in Servers, UNCHANGED <<wire, stream>>,
           End(c, t)' = End(c, t)
    PROVE  Continues(c, t)
BY DEF Continues

\* The blocking send of the open returns.
LEMMA OpenReturnInv ==
    ASSUME Inv, NEW c \in Clients, OpenReturn(c)
    PROVE  Inv'
<1>1. /\ pc[c] = "openWait" /\ next[c] \in Servers
      /\ \/ /\ next[c] = ServerCount
            /\ pc' = [pc EXCEPT ![c] = "open"] /\ next' = [next EXCEPT ![c] = 1]
         \/ /\ next[c] # ServerCount
            /\ pc' = [pc EXCEPT ![c] = "opening"] /\ next' = [next EXCEPT ![c] = next[c] + 1]
      /\ UNCHANGED <<round, stream, sent, wire, streamQ, msgPack, serverVars>>
  BY DEF OpenReturn, Inv, Typed, ClientTypes, serverVars
<1>2. \/ /\ next[c] = ServerCount
         /\ \A d \in Clients : pc'[d] = IF d = c THEN "open" ELSE pc[d]
         /\ \A d \in Clients : next'[d] = IF d = c THEN 1 ELSE next[d]
      \/ /\ next[c] # ServerCount
         /\ \A d \in Clients : pc'[d] = IF d = c THEN "opening" ELSE pc[d]
         /\ \A d \in Clients : next'[d] = IF d = c THEN next[c] + 1 ELSE next[d]
  BY <1>1 DEF Inv, Typed, ClientTypes
<1>3. ClientTypes'
  <2>1. next[c] # ServerCount => next[c] + 1 \in Servers BY <1>1, PoolAssumption DEF Servers
  <2>2. 1 \in Servers BY PoolAssumption DEF Servers
  <2>3. next' \in [Clients -> Servers] BY <1>1, <2>1, <2>2 DEF Inv, Typed, ClientTypes
  <2>4. pc' \in [Clients -> PCs] BY <1>1 DEF Inv, Typed, ClientTypes, PCs
  <2> QED BY <1>1, <2>3, <2>4 DEF Inv, Typed, ClientTypes
<1>4. Sources' BY <1>1 DEF Inv, Sources
<1>5. Calls' BY <1>1, <1>2 DEF Inv, Calls, Synchronizing
<1>6. \A s \in Servers : End(c, s)' = End(c, s)
  BY <1>1, <1>2, PoolAssumption DEF End, OpenSaid, CloseSaid, SyncSaid, Servers
<1>7. OnlyLine(c, 1) BY <1>1, <1>2, <1>6 DEF OnlyLine
<1>8. 1 \in Servers BY PoolAssumption DEF Servers
<1>9. Continues(c, 1) BY <1>1, <1>6, <1>8, Silent
<1> QED BY <1>1, <1>3, <1>4, <1>5, <1>7, <1>8, <1>9, ClientStep

\* bufferedSend, with the message that it puts into the stream
LEMMA DataPoint ==
    ASSUME Inv, NEW c \in Clients, NEW t \in Servers, pc[c] \in {"open", "acquire"}
    PROVE  /\ DataMsg(c, t) \in Messages /\ DataMsg(c, t).src = c
           /\ End(c, t) = [ph |-> "open", n |-> sent[c][t]]
           /\ [ph |-> "open", n |-> sent[c][t] + 1] \in Points
           /\ Says(c, DataMsg(c, t), End(c, t), [ph |-> "open", n |-> sent[c][t] + 1])
<1>1. sent[c][t] \in Nat BY DEF Inv, Typed, ClientTypes
<1>2. DataMsg(c, t) = [src |-> c, tag |-> "Field", n |-> sent[c][t] + 1] BY DEF DataMsg, Msg
<1>3. DataMsg(c, t) \in Messages BY <1>1, <1>2 DEF Messages, Tags
<1>4. End(c, t) = [ph |-> "open", n |-> sent[c][t]]
  BY DEF End, OpenSaid, CloseSaid, SyncSaid
<1>5. [ph |-> "open", n |-> sent[c][t] + 1] \in Points BY <1>1 DEF Points
<1> QED BY <1>1, <1>2, <1>3, <1>4, <1>5 DEF Says

\* bufferedSend into the stream that is open.
LEMMA SendReuseInv ==
    ASSUME Inv, NEW c \in Clients, NEW t \in Servers, SendReuse(c, t),
           UNCHANGED <<streamQ, msgPack, serverVars>>
    PROVE  Inv'
<1> DEFINE k == DataMsg(c, t)
<1>1. /\ pc[c] = "open" /\ sent[c][t] < MaxSent[c][t]
      /\ stream' = [stream EXCEPT ![c][t] = Append(@, k)]
      /\ sent' = [sent EXCEPT ![c][t] = @ + 1]
      /\ UNCHANGED <<pc, next, round, wire>>
  BY DEF SendReuse
<1>2. /\ k \in Messages /\ k.src = c
      /\ End(c, t) = [ph |-> "open", n |-> sent[c][t]]
      /\ [ph |-> "open", n |-> sent[c][t] + 1] \in Points
      /\ Says(c, k, End(c, t), [ph |-> "open", n |-> sent[c][t] + 1])
  BY <1>1, DataPoint
<1> HIDE DEF k
<1>3. \A d \in Clients, s \in Servers :
        /\ stream'[d][s] = IF d = c /\ s = t THEN Append(stream[d][s], k) ELSE stream[d][s]
        /\ sent'[d][s] = IF d = c /\ s = t THEN sent[d][s] + 1 ELSE sent[d][s]
        /\ stream[d][s] \in Seq(Messages)
  BY <1>1 DEF Inv, Typed, ClientTypes
<1>4. ClientTypes'
  <2>1. stream' \in [Clients -> [Servers -> Seq(Messages)]]
    BY <1>1, <1>2 DEF Inv, Typed, ClientTypes
  <2>2. sent' \in [Clients -> [Servers -> Nat]] BY <1>1 DEF Inv, Typed, ClientTypes
  <2> QED BY <1>1, <2>1, <2>2 DEF Inv, Typed, ClientTypes
<1>5. Sources'
  <2>1. ASSUME NEW d \in Clients, NEW s \in Servers, NEW i \in 1 .. Len(stream'[d][s])
        PROVE  stream'[d][s][i].src = d
    <3>1. CASE d = c /\ s = t
      <4>1. stream'[d][s] = Append(stream[d][s], k) BY <1>3, <3>1
      <4>2. CASE i = Len(stream[d][s]) + 1 BY <1>2, <1>3, <3>1, <4>1, <4>2
      <4>3. CASE i # Len(stream[d][s]) + 1
        <5>1. i \in 1 .. Len(stream[d][s]) /\ stream'[d][s][i] = stream[d][s][i]
          BY <1>3, <4>1, <4>3
        <5> QED BY <5>1 DEF Inv, Sources
      <4> QED BY <4>2, <4>3
    <3>2. CASE ~ (d = c /\ s = t) BY <1>3, <3>2 DEF Inv, Sources
    <3> QED BY <3>1, <3>2
  <2>2. \A d \in Clients, s \in Servers : wire'[d][s] = wire[d][s] BY <1>1
  <2> QED BY <1>1, <2>1, <2>2, ClientSources DEF Inv
<1>6. sent[c][t] < MaxSent[c][t] BY <1>1
<1>7. Calls'
  <2>1. \A d \in Clients, s \in Servers : sent'[d][s] <= MaxSent[d][s]
    <3>1. \A d \in Clients, s \in Servers : MaxSent[d][s] \in Nat BY PoolAssumption
    <3>2. \A d \in Clients, s \in Servers : sent[d][s] \in Nat /\ sent[d][s] <= MaxSent[d][s]
      BY DEF Inv, Calls, Typed, ClientTypes
    <3> QED BY <1>3, <1>6, <3>1, <3>2
  <2>2. \A d \in Clients : d # c => sent'[d] = sent[d] BY <1>1 DEF Inv, Typed, ClientTypes
  <2> QED BY <1>1, <1>3, <2>1, <2>2 DEF Inv, Calls, Synchronizing
<1>8. OnlyLine(c, t)
  <2>1. \A s \in Servers \ {t} : End(c, s)' = End(c, s)
    BY <1>1, <1>3 DEF End, OpenSaid, CloseSaid, SyncSaid
  <2> QED BY <1>1, <1>3, <2>1 DEF OnlyLine
<1>9. Continues(c, t)
  <2> SUFFICES ASSUME NEW m, NEW p, NEW r, LineTypes(p, r, wire[c][t], stream[c][t]),
                      Line(c, m, p, r, wire[c][t], stream[c][t], End(c, t))
               PROVE  Line(c, m, p, r, wire'[c][t], stream'[c][t], End(c, t)')
    BY DEF Continues
  <2>1. wire'[c][t] = wire[c][t] /\ stream'[c][t] = Append(stream[c][t], k) BY <1>1, <1>3
  <2>2. End(c, t)' = [ph |-> "open", n |-> sent[c][t] + 1]
    BY <1>1, <1>3 DEF End, OpenSaid, CloseSaid, SyncSaid
  <2>3. Line(c, m, p, r, wire[c][t], Append(stream[c][t], k), [ph |-> "open", n |-> sent[c][t] + 1])
    BY <1>2, LineSay
  <2> QED BY <2>1, <2>2, <2>3
<1> QED BY <1>4, <1>5, <1>7, <1>8, <1>9, ClientStep

\* bufferedSend when the open stream is full: it is posted and the message waits for a buffer.
LEMMA SendReplaceInv ==
    ASSUME Inv, NEW c \in Clients, NEW t \in Servers, SendReplace(c, t),
           UNCHANGED <<streamQ, msgPack, serverVars>>
    PROVE  Inv'
<1>1. /\ pc[c] = "open" /\ sent[c][t] < MaxSent[c][t] /\ stream[c][t] # <<>>
      /\ wire' = [wire EXCEPT ![c][t] = Append(@, stream[c][t])]
      /\ stream' = [stream EXCEPT ![c][t] = <<>>]
      /\ pc' = [pc EXCEPT ![c] = "acquire"]
      /\ next' = [next EXCEPT ![c] = t]
      /\ UNCHANGED <<round, sent>>
  BY DEF SendReplace, Post
<1>2. \A d \in Clients, s \in Servers :
        /\ stream'[d][s] = IF d = c /\ s = t THEN <<>> ELSE stream[d][s]
        /\ wire'[d][s] = IF d = c /\ s = t THEN Append(wire[d][s], stream[d][s]) ELSE wire[d][s]
        /\ stream[d][s] \in Seq(Messages)
  BY <1>1 DEF Inv, Typed, ClientTypes
<1>3. \A d \in Clients : /\ pc'[d] = IF d = c THEN "acquire" ELSE pc[d]
                         /\ next'[d] = IF d = c THEN t ELSE next[d]
  BY <1>1 DEF Inv, Typed, ClientTypes
<1>4. ClientTypes'
  <2>0. <<>> \in Seq(Messages) OBVIOUS
  <2>1. stream' \in [Clients -> [Servers -> Seq(Messages)]]
    BY <1>1, <2>0 DEF Inv, Typed, ClientTypes
  <2>2. wire' \in [Clients -> [Servers -> Seq(Seq(Messages))]]
    BY <1>1, <1>2 DEF Inv, Typed, ClientTypes
  <2>3. pc' \in [Clients -> PCs] /\ next' \in [Clients -> Servers]
    BY <1>1 DEF Inv, Typed, ClientTypes, PCs
  <2> QED BY <1>1, <2>1, <2>2, <2>3 DEF Inv, Typed, ClientTypes
<1>5. OwnBuffer(c, stream[c][t]) BY <1>1 DEF Inv, Sources, OwnBuffer
<1>6. Sources'
  <2>1. \A d \in Clients, s \in Servers : \A i \in 1 .. Len(stream'[d][s]) : stream'[d][s][i].src = d
    BY <1>2 DEF Inv, Sources
  <2>2. \A d \in Clients, s \in Servers :
          \/ wire'[d][s] = wire[d][s]
          \/ \E b \in Seq(Messages) : OwnBuffer(d, b) /\ wire'[d][s] = Append(wire[d][s], b)
    BY <1>2, <1>5
  <2> QED BY <2>1, <2>2, ClientSources DEF Inv
<1>7. Calls' BY <1>1, <1>2, <1>3 DEF Inv, Calls, Synchronizing
<1>8. \A s \in Servers : End(c, s)' = End(c, s)
  BY <1>1, <1>3 DEF End, OpenSaid, CloseSaid, SyncSaid
<1>9. OnlyLine(c, t) BY <1>1, <1>2, <1>3, <1>8 DEF OnlyLine
<1>10. Continues(c, t)
  <2> SUFFICES ASSUME NEW m, NEW p, NEW r, LineTypes(p, r, wire[c][t], stream[c][t]),
                      Line(c, m, p, r, wire[c][t], stream[c][t], End(c, t))
               PROVE  Line(c, m, p, r, wire'[c][t], stream'[c][t], End(c, t)')
    BY DEF Continues
  <2>1. wire'[c][t] = Append(wire[c][t], stream[c][t]) /\ stream'[c][t] = <<>> BY <1>2
  <2>2. Line(c, m, p, r, Append(wire[c][t], stream[c][t]), <<>>, End(c, t)) BY LinePost
  <2> QED BY <1>8, <2>1, <2>2
<1> QED BY <1>4, <1>6, <1>7, <1>9, <1>10, ClientStep

\* bufferedSend into a buffer that was found.
LEMMA SendFirstInv ==
    ASSUME Inv, NEW c \in Clients, NEW t \in Servers, SendFirst(c, t),
           UNCHANGED <<streamQ, msgPack, serverVars>>
    PROVE  Inv'
<1> DEFINE k == DataMsg(c, t)
<1>1. /\ pc[c] \in {"open", "acquire"} /\ (pc[c] = "open" => sent[c][t] < MaxSent[c][t])
      /\ (pc[c] = "acquire" => next[c] = t)
      /\ stream[c][t] = <<>>
      /\ stream' = [stream EXCEPT ![c][t] = <<k>>]
      /\ sent' = [sent EXCEPT ![c][t] = @ + 1]
      /\ pc' = [pc EXCEPT ![c] = "open"]
      /\ next' = [next EXCEPT ![c] = 1]
      /\ UNCHANGED <<round, wire>>
  BY DEF SendFirst
<1>2. /\ k \in Messages /\ k.src = c
      /\ End(c, t) = [ph |-> "open", n |-> sent[c][t]]
      /\ [ph |-> "open", n |-> sent[c][t] + 1] \in Points
      /\ Says(c, k, End(c, t), [ph |-> "open", n |-> sent[c][t] + 1])
  BY <1>1, DataPoint
<1> HIDE DEF k
<1>3. <<k>> \in Seq(Messages) /\ Append(<<>>, k) = <<k>> /\ Len(<<k>>) = 1 /\ <<k>>[1] = k
  BY <1>2
<1>4. \A d \in Clients, s \in Servers :
        /\ stream'[d][s] = IF d = c /\ s = t THEN <<k>> ELSE stream[d][s]
        /\ sent'[d][s] = IF d = c /\ s = t THEN sent[d][s] + 1 ELSE sent[d][s]
  BY <1>1 DEF Inv, Typed, ClientTypes
<1>5. \A d \in Clients : /\ pc'[d] = IF d = c THEN "open" ELSE pc[d]
                         /\ next'[d] = IF d = c THEN 1 ELSE next[d]
  BY <1>1 DEF Inv, Typed, ClientTypes
<1>6. ClientTypes'
  <2>1. stream' \in [Clients -> [Servers -> Seq(Messages)]]
    BY <1>1, <1>3 DEF Inv, Typed, ClientTypes
  <2>2. sent' \in [Clients -> [Servers -> Nat]] BY <1>1 DEF Inv, Typed, ClientTypes
  <2>3. 1 \in Servers BY PoolAssumption DEF Servers
  <2>4. pc' \in [Clients -> PCs] /\ next' \in [Clients -> Servers]
    BY <1>1, <2>3 DEF Inv, Typed, ClientTypes, PCs
  <2> QED BY <1>1, <2>1, <2>2, <2>4 DEF Inv, Typed, ClientTypes
<1>7. Sources'
  <2>1. \A d \in Clients, s \in Servers : \A i \in 1 .. Len(stream'[d][s]) : stream'[d][s][i].src = d
    BY <1>2, <1>3, <1>4 DEF Inv, Sources
  <2>2. \A d \in Clients, s \in Servers : wire'[d][s] = wire[d][s] BY <1>1
  <2> QED BY <2>1, <2>2, ClientSources DEF Inv
<1>8. sent[c][t] < MaxSent[c][t] BY <1>1 DEF Inv, Calls
<1>9. Calls'
  <2>1. \A d \in Clients, s \in Servers : sent'[d][s] <= MaxSent[d][s]
    <3>1. \A d \in Clients, s \in Servers : MaxSent[d][s] \in Nat BY PoolAssumption
    <3>2. \A d \in Clients, s \in Servers : sent[d][s] \in Nat /\ sent[d][s] <= MaxSent[d][s]
      BY DEF Inv, Calls, Typed, ClientTypes
    <3> QED BY <1>4, <1>8, <3>1, <3>2
  <2>2. \A d \in Clients : d # c => sent'[d] = sent[d] BY <1>1 DEF Inv, Typed, ClientTypes
  <2> QED BY <1>1, <1>4, <1>5, <2>1, <2>2 DEF Inv, Calls, Synchronizing
<1>10. OnlyLine(c, t)
  <2>1. \A s \in Servers \ {t} : End(c, s)' = End(c, s)
    BY <1>1, <1>4, <1>5 DEF End, OpenSaid, CloseSaid, SyncSaid
  <2> QED BY <1>1, <1>4, <1>5, <2>1 DEF OnlyLine
<1>11. Continues(c, t)
  <2> SUFFICES ASSUME NEW m, NEW p, NEW r, LineTypes(p, r, wire[c][t], stream[c][t]),
                      Line(c, m, p, r, wire[c][t], stream[c][t], End(c, t))
               PROVE  Line(c, m, p, r, wire'[c][t], stream'[c][t], End(c, t)')
    BY DEF Continues
  <2>1. wire'[c][t] = wire[c][t] /\ stream'[c][t] = Append(stream[c][t], k)
    BY <1>1, <1>3, <1>4
  <2>2. End(c, t)' = [ph |-> "open", n |-> sent[c][t] + 1]
    BY <1>1, <1>4, <1>5 DEF End, OpenSaid, CloseSaid, SyncSaid
  <2>3. Line(c, m, p, r, wire[c][t], Append(stream[c][t], k), [ph |-> "open", n |-> sent[c][t] + 1])
    BY <1>2, LineSay
  <2> QED BY <2>1, <2>2, <2>3
<1> QED BY <1>6, <1>7, <1>9, <1>10, <1>11, ClientStep

\* synchronize or closeConnections begins its loop over the servers.
LEMMA BeginInv ==
    ASSUME Inv, NEW c \in Clients, Begin(c)
    PROVE  Inv'
<1>1. PICK l \in {"Synchronization", "Close"} :
        /\ pc[c] = "open" /\ (l = "Synchronization" => round[c] < Rounds)
        /\ pc' = [pc EXCEPT ![c] = l]
        /\ UNCHANGED <<next, round, stream, sent, wire, streamQ, msgPack, serverVars>>
  BY DEF Begin, serverVars
<1>2. \A d \in Clients : pc'[d] = IF d = c THEN l ELSE pc[d] BY <1>1 DEF Inv, Typed, ClientTypes
<1>3. ClientTypes' BY <1>1 DEF Inv, Typed, ClientTypes, PCs
<1>4. Sources' BY <1>1 DEF Inv, Sources
<1>5. Calls' BY <1>1, <1>2 DEF Inv, Calls, Synchronizing
<1>6. next[c] = 1 /\ next'[c] = 1 BY <1>1 DEF Inv, Calls
<1>7. \A s \in Servers : End(c, s)' = End(c, s)
  BY <1>1, <1>2, <1>6 DEF End, OpenSaid, CloseSaid, SyncSaid, Servers
<1>8. 1 \in Servers BY PoolAssumption DEF Servers
<1>9. OnlyLine(c, 1) BY <1>1, <1>2, <1>7 DEF OnlyLine
<1>10. Continues(c, 1) BY <1>1, <1>7, <1>8, Silent
<1> QED BY <1>1, <1>3, <1>4, <1>5, <1>8, <1>9, <1>10, ClientStep

\* waitAll ends.
LEMMA WaitAllInv ==
    ASSUME Inv, NEW c \in Clients, WaitAll(c)
    PROVE  Inv'
<1>1. PICK l \in {"barrier", "done"} :
        /\ pc[c] = IF l = "barrier" THEN "waitSync" ELSE "waitClose"
        /\ pc' = [pc EXCEPT ![c] = l]
        /\ UNCHANGED <<next, round, stream, sent, wire, streamQ, msgPack, serverVars>>
  BY DEF WaitAll, serverVars, Inv, Typed, ClientTypes
<1>2. \A d \in Clients : pc'[d] = IF d = c THEN l ELSE pc[d] BY <1>1 DEF Inv, Typed, ClientTypes
<1>3. ClientTypes' BY <1>1 DEF Inv, Typed, ClientTypes, PCs
<1>4. Sources' BY <1>1 DEF Inv, Sources
<1>5. Calls' BY <1>1, <1>2 DEF Inv, Calls, Synchronizing
<1>6. \A s \in Servers : End(c, s)' = End(c, s)
  BY <1>1, <1>2 DEF End, OpenSaid, CloseSaid, SyncSaid
<1>7. 1 \in Servers BY PoolAssumption DEF Servers
<1>8. OnlyLine(c, 1) BY <1>1, <1>2, <1>6 DEF OnlyLine
<1>9. Continues(c, 1) BY <1>1, <1>6, <1>7, Silent
<1> QED BY <1>1, <1>3, <1>4, <1>5, <1>7, <1>8, <1>9, ClientStep

\* The loop puts its control message behind the fields and posts the stream.
LEMMA LoopSendInv ==
    ASSUME Inv, NEW c \in Clients, LoopSend(c)
    PROVE  Inv'
<1>0. PICK t \in Servers : t = next[c] BY DEF Inv, Typed, ClientTypes
<1> DEFINE k == Msg(c, pc[c], 0)
           b == Append(stream[c][t], k)
<1>1. /\ pc[c] \in {"Synchronization", "Close"} /\ t \in Servers
      /\ wire' = [wire EXCEPT ![c][t] = Append(@, b)]
      /\ stream' = [stream EXCEPT ![c][t] = <<>>]
      /\ \/ /\ t = ServerCount
            /\ pc' = [pc EXCEPT ![c] = IF pc[c] = "Close" THEN "waitClose" ELSE "waitSync"]
            /\ next' = [next EXCEPT ![c] = 1]
         \/ t # ServerCount /\ pc' = pc /\ next' = [next EXCEPT ![c] = t + 1]
      /\ UNCHANGED <<round, sent, streamQ, msgPack, serverVars>>
  BY <1>0 DEF LoopSend, Post, Inv, Typed, ClientTypes, serverVars
<1>2. k \in Messages /\ k.src = c /\ k.tag = pc[c] BY <1>1 DEF Msg, Messages, Tags
<1>3. b \in Seq(Messages) /\ OwnBuffer(c, b)
  <2>1. stream[c][t] \in Seq(Messages) BY <1>1 DEF Inv, Typed, ClientTypes
  <2>2. \A i \in 1 .. Len(stream[c][t]) : stream[c][t][i].src = c BY <1>1 DEF Inv, Sources
  <2> HIDE DEF k
  <2>3. b \in Seq(Messages) /\ Len(b) = Len(stream[c][t]) + 1 /\ b[Len(b)] = k
        /\ \A i \in 1 .. Len(stream[c][t]) : b[i] = stream[c][t][i]
    BY <1>2, <2>1
  <2> HIDE DEF b
  <2>4. Len(stream[c][t]) \in Nat /\ b # <<>>
    <3>1. Len(stream[c][t]) \in Nat BY <2>1
    <3>2. Len(b) # 0 BY <2>3, <3>1
    <3> QED BY <3>1, <3>2
  <2>5. \A i \in 1 .. Len(b) : b[i].src = c
    <3> TAKE i \in 1 .. Len(b)
    <3>1. CASE i = Len(b) BY <1>2, <2>3, <3>1
    <3>2. CASE i # Len(b)
      <4>1. i \in 1 .. Len(stream[c][t]) BY <2>3, <2>4, <3>2
      <4> QED BY <2>2, <2>3, <4>1
    <3> QED BY <3>1, <3>2
  <2> QED BY <2>3, <2>4, <2>5 DEF OwnBuffer
<1> HIDE DEF k, b
<1>4. \A d \in Clients, s \in Servers :
        /\ stream'[d][s] = IF d = c /\ s = t THEN <<>> ELSE stream[d][s]
        /\ wire'[d][s] = IF d = c /\ s = t THEN Append(wire[d][s], b) ELSE wire[d][s]
  BY <1>1 DEF Inv, Typed, ClientTypes
<1>5. /\ \A d \in Clients \ {c} : pc'[d] = pc[d] /\ next'[d] = next[d]
      /\ \/ /\ t = ServerCount /\ next'[c] = 1
            /\ pc'[c] = IF pc[c] = "Close" THEN "waitClose" ELSE "waitSync"
         \/ t # ServerCount /\ pc'[c] = pc[c] /\ next'[c] = t + 1
  BY <1>1 DEF Inv, Typed, ClientTypes
<1>6. ClientTypes'
  <2>0. <<>> \in Seq(Messages) OBVIOUS
  <2>1. stream' \in [Clients -> [Servers -> Seq(Messages)]]
    BY <1>1, <2>0 DEF Inv, Typed, ClientTypes
  <2>2. wire' \in [Clients -> [Servers -> Seq(Seq(Messages))]]
    BY <1>1, <1>3 DEF Inv, Typed, ClientTypes
  <2>3. 1 \in Servers /\ (t # ServerCount => t + 1 \in Servers)
    BY <1>1, PoolAssumption DEF Servers
  <2>4. next' \in [Clients -> Servers] BY <1>1, <2>3 DEF Inv, Typed, ClientTypes
  <2>5. pc' \in [Clients -> PCs] BY <1>1 DEF Inv, Typed, ClientTypes, PCs
  <2> QED BY <1>1, <2>1, <2>2, <2>4, <2>5 DEF Inv, Typed, ClientTypes
<1>7. Sources'
  <2>1. \A d \in Clients, s \in Servers : \A i \in 1 .. Len(stream'[d][s]) : stream'[d][s][i].src = d
    BY <1>4 DEF Inv, Sources
  <2>2. \A d \in Clients, s \in Servers :
          \/ wire'[d][s] = wire[d][s]
          \/ \E x \in Seq(Messages) : OwnBuffer(d, x) /\ wire'[d][s] = Append(wire[d][s], x)
    BY <1>3, <1>4
  <2> QED BY <1>1, <2>1, <2>2, ClientSources DEF Inv
<1>8. Calls' BY <1>1, <1>4, <1>5 DEF Inv, Calls, Synchronizing
<1>9. OnlyLine(c, t)
  <2>1. ASSUME NEW s \in Servers \ {t} PROVE End(c, s)' = End(c, s)
    <3>1. s \in Nat /\ t \in Nat /\ s # t /\ 1 <= s /\ s <= ServerCount /\ ServerCount \in Nat
      BY <1>1, PoolAssumption DEF Servers
    <3>2. sent'[c][s] = sent[c][s] BY <1>1
    <3>3. OpenSaid(c, s) /\ OpenSaid(c, s)' BY <1>1, <1>5 DEF OpenSaid
    <3>4. CASE t = ServerCount
      <4>1. s < next[c] /\ pc'[c] = IF pc[c] = "Close" THEN "waitClose" ELSE "waitSync"
        BY <1>5, <3>1, <1>0, <3>4
      <4> QED BY <1>1, <3>2, <3>3, <4>1 DEF End, CloseSaid, SyncSaid
    <3>5. CASE t # ServerCount
      <4>1. pc'[c] = pc[c] /\ (s < next[c] <=> s < next'[c]) BY <1>5, <3>1, <1>0, <3>5
      <4> QED BY <1>1, <3>2, <3>3, <4>1 DEF End, CloseSaid, SyncSaid
    <3> QED BY <3>4, <3>5
  <2> QED BY <1>1, <1>4, <1>5, <2>1 DEF OnlyLine
<1>10. Continues(c, t)
  <2> SUFFICES ASSUME NEW m, NEW p, NEW r, LineTypes(p, r, wire[c][t], stream[c][t]),
                      Line(c, m, p, r, wire[c][t], stream[c][t], End(c, t))
               PROVE  Line(c, m, p, r, wire'[c][t], stream'[c][t], End(c, t)')
    BY DEF Continues
  <2>1. stream'[c][t] = <<>> /\ wire'[c][t] = Append(wire[c][t], Append(stream[c][t], k))
    BY <1>1, <1>4 DEF b
  <2>2. /\ End(c, t) = [ph |-> "open", n |-> sent[c][t]]
        /\ End(c, t)' = [ph |-> IF pc[c] = "Close" THEN "closed" ELSE "synced", n |-> sent[c][t]]
    BY <1>0, <1>1, <1>5, PoolAssumption DEF End, OpenSaid, CloseSaid, SyncSaid, Servers
  <2>3. sent[c][t] \in Nat BY <1>1 DEF Inv, Typed, ClientTypes
  <2>4. End(c, t)' \in Points BY <2>2, <2>3 DEF Points
  <2>5. Says(c, k, End(c, t), End(c, t)') BY <1>1, <1>2, <2>2 DEF Says
  <2>6. Line(c, m, p, r, Append(wire[c][t], Append(stream[c][t], k)), <<>>, End(c, t)')
    BY <1>2, <2>4, <2>5, LineControl
  <2> QED BY <2>1, <2>6
<1> QED BY <1>1, <1>6, <1>7, <1>8, <1>9, <1>10, ClientStep

\* The loop posts a stream that is full before it says anything to that server.
LEMMA LoopReplaceInv ==
    ASSUME Inv, NEW c \in Clients, LoopReplace(c)
    PROVE  Inv'
<1>0. PICK t \in Servers : t = next[c] BY DEF Inv, Typed, ClientTypes
<1>1. /\ t \in Servers /\ stream[c][t] # <<>> /\ pc[c] \in {"Synchronization", "Close"}
      /\ wire' = [wire EXCEPT ![c][t] = Append(@, stream[c][t])]
      /\ stream' = [stream EXCEPT ![c][t] = <<>>]
      /\ UNCHANGED <<pc, next, round, sent, streamQ, msgPack, serverVars>>
  BY <1>0 DEF LoopReplace, Post, Inv, Typed, ClientTypes, serverVars
<1>2. \A d \in Clients, s \in Servers :
        /\ stream'[d][s] = IF d = c /\ s = t THEN <<>> ELSE stream[d][s]
        /\ wire'[d][s] = IF d = c /\ s = t THEN Append(wire[d][s], stream[d][s]) ELSE wire[d][s]
        /\ stream[d][s] \in Seq(Messages)
  BY <1>1 DEF Inv, Typed, ClientTypes
<1>3. ClientTypes'
  <2>0. <<>> \in Seq(Messages) OBVIOUS
  <2>1. stream' \in [Clients -> [Servers -> Seq(Messages)]]
    BY <1>1, <2>0 DEF Inv, Typed, ClientTypes
  <2>2. wire' \in [Clients -> [Servers -> Seq(Seq(Messages))]]
    BY <1>1, <1>2 DEF Inv, Typed, ClientTypes
  <2> QED BY <1>1, <2>1, <2>2 DEF Inv, Typed, ClientTypes
<1>4. OwnBuffer(c, stream[c][t]) BY <1>1 DEF Inv, Sources, OwnBuffer
<1>5. Sources'
  <2>1. \A d \in Clients, s \in Servers : \A i \in 1 .. Len(stream'[d][s]) : stream'[d][s][i].src = d
    BY <1>2 DEF Inv, Sources
  <2>2. \A d \in Clients, s \in Servers :
          \/ wire'[d][s] = wire[d][s]
          \/ \E x \in Seq(Messages) : OwnBuffer(d, x) /\ wire'[d][s] = Append(wire[d][s], x)
    BY <1>2, <1>4
  <2> QED BY <1>1, <2>1, <2>2, ClientSources DEF Inv
<1>6. Calls'
  <2>1. \A d \in Clients : pc'[d] = pc[d] /\ next'[d] = next[d] /\ round'[d] = round[d] /\ sent'[d] = sent[d]
    BY <1>1
  <2>2. \A d \in Clients : pc[d] \in {"opening", "openWait"} => d # c BY <1>1
  <2> QED BY <1>2, <2>1, <2>2 DEF Inv, Calls, Synchronizing
<1>7. \A s \in Servers : End(c, s)' = End(c, s)
  BY <1>1 DEF End, OpenSaid, CloseSaid, SyncSaid
<1>8. OnlyLine(c, t) BY <1>1, <1>2, <1>7 DEF OnlyLine
<1>9. Continues(c, t)
  <2> SUFFICES ASSUME NEW m, NEW p, NEW r, LineTypes(p, r, wire[c][t], stream[c][t]),
                      Line(c, m, p, r, wire[c][t], stream[c][t], End(c, t))
               PROVE  Line(c, m, p, r, wire'[c][t], stream'[c][t], End(c, t)')
    BY DEF Continues
  <2>1. wire'[c][t] = Append(wire[c][t], stream[c][t]) /\ stream'[c][t] = <<>> BY <1>1, <1>2
  <2>2. Line(c, m, p, r, Append(wire[c][t], stream[c][t]), <<>>, End(c, t)) BY LinePost
  <2>3. End(c, t)' = End(c, t) BY <1>1, <1>7
  <2> QED BY <2>1, <2>2, <2>3
<1> QED BY <1>1, <1>3, <1>5, <1>6, <1>8, <1>9, ClientStep

-----------------------------------------------------------------------------
(* Steps of the servers *)

\* They leave the clients where they are.
LEMMA ClientsSame ==
    ASSUME UNCHANGED clientVars
    PROVE  /\ Calls => Calls'
           /\ \A c \in Clients, s \in Servers : End(c, s)' = End(c, s)
<1>1. UNCHANGED <<pc, next, round, stream, sent>> BY DEF clientVars
<1>2. Calls => Calls' BY <1>1 DEF Calls, Synchronizing
<1>3. \A c \in Clients, s \in Servers : End(c, s)' = End(c, s)
  BY <1>1 DEF End, OpenSaid, CloseSaid, SyncSaid
<1> QED BY <1>2, <1>3

\* listen() receives a buffer: it moves from the wire to the queue.
LEMMA ListenInv ==
    ASSUME Inv, NEW c \in Clients, NEW s \in Servers, Listen(c, s)
    PROVE  Inv'
<1> DEFINE b == Head(wire[c][s])
<1>1. /\ wire[c][s] # <<>>
      /\ streamQ' = [streamQ EXCEPT ![s] = Append(@, b)]
      /\ wire' = [wire EXCEPT ![c][s] = Tail(@)]
      /\ UNCHANGED <<clientVars, msgPack, serverVars>>
  BY DEF Listen, serverVars
<1>2. wire[c][s] \in Seq(Seq(Messages)) /\ streamQ[s] \in Seq(Seq(Messages))
  BY DEF Inv, Typed, ClientTypes, QueueTypes
<1>3. b \in Seq(Messages) /\ b = wire[c][s][1] /\ 1 \in 1 .. Len(wire[c][s]) BY <1>1, <1>2
<1>4. OwnBuffer(c, b) BY <1>3 DEF Inv, Sources
<1>5. /\ Tail(wire[c][s]) \in Seq(Seq(Messages))
      /\ \A i \in 1 .. Len(Tail(wire[c][s])) : /\ Tail(wire[c][s])[i] = wire[c][s][i + 1]
                                               /\ i + 1 \in 1 .. Len(wire[c][s])
  BY <1>1, <1>2
<1> HIDE DEF b
<1>6. \A d \in Clients, t \in Servers :
        wire'[d][t] = IF d = c /\ t = s THEN Tail(wire[d][t]) ELSE wire[d][t]
  BY <1>1 DEF Inv, Typed, ClientTypes
<1>7. \A t \in Servers : streamQ'[t] = IF t = s THEN Append(streamQ[t], b) ELSE streamQ[t]
  BY <1>1 DEF Inv, Typed, QueueTypes
<1>8. Typed'
  <2>1. wire' \in [Clients -> [Servers -> Seq(Seq(Messages))]]
    BY <1>1, <1>5 DEF Inv, Typed, ClientTypes
  <2>2. streamQ' \in [Servers -> Seq(Seq(Messages))]
    BY <1>1, <1>2, <1>3 DEF Inv, Typed, QueueTypes
  <2>3. ClientTypes' BY <1>1, <2>1 DEF Inv, Typed, ClientTypes, clientVars
  <2>4. QueueTypes' BY <1>1, <2>2 DEF Inv, Typed, QueueTypes, serverVars
  <2>5. ListenTypes' BY <1>1 DEF Inv, Typed, ListenTypes, serverVars, listenVars
  <2> QED BY <2>3, <2>4, <2>5 DEF Typed
<1>9. Sources'
  <2>1. ASSUME NEW d \in Clients, NEW t \in Servers, NEW i \in 1 .. Len(wire'[d][t])
        PROVE  OwnBuffer(d, wire'[d][t][i])
    <3>1. CASE d = c /\ t = s
      <4>1. wire'[d][t] = Tail(wire[c][s]) BY <1>6, <3>1
      <4>2. wire'[d][t][i] = wire[c][s][i + 1] /\ i + 1 \in 1 .. Len(wire[c][s]) BY <1>5, <4>1
      <4> QED BY <3>1, <4>2 DEF Inv, Sources
    <3>2. CASE ~ (d = c /\ t = s) BY <1>6, <3>2 DEF Inv, Sources
    <3> QED BY <3>1, <3>2
  <2>2. ASSUME NEW t \in Servers, NEW i \in 1 .. Len(streamQ'[t]) PROVE streamQ'[t][i] # <<>>
    <3>0. t = s => streamQ'[t] = Append(streamQ[s], b) BY <1>7
    <3>1. CASE t = s /\ i = Len(streamQ[s]) + 1
      <4>1. streamQ'[t][i] = b BY <1>2, <1>3, <3>0, <3>1
      <4> QED BY <1>4, <4>1 DEF OwnBuffer
    <3>2. CASE t = s /\ i # Len(streamQ[s]) + 1
      <4> DEFINE q == Append(streamQ[s], b)
      <4>1. /\ Len(q) = Len(streamQ[s]) + 1 /\ Len(streamQ[s]) \in Nat
            /\ \A j \in 1 .. Len(streamQ[s]) : q[j] = streamQ[s][j]
        BY <1>2, <1>3
      <4> HIDE DEF q
      <4>2. streamQ'[t] = q BY <3>0, <3>2 DEF q
      <4>3. i \in 1 .. Len(streamQ[s]) BY <3>2, <4>1, <4>2
      <4> QED BY <4>1, <4>2, <4>3 DEF Inv, Sources
    <3>3. CASE t # s BY <1>7, <3>3 DEF Inv, Sources
    <3> QED BY <3>1, <3>2, <3>3
  <2>3. UNCHANGED stream BY <1>1 DEF clientVars
  <2> QED BY <2>1, <2>2, <2>3 DEF Inv, Sources
<1>10. PICK main \in Mains : Talk(main) /\ Serving(main) BY DEF Inv
<1>11. Serving(main)' BY <1>1, <1>10, ServingSame
<1>12. Talk(main)'
  <2> SUFFICES ASSUME NEW d \in Clients, NEW t \in Servers
               PROVE  Line(d, main[d][t], msgPack'[t], streamQ'[t], wire'[d][t], stream'[d][t], End(d, t)')
    BY DEF Talk
  <2>1. /\ Line(d, main[d][t], msgPack[t], streamQ[t], wire[d][t], stream[d][t], End(d, t))
        /\ LineTypes(msgPack[t], streamQ[t], wire[d][t], stream[d][t])
    BY <1>10, Lines DEF Inv, Talk
  <2>2. msgPack'[t] = msgPack[t] /\ stream'[d][t] = stream[d][t] /\ End(d, t)' = End(d, t)
    BY <1>1, ClientsSame DEF clientVars
  <2>3. CASE t # s BY <1>6, <1>7, <2>1, <2>2, <2>3
  <2>4. CASE t = s /\ d = c
    <3>1. streamQ'[t] = Append(streamQ[t], Head(wire[d][t])) /\ wire'[d][t] = Tail(wire[d][t])
      BY <1>6, <1>7, <2>4 DEF b
    <3>2. Line(d, main[d][t], msgPack[t], Append(streamQ[t], Head(wire[d][t])), Tail(wire[d][t]),
               stream[d][t], End(d, t))
      BY <1>1, <2>1, <2>4, LineListen
    <3> QED BY <2>2, <3>1, <3>2
  <2>5. CASE t = s /\ d # c
    <3>1. streamQ'[t] = Append(streamQ[t], b) /\ wire'[d][t] = wire[d][t] BY <1>6, <1>7, <2>5
    <3>2. \A i \in 1 .. Len(b) : b[i].src # d BY <1>4, <2>5 DEF OwnBuffer
    <3>3. Line(d, main[d][t], msgPack[t], Append(streamQ[t], b), wire[d][t], stream[d][t], End(d, t))
      BY <1>3, <2>1, <3>2, LineListenOther
    <3> QED BY <2>2, <3>1, <3>3
  <2> QED BY <2>3, <2>4, <2>5
<1>13. Calls' BY <1>1, ClientsSame DEF Inv
<1> QED BY <1>8, <1>9, <1>10, <1>11, <1>12, <1>13 DEF Inv

\* receive() decodes a buffer: it moves from the queue to the pack.
LEMMA DecodeInv ==
    ASSUME Inv, NEW s \in Servers, Decode(s)
    PROVE  Inv'
<1>1. /\ msgPack[s] = <<>> /\ streamQ[s] # <<>>
      /\ msgPack' = [msgPack EXCEPT ![s] = Head(streamQ[s])]
      /\ streamQ' = [streamQ EXCEPT ![s] = Tail(@)]
      /\ UNCHANGED <<clientVars, wire, serverVars>>
  BY DEF Decode, serverVars
<1>2. streamQ[s] \in Seq(Seq(Messages)) BY DEF Inv, Typed, QueueTypes
<1>3. /\ Head(streamQ[s]) \in Seq(Messages) /\ Tail(streamQ[s]) \in Seq(Seq(Messages))
      /\ \A i \in 1 .. Len(Tail(streamQ[s])) : /\ Tail(streamQ[s])[i] = streamQ[s][i + 1]
                                               /\ i + 1 \in 1 .. Len(streamQ[s])
  BY <1>1, <1>2
<1>4. \A t \in Servers : /\ msgPack'[t] = IF t = s THEN Head(streamQ[t]) ELSE msgPack[t]
                         /\ streamQ'[t] = IF t = s THEN Tail(streamQ[t]) ELSE streamQ[t]
  BY <1>1 DEF Inv, Typed, QueueTypes
<1>5. Typed'
  <2>1. streamQ' \in [Servers -> Seq(Seq(Messages))] /\ msgPack' \in [Servers -> Seq(Messages)]
    BY <1>1, <1>3 DEF Inv, Typed, QueueTypes
  <2>2. ClientTypes' BY <1>1 DEF Inv, Typed, ClientTypes, clientVars
  <2>3. QueueTypes' BY <1>1, <2>1 DEF Inv, Typed, QueueTypes, serverVars
  <2>4. ListenTypes' BY <1>1 DEF Inv, Typed, ListenTypes, serverVars, listenVars
  <2> QED BY <2>2, <2>3, <2>4 DEF Typed
<1>6. Sources'
  <2>1. ASSUME NEW t \in Servers, NEW i \in 1 .. Len(streamQ'[t]) PROVE streamQ'[t][i] # <<>>
    <3>1. CASE t = s
      <4>1. streamQ'[t] = Tail(streamQ[s]) BY <1>4, <3>1
      <4>2. streamQ'[t][i] = streamQ[s][i + 1] /\ i + 1 \in 1 .. Len(streamQ[s]) BY <1>3, <4>1
      <4> QED BY <4>2 DEF Inv, Sources
    <3>2. CASE t # s BY <1>4, <3>2 DEF Inv, Sources
    <3> QED BY <3>1, <3>2
  <2>2. UNCHANGED <<stream, wire>> BY <1>1 DEF clientVars
  <2> QED BY <2>1, <2>2 DEF Inv, Sources
<1>7. PICK main \in Mains : Talk(main) /\ Serving(main) BY DEF Inv
<1>8. Serving(main)' BY <1>1, <1>7, ServingSame
<1>9. Talk(main)'
  <2> SUFFICES ASSUME NEW d \in Clients, NEW t \in Servers
               PROVE  Line(d, main[d][t], msgPack'[t], streamQ'[t], wire'[d][t], stream'[d][t], End(d, t)')
    BY DEF Talk
  <2>1. /\ Line(d, main[d][t], msgPack[t], streamQ[t], wire[d][t], stream[d][t], End(d, t))
        /\ LineTypes(msgPack[t], streamQ[t], wire[d][t], stream[d][t])
    BY <1>7, Lines DEF Inv, Talk
  <2>2. wire'[d][t] = wire[d][t] /\ stream'[d][t] = stream[d][t] /\ End(d, t)' = End(d, t)
    BY <1>1, ClientsSame DEF clientVars
  <2>3. CASE t # s BY <1>4, <2>1, <2>2, <2>3
  <2>4. CASE t = s
    <3>1. Line(d, main[d][t], Head(streamQ[t]), Tail(streamQ[t]), wire[d][t], stream[d][t], End(d, t))
      BY <1>1, <2>1, <2>4, LineDecode
    <3> QED BY <1>4, <2>2, <2>4, <3>1
  <2> QED BY <2>3, <2>4
<1>10. Calls' BY <1>1, ClientsSame DEF Inv
<1> QED BY <1>5, <1>6, <1>7, <1>8, <1>9, <1>10 DEF Inv

\* The main thread of s takes the next message: that of a client whose conversation
\* it continues, and the other conversations stay where they are.
LEMMA HandleTalk ==
    ASSUME Typed, NEW main \in Mains, Talk(main), NEW s \in Servers, msgPack[s] # <<>>,
           msgPack' = [msgPack EXCEPT ![s] = Tail(@)], UNCHANGED <<clientVars, wire, streamQ>>
    PROVE  /\ Head(msgPack[s]) \in Messages
           /\ \E c \in Clients, other \in Mains :
                 /\ Head(msgPack[s]).src = c
                 /\ Says(c, Head(msgPack[s]), main[c][s], other[c][s])
                 /\ \A e \in Clients, t \in Servers : ~ (e = c /\ t = s) => other[e][t] = main[e][t]
                 /\ Talk(other)'
<1>1. msgPack[s] \in Seq(Messages) BY DEF Typed, QueueTypes
<1>2. Head(msgPack[s]) \in Messages BY <1>1
<1>3. PICK m \in Messages : m = Head(msgPack[s]) BY <1>2
<1>4. PICK c \in Clients : c = m.src BY <1>3 DEF Messages
<1>5. \A e \in Clients, t \in Servers :
        /\ Line(e, main[e][t], msgPack[t], streamQ[t], wire[e][t], stream[e][t], End(e, t))
        /\ LineTypes(msgPack[t], streamQ[t], wire[e][t], stream[e][t])
  BY Lines DEF Talk
<1>6. \A e \in Clients : \E d \in Points :
        /\ Says(e, m, main[e][s], d)
        /\ Line(e, d, Tail(msgPack[s]), streamQ[s], wire[e][s], stream[e][s], End(e, s))
  BY <1>3, <1>5, LineHandle
<1>7. PICK d \in Points :
        /\ Says(c, m, main[c][s], d)
        /\ Line(c, d, Tail(msgPack[s]), streamQ[s], wire[c][s], stream[c][s], End(c, s))
  BY <1>6
<1> DEFINE other == [e \in Clients |-> [t \in Servers |-> IF e = c /\ t = s THEN d ELSE main[e][t]]]
<1>8. other \in Mains BY DEF Mains
<1>9. /\ other[c][s] = d
      /\ \A e \in Clients, t \in Servers : ~ (e = c /\ t = s) => other[e][t] = main[e][t]
  OBVIOUS
<1> HIDE DEF other
<1>10. ASSUME NEW e \in Clients, NEW t \in Servers
       PROVE  Line(e, other[e][t], msgPack'[t], streamQ'[t], wire'[e][t], stream'[e][t], End(e, t)')
  <2>1. /\ streamQ'[t] = streamQ[t] /\ wire'[e][t] = wire[e][t] /\ stream'[e][t] = stream[e][t]
        /\ End(e, t)' = End(e, t)
    BY ClientsSame DEF clientVars
  <2>2. msgPack'[t] = IF t = s THEN Tail(msgPack[t]) ELSE msgPack[t] BY DEF Typed, QueueTypes
  <2>3. CASE t # s BY <1>5, <1>9, <2>1, <2>2, <2>3
  <2>4. CASE t = s /\ e = c BY <1>7, <1>9, <2>1, <2>2, <2>4
  <2>5. CASE t = s /\ e # c
    <3>1. PICK f \in Points :
            /\ Says(e, m, main[e][s], f)
            /\ Line(e, f, Tail(msgPack[s]), streamQ[s], wire[e][s], stream[e][s], End(e, s))
      BY <1>6
    <3>2. f = main[e][s] BY <1>4, <2>5, <3>1 DEF Says
    <3> QED BY <1>9, <2>1, <2>2, <2>5, <3>1, <3>2
  <2> QED BY <2>3, <2>4, <2>5
<1>11. Talk(other)' BY <1>10 DEF Talk
<1> QED BY <1>2, <1>3, <1>4, <1>7, <1>8, <1>9, <1>11

HandleAny(s, m) == HandleOpen(s, m) \/ HandleClose(s, m) \/ HandleSync(s, m) \/ HandleData(s, m)

\* Every message keeps the types of the listener.
LEMMA HandleTypes ==
    ASSUME Typed, NEW s \in Servers, NEW m \in Messages, HandleAny(s, m),
           UNCHANGED <<dispatcher, handled>>
    PROVE  /\ ListenTypes' /\ msgQ' \in [Servers -> Seq(Messages)]
           /\ \A t \in Servers \ {s} : SameAt(t)
<1> USE DEF HandleAny, HandleOpen, HandleClose, HandleSync, HandleData, HandleUnknown, LoopEnd,
            MoreConnections
<1>0. ListenTypes /\ QueueTypes BY DEF Typed
<1>1. m.src \in Clients BY DEF Messages
<1>2. msgQ' \in [Servers -> Seq(Messages)]
  <2>1. msgQ' = msgQ \/ msgQ' = [msgQ EXCEPT ![s] = Append(@, m)] OBVIOUS
  <2>2. Append(msgQ[s], m) \in Seq(Messages) BY <1>0 DEF QueueTypes
  <2> QED BY <1>0, <2>1, <2>2 DEF QueueTypes
<1>3. connections' \in [Servers -> SUBSET Clients] /\ opened' \in [Servers -> Nat]
  BY <1>0, <1>1 DEF ListenTypes
<1>4. syncCount' \in [Servers -> Nat] BY <1>0 DEF ListenTypes
<1>5. \E b \in BOOLEAN : running' = [running EXCEPT ![s] = b] OBVIOUS
<1>6. failed' = failed \/ \E b \in BOOLEAN : failed' = [failed EXCEPT ![s] = b] OBVIOUS
<1>7. queueClosed' = queueClosed \/ \E b \in BOOLEAN : queueClosed' = [queueClosed EXCEPT ![s] = b]
  OBVIOUS
<1>8. /\ running' \in [Servers -> BOOLEAN] /\ failed' \in [Servers -> BOOLEAN]
      /\ queueClosed' \in [Servers -> BOOLEAN]
  BY <1>0, <1>5, <1>6, <1>7 DEF ListenTypes
<1>9. ASSUME NEW t \in Servers \ {s} PROVE SameAt(t)
  <2>1. msgQ'[t] = msgQ[t] BY <1>0 DEF QueueTypes
  <2>2. connections'[t] = connections[t] /\ opened'[t] = opened[t] /\ syncCount'[t] = syncCount[t]
    BY <1>0 DEF ListenTypes
  <2>3. running'[t] = running[t] /\ failed'[t] = failed[t] /\ queueClosed'[t] = queueClosed[t]
    BY <1>0, <1>5, <1>6, <1>7 DEF ListenTypes
  <2> QED BY <2>1, <2>2, <2>3 DEF SameAt
<1> QED BY <1>2, <1>3, <1>4, <1>8, <1>9 DEF ListenTypes

\* The main thread of s takes message m of client c.
Takes(main, other, s, c, m) ==
    /\ ServingAt(main, s) /\ running[s] /\ main \in Mains /\ other \in Mains
    /\ c \in Clients /\ m \in Messages /\ m.src = c
    /\ Says(c, m, main[c][s], other[c][s])
    /\ \A e \in Clients \ {c} : other[e][s] = main[e][s]
    /\ UNCHANGED <<dispatcher, handled>>

\* Before a message is taken: the dispatcher has not ended, and while client c has not
\* synchronized the queue holds fields only.
LEMMA TakesFacts ==
    ASSUME Typed, NEW main, NEW other, NEW s \in Servers, NEW c, NEW m, Takes(main, other, s, c, m)
    PROVE  /\ ~ queueClosed[s] /\ dispatcher[s] # "ended" /\ ~ failed[s]
           /\ main[c][s] \in Points /\ other[c][s] \in Points
           /\ main[c][s].ph # "synced" =>
                 /\ Synced(main, s) # Clients /\ syncCount[s] = Cardinality(Synced(main, s))
                 /\ dispatcher[s] = "handling"
                 /\ \A i \in 1 .. Len(msgQ[s]) : msgQ[s][i].tag = "Field"
<1>1. ~ queueClosed[s] /\ dispatcher[s] # "ended" /\ ~ failed[s]
  BY DEF Takes, ServingAt, Connected
<1>2. main[c][s] \in Points /\ other[c][s] \in Points BY DEF Takes, Mains
<1>3. dispatcher[s] \in {"handling", "barrier", "ended"} BY DEF Typed, QueueTypes
<1>4. ASSUME main[c][s].ph # "synced"
      PROVE  /\ Synced(main, s) # Clients /\ syncCount[s] = Cardinality(Synced(main, s))
             /\ dispatcher[s] = "handling"
             /\ \A i \in 1 .. Len(msgQ[s]) : msgQ[s][i].tag = "Field"
  <2>1. c \notin Synced(main, s) /\ c \in Clients BY <1>4 DEF Synced, Takes
  <2>2. Synced(main, s) # Clients BY <2>1
  <2>3. InSync(main, s) BY DEF Takes, ServingAt
  <2> QED BY <1>1, <1>3, <2>2, <2>3 DEF InSync
<1> QED BY <1>1, <1>2, <1>4

\* An Open connects its client, which had not opened before.
LEMMA HandleOpenServing ==
    ASSUME Typed, NEW main, NEW other, NEW s \in Servers, NEW c, NEW m, Takes(main, other, s, c, m),
           HandleOpen(s, m)
    PROVE  ServingAt(other, s)'
<1>1. c \in Clients /\ IsFiniteSet(Clients) BY PoolAssumption DEF Takes
<1>2. m.src = c /\ m.tag = "Open" /\ Says(c, m, main[c][s], other[c][s]) BY DEF Takes, HandleOpen
<1>3. main[c][s].ph = "new" /\ other[c][s] = [ph |-> "open", n |-> main[c][s].n] BY <1>2 DEF Says
<1>4. \A e \in Clients : e # c => other[e][s] = main[e][s] BY DEF Takes
<1>5. /\ connections'[s] = connections[s] \cup {c} /\ opened'[s] = opened[s] + 1
      /\ syncCount'[s] = syncCount[s] /\ failed'[s] = failed[s] /\ msgQ'[s] = msgQ[s]
      /\ dispatcher'[s] = dispatcher[s] /\ handled' = handled
  BY <1>2 DEF HandleOpen, Takes, Typed, ListenTypes, QueueTypes
<1>6. running'[s] /\ ~ queueClosed'[s]
  <2>1. connections'[s] # {} BY <1>5
  <2> QED BY <2>1 DEF HandleOpen, LoopEnd, MoreConnections, Typed, ListenTypes
<1>7. Synced(other, s)' = Synced(main, s) BY <1>3, <1>4 DEF Synced
<1>8. Connected(other, s)'
  <2> DEFINE S == {e \in Clients : main[e][s].ph # "new"}
  <2>1. /\ connections[s] = {e \in Clients : main[e][s].ph \in {"open", "synced"}}
        /\ opened[s] = Cardinality(S) /\ ~ failed[s]
    BY DEF Takes, ServingAt, Connected
  <2>2. {e \in Clients : other[e][s].ph \in {"open", "synced"}} = connections[s] \cup {c}
    BY <1>1, <1>3, <1>4, <2>1
  <2>3. {e \in Clients : other[e][s].ph # "new"} = S \cup {c} /\ c \notin S BY <1>1, <1>3, <1>4
  <2>4. IsFiniteSet(S) BY <1>1, FS_Subset
  <2> HIDE DEF S
  <2>5. Cardinality(S \cup {c}) = Cardinality(S) + 1 BY <2>3, <2>4, FS_AddElement
  <2> QED BY <1>5, <1>6, <2>1, <2>2, <2>3, <2>5 DEF Connected
<1>9. InSync(other, s)' BY <1>3, <1>5, <1>7, TakesFacts DEF InSync
<1>10. ASSUME NEW e \in Clients PROVE Queued(other, e, s)'
  <2>1. Queued(main, e, s) BY DEF Takes, ServingAt
  <2>2. other[e][s].n = main[e][s].n BY <1>3, <1>4
  <2> QED BY <1>5, <1>7, <2>1, <2>2 DEF Queued
<1>11. dispatcher'[s] # "ended" BY <1>5, TakesFacts
<1> QED BY <1>8, <1>9, <1>10, <1>11 DEF ServingAt

\* A Close disconnects its client, which was connected.
LEMMA HandleCloseServing ==
    ASSUME Typed, NEW main, NEW other, NEW s \in Servers, NEW c, NEW m, Takes(main, other, s, c, m),
           HandleClose(s, m)
    PROVE  ServingAt(other, s)'
<1>1. c \in Clients BY DEF Takes
<1>2. m.src = c /\ m.tag = "Close" /\ Says(c, m, main[c][s], other[c][s]) BY DEF Takes, HandleClose
<1>3. main[c][s].ph = "open" /\ other[c][s] = [ph |-> "closed", n |-> main[c][s].n] BY <1>2 DEF Says
<1>4. \A e \in Clients : e # c => other[e][s] = main[e][s] BY DEF Takes
<1>5. /\ connections[s] = {e \in Clients : main[e][s].ph \in {"open", "synced"}}
      /\ opened[s] = Cardinality({e \in Clients : main[e][s].ph # "new"})
  BY DEF Takes, ServingAt, Connected
<1>6. c \in connections[s] BY <1>1, <1>3, <1>5
<1>7. /\ connections'[s] = connections[s] \ {c} /\ opened'[s] = opened[s]
      /\ syncCount'[s] = syncCount[s] /\ ~ failed'[s] /\ msgQ'[s] = msgQ[s]
      /\ dispatcher'[s] = dispatcher[s] /\ handled' = handled
  BY <1>2, <1>6 DEF HandleClose, Takes, Typed, ListenTypes, QueueTypes
<1>8. /\ queueClosed'[s] <=> connections'[s] = {} /\ opened'[s] = Cardinality(Clients)
      /\ running'[s] <=> ~ queueClosed'[s]
  BY DEF HandleClose, LoopEnd, MoreConnections, Typed, ListenTypes
<1>9. Synced(other, s)' = Synced(main, s) BY <1>3, <1>4 DEF Synced
<1>10. Connected(other, s)'
  <2>1. {e \in Clients : other[e][s].ph \in {"open", "synced"}} = connections[s] \ {c}
    BY <1>1, <1>3, <1>4, <1>5
  <2>2. {e \in Clients : other[e][s].ph # "new"} = {e \in Clients : main[e][s].ph # "new"}
    BY <1>3, <1>4
  <2> QED BY <1>5, <1>7, <1>8, <2>1, <2>2 DEF Connected
<1>11. InSync(other, s)' BY <1>3, <1>7, <1>9, TakesFacts DEF InSync
<1>12. ASSUME NEW e \in Clients PROVE Queued(other, e, s)'
  <2>1. Queued(main, e, s) BY DEF Takes, ServingAt
  <2>2. other[e][s].n = main[e][s].n BY <1>3, <1>4
  <2> QED BY <1>7, <1>9, <2>1, <2>2 DEF Queued
<1>13. dispatcher'[s] # "ended" BY <1>7, TakesFacts
<1> QED BY <1>10, <1>11, <1>12, <1>13 DEF ServingAt

\* A Synchronization is counted; the last one goes on to the dispatcher.
LEMMA HandleSyncServing ==
    ASSUME Typed, NEW main, NEW other, NEW s \in Servers, NEW c, NEW m, Takes(main, other, s, c, m),
           HandleSync(s, m)
    PROVE  ServingAt(other, s)'
<1>1. c \in Clients /\ m \in Messages /\ IsFiniteSet(Clients) BY PoolAssumption DEF Takes
<1>2. m.src = c /\ m.tag = "Synchronization" /\ Says(c, m, main[c][s], other[c][s])
  BY DEF Takes, HandleSync
<1>3. main[c][s].ph = "open" /\ other[c][s] = [ph |-> "synced", n |-> main[c][s].n] BY <1>2 DEF Says
<1>4. \A e \in Clients : e # c => other[e][s] = main[e][s] BY DEF Takes
<1>5. /\ connections[s] = {e \in Clients : main[e][s].ph \in {"open", "synced"}}
      /\ opened[s] = Cardinality({e \in Clients : main[e][s].ph # "new"})
  BY DEF Takes, ServingAt, Connected
<1>6. c \in connections[s] BY <1>1, <1>3, <1>5
<1>7. /\ ~ queueClosed[s] /\ ~ failed[s] /\ dispatcher[s] = "handling"
      /\ Synced(main, s) # Clients /\ syncCount[s] = Cardinality(Synced(main, s))
      /\ \A i \in 1 .. Len(msgQ[s]) : msgQ[s][i].tag = "Field"
  BY <1>3, TakesFacts
<1>8. /\ connections'[s] = connections[s] /\ opened'[s] = opened[s] /\ failed'[s] = failed[s]
      /\ dispatcher'[s] = dispatcher[s] /\ handled' = handled
      /\ running'[s] /\ ~ queueClosed'[s]
  BY <1>2, <1>6 DEF HandleSync, LoopEnd, MoreConnections, Takes, Typed, ListenTypes, QueueTypes
<1>9. Synced(other, s)' = Synced(main, s) \cup {c} BY <1>1, <1>3, <1>4 DEF Synced
<1>10. /\ c \notin Synced(main, s) /\ IsFiniteSet(Synced(main, s))
       /\ Synced(main, s) \cup {c} \subseteq Clients
  BY <1>1, <1>3, FS_Subset DEF Synced
<1>11. /\ Cardinality(Synced(main, s) \cup {c}) = syncCount[s] + 1
       /\ Synced(main, s) \cup {c} = Clients <=> syncCount[s] + 1 = Cardinality(Clients)
  BY <1>1, <1>7, <1>10, FS_AddElement, FS_Subset
<1>12. Connected(other, s)'
  <2>1. {e \in Clients : other[e][s].ph \in {"open", "synced"}} = connections[s]
    BY <1>1, <1>3, <1>4, <1>5
  <2>2. {e \in Clients : other[e][s].ph # "new"} = {e \in Clients : main[e][s].ph # "new"}
    BY <1>3, <1>4
  <2> QED BY <1>5, <1>7, <1>8, <2>1, <2>2 DEF Connected
<1>13. \A e \in Clients : Queued(main, e, s) /\ other[e][s].n = main[e][s].n
  BY <1>3, <1>4 DEF Takes, ServingAt
<1>14. msgQ[s] \in Seq(Messages) BY DEF Typed, QueueTypes
<1>15. CASE syncCount[s] + 1 = Cardinality(Clients)
  <2> DEFINE q == Append(msgQ[s], m)
  <2>1. msgQ'[s] = q /\ syncCount'[s] = 0
    BY <1>2, <1>6, <1>15 DEF HandleSync, Typed, ListenTypes, QueueTypes
  <2>2. /\ Len(q) = Len(msgQ[s]) + 1 /\ Len(msgQ[s]) \in Nat /\ q[Len(q)] = m
        /\ \A i \in 1 .. Len(msgQ[s]) : q[i] = msgQ[s][i]
    BY <1>1, <1>14
  <2>3. q \in Seq(Messages) BY <1>1, <1>14
  <2>4. Synced(other, s)' = Clients BY <1>9, <1>11, <1>15
  <2>5. ASSUME NEW e \in Clients PROVE Queued(other, e, s)'
    <3>1. PICK y \in Points : /\ Path(msgQ[s], e, [ph |-> "open", n |-> handled[e][s]], y)
                              /\ y.n = main[e][s].n /\ y.ph = "open"
      BY <1>7, <1>13 DEF Queued
    <3> DEFINE z == IF e = c THEN [ph |-> "synced", n |-> y.n] ELSE y
    <3>2. z \in Points /\ z.n = y.n BY DEF Points
    <3>3. Says(e, m, y, z) BY <1>2, <3>1 DEF Says
    <3> HIDE DEF z
    <3>4. Path(q, e, [ph |-> "open", n |-> handled[e][s]], z)
      BY <1>1, <1>14, <3>1, <3>2, <3>3, PathAppend
    <3> QED BY <1>8, <1>13, <2>1, <2>4, <3>1, <3>2, <3>4 DEF Queued
  <2> HIDE DEF q
  <2>6. \A i \in 1 .. Len(q) : q[i].tag = IF i = Len(q) THEN "Synchronization" ELSE "Field"
    <3> TAKE i \in 1 .. Len(q)
    <3>1. CASE i = Len(q) BY <1>2, <2>2, <3>1
    <3>2. CASE i # Len(q)
      <4>1. i \in 1 .. Len(msgQ[s]) BY <2>2, <3>2
      <4> QED BY <1>7, <2>2, <3>2, <4>1
    <3> QED BY <3>1, <3>2
  <2>7. q # <<>>
    <3>1. Len(q) # 0 BY <2>2
    <3> QED BY <3>1
  <2>8. InSync(other, s)' BY <1>7, <1>8, <2>1, <2>4, <2>6, <2>7 DEF InSync
  <2> QED BY <1>7, <1>8, <1>12, <2>5, <2>8 DEF ServingAt
<1>16. CASE syncCount[s] + 1 # Cardinality(Clients)
  <2>1. msgQ'[s] = msgQ[s] /\ syncCount'[s] = syncCount[s] + 1
    BY <1>2, <1>6, <1>16 DEF HandleSync, Typed, ListenTypes, QueueTypes
  <2>2. Synced(other, s)' # Clients /\ syncCount'[s] = Cardinality(Synced(other, s)')
    BY <1>9, <1>11, <1>16, <2>1
  <2>3. InSync(other, s)' BY <1>7, <1>8, <2>1, <2>2 DEF InSync
  <2>4. \A e \in Clients : Queued(other, e, s)' BY <1>7, <1>8, <1>13, <2>1 DEF Queued
  <2> QED BY <1>7, <1>8, <1>12, <2>3, <2>4 DEF ServingAt
<1> QED BY <1>15, <1>16

\* A field goes to the dispatcher.
LEMMA HandleDataServing ==
    ASSUME Typed, NEW main, NEW other, NEW s \in Servers, NEW c, NEW m, Takes(main, other, s, c, m),
           HandleData(s, m)
    PROVE  ServingAt(other, s)'
<1>1. c \in Clients /\ m \in Messages BY DEF Takes
<1>2. m.src = c /\ m.tag = "Field" /\ Says(c, m, main[c][s], other[c][s]) BY DEF Takes, HandleData
<1>3. /\ main[c][s].ph = "open" /\ m.n = main[c][s].n + 1
      /\ other[c][s] = [ph |-> "open", n |-> main[c][s].n + 1]
  BY <1>2 DEF Says
<1>4. \A e \in Clients : e # c => other[e][s] = main[e][s] BY DEF Takes
<1>5. /\ connections[s] = {e \in Clients : main[e][s].ph \in {"open", "synced"}}
      /\ opened[s] = Cardinality({e \in Clients : main[e][s].ph # "new"})
  BY DEF Takes, ServingAt, Connected
<1>6. c \in connections[s] BY <1>1, <1>3, <1>5
<1>7. /\ ~ queueClosed[s] /\ ~ failed[s] /\ dispatcher[s] = "handling"
      /\ Synced(main, s) # Clients /\ syncCount[s] = Cardinality(Synced(main, s))
      /\ \A i \in 1 .. Len(msgQ[s]) : msgQ[s][i].tag = "Field"
  BY <1>3, TakesFacts
<1>8. /\ connections'[s] = connections[s] /\ opened'[s] = opened[s] /\ failed'[s] = failed[s]
      /\ dispatcher'[s] = dispatcher[s] /\ handled' = handled /\ syncCount'[s] = syncCount[s]
      /\ running'[s] /\ ~ queueClosed'[s] /\ msgQ'[s] = Append(msgQ[s], m)
  BY <1>2, <1>6 DEF HandleData, LoopEnd, MoreConnections, Takes, Typed, ListenTypes, QueueTypes
<1>9. Synced(other, s)' = Synced(main, s) BY <1>3, <1>4 DEF Synced
<1>10. Connected(other, s)'
  <2>1. {e \in Clients : other[e][s].ph \in {"open", "synced"}} = connections[s]
    BY <1>1, <1>3, <1>4, <1>5
  <2>2. {e \in Clients : other[e][s].ph # "new"} = {e \in Clients : main[e][s].ph # "new"}
    BY <1>3, <1>4
  <2> QED BY <1>5, <1>7, <1>8, <2>1, <2>2 DEF Connected
<1>11. msgQ[s] \in Seq(Messages) BY DEF Typed, QueueTypes
<1> DEFINE q == Append(msgQ[s], m)
<1>12. /\ Len(q) = Len(msgQ[s]) + 1 /\ Len(msgQ[s]) \in Nat /\ q[Len(q)] = m
       /\ \A i \in 1 .. Len(msgQ[s]) : q[i] = msgQ[s][i]
  BY <1>1, <1>11
<1>13. ASSUME NEW e \in Clients PROVE Queued(other, e, s)'
  <2>1. PICK y \in Points : /\ Path(msgQ[s], e, [ph |-> "open", n |-> handled[e][s]], y)
                            /\ y.n = main[e][s].n /\ y.ph = "open"
    BY <1>7 DEF Queued, Takes, ServingAt
  <2> DEFINE z == IF e = c THEN [ph |-> "open", n |-> y.n + 1] ELSE y
  <2>2. z \in Points /\ z.ph = "open" BY <2>1 DEF Points
  <2>3. Says(e, m, y, z) BY <1>2, <1>3, <2>1 DEF Says
  <2>4. z.n = other[e][s].n BY <1>3, <1>4, <2>1
  <2> HIDE DEF z
  <2>5. Path(q, e, [ph |-> "open", n |-> handled[e][s]], z)
    BY <1>1, <1>11, <2>1, <2>2, <2>3, PathAppend
  <2> HIDE DEF q
  <2> QED BY <1>8, <2>2, <2>4, <2>5 DEF Queued, q
<1> HIDE DEF q
<1>14. \A i \in 1 .. Len(q) : q[i].tag = "Field"
  <2> TAKE i \in 1 .. Len(q)
  <2>1. CASE i = Len(q) BY <1>2, <1>12, <2>1
  <2>2. CASE i # Len(q)
    <3>1. i \in 1 .. Len(msgQ[s]) BY <1>12, <2>2
    <3> QED BY <1>7, <1>12, <2>2, <3>1
  <2> QED BY <2>1, <2>2
<1>15. InSync(other, s)' BY <1>7, <1>8, <1>9, <1>14 DEF InSync, q
<1> QED BY <1>7, <1>8, <1>10, <1>13, <1>15 DEF ServingAt

\* Listener::start handles one message: the conversation of its source goes on by one, the others stay.
LEMMA HandleInv ==
    ASSUME Inv, NEW s \in Servers, Handle(s)
    PROVE  Inv'
<1>1. /\ running[s] /\ msgPack[s] # <<>> /\ HandleAny(s, Head(msgPack[s]))
      /\ msgPack' = [msgPack EXCEPT ![s] = Tail(@)]
      /\ UNCHANGED <<clientVars, wire, streamQ, dispatcher, handled>>
  BY DEF Handle, HandleAny
<1>2. PICK main \in Mains : Talk(main) /\ Serving(main) BY DEF Inv
<1>3. Typed BY DEF Inv
<1>4. PICK m \in Messages : m = Head(msgPack[s]) BY <1>1, <1>2, <1>3, HandleTalk
<1>5. PICK c \in Clients, other \in Mains :
        /\ m.src = c /\ Says(c, m, main[c][s], other[c][s])
        /\ \A e \in Clients, t \in Servers : ~ (e = c /\ t = s) => other[e][t] = main[e][t]
        /\ Talk(other)'
  BY <1>1, <1>2, <1>3, <1>4, HandleTalk
<1>6. HandleAny(s, m) BY <1>1, <1>4
<1>7. /\ ListenTypes' /\ msgQ' \in [Servers -> Seq(Messages)]
      /\ \A t \in Servers \ {s} : SameAt(t)
  BY <1>1, <1>3, <1>6, HandleTypes
<1>8. Typed'
  <2>1. Tail(msgPack[s]) \in Seq(Messages) BY <1>1, <1>3 DEF Typed, QueueTypes
  <2>2. msgPack' \in [Servers -> Seq(Messages)] BY <1>1, <1>3, <2>1 DEF Typed, QueueTypes
  <2>3. QueueTypes' BY <1>1, <1>3, <1>7, <2>2 DEF Typed, QueueTypes
  <2>4. ClientTypes' BY <1>1, <1>3 DEF Typed, ClientTypes, clientVars
  <2> QED BY <1>7, <2>3, <2>4 DEF Typed
<1>9. Sources' BY <1>1 DEF Inv, Sources, clientVars
<1>10. Calls' BY <1>1, ClientsSame DEF Inv
<1>11. Takes(main, other, s, c, m) BY <1>1, <1>2, <1>5 DEF Takes, Serving
<1>12. ServingAt(other, s)'
  BY <1>3, <1>6, <1>11, HandleOpenServing, HandleCloseServing, HandleSyncServing, HandleDataServing
     DEF HandleAny
<1>13. ASSUME NEW t \in Servers \ {s} PROVE ServingAt(other, t)'
  <2>1. ServingAt(main, t) BY <1>2 DEF Serving
  <2>2. SameAt(t) BY <1>7
  <2>3. \A e \in Clients : other[e][t] = main[e][t] BY <1>5
  <2> QED BY <2>1, <2>2, <2>3, ServingAtSame
<1>14. Serving(other)' BY <1>12, <1>13 DEF Serving
<1> QED BY <1>5, <1>8, <1>9, <1>10, <1>14 DEF Inv

\* What the dispatcher of s takes next is the next field of its client, or the
\* synchronization that ends the queue.
LEMMA Dispatched ==
    ASSUME Typed, NEW main \in Mains, NEW s \in Servers, ServingAt(main, s),
           dispatcher[s] = "handling", msgQ[s] # <<>>
    PROVE  /\ Head(msgQ[s]) \in Messages
           /\ \/ /\ Head(msgQ[s]).tag = "Field"
                 /\ Head(msgQ[s]).n = handled[Head(msgQ[s]).src][s] + 1
              \/ /\ Head(msgQ[s]).tag = "Synchronization" /\ Tail(msgQ[s]) = <<>>
                 /\ Synced(main, s) = Clients
<1>1. msgQ[s] \in Seq(Messages) BY DEF Typed, QueueTypes
<1>2. PICK m \in Messages : m = Head(msgQ[s]) BY <1>1
<1>3. PICK c \in Clients : m.src = c BY DEF Messages
<1>4. InSync(main, s) /\ Queued(main, c, s) BY DEF ServingAt
<1>5. m = msgQ[s][1] /\ 1 \in 1 .. Len(msgQ[s]) /\ Len(msgQ[s]) \in Nat BY <1>1, <1>2
<1>6. \/ m.tag = "Field"
      \/ m.tag = "Synchronization" /\ Len(msgQ[s]) = 1 /\ Synced(main, s) = Clients
  <2>1. \/ \A i \in 1 .. Len(msgQ[s]) : msgQ[s][i].tag = "Field"
        \/ /\ Synced(main, s) = Clients
           /\ \A i \in 1 .. Len(msgQ[s]) :
                 msgQ[s][i].tag = IF i = Len(msgQ[s]) THEN "Synchronization" ELSE "Field"
    BY <1>4 DEF InSync
  <2> QED BY <1>5, <2>1
<1>7. ASSUME m.tag = "Field" PROVE m.n = handled[c][s] + 1
  <2>1. PICK y \in Points : Path(msgQ[s], c, [ph |-> "open", n |-> handled[c][s]], y)
    BY <1>4 DEF Queued
  <2>2. PICK z \in Points : Says(c, m, [ph |-> "open", n |-> handled[c][s]], z)
    BY <1>1, <1>2, <2>1, PathHead
  <2> QED BY <1>3, <1>7, <2>2 DEF Says
<1>8. ASSUME Len(msgQ[s]) = 1 PROVE Tail(msgQ[s]) = <<>>
  <2>1. Tail(msgQ[s]) \in Seq(Messages) /\ Len(Tail(msgQ[s])) = 0 BY <1>1, <1>8
  <2> QED BY <2>1, EmptySeq
<1> QED BY <1>2, <1>3, <1>6, <1>7, <1>8

\* The dispatcher takes the next message off its queue.
LEMMA DispatchInv ==
    ASSUME Inv, NEW s \in Servers, Dispatch(s)
    PROVE  Inv'
<1>1. PICK main \in Mains : Talk(main) /\ Serving(main) BY DEF Inv
<1>2. Typed /\ ServingAt(main, s) BY <1>1 DEF Inv, Serving
<1>3. /\ dispatcher[s] = "handling" /\ msgQ[s] # <<>>
      /\ msgQ' = [msgQ EXCEPT ![s] = Tail(@)]
      /\ UNCHANGED <<clientVars, wire, streamQ, msgPack, listenVars>>
  BY DEF Dispatch
<1>4. msgQ[s] \in Seq(Messages) /\ Tail(msgQ[s]) \in Seq(Messages) BY <1>2, <1>3 DEF Typed, QueueTypes
<1>5. PICK m \in Messages : m = Head(msgQ[s]) BY <1>2, <1>3, Dispatched
<1>6. PICK c \in Clients : m.src = c BY DEF Messages
<1>7. \/ m.tag = "Field" /\ m.n = handled[c][s] + 1
      \/ m.tag = "Synchronization" /\ Tail(msgQ[s]) = <<>> /\ Synced(main, s) = Clients
  BY <1>2, <1>3, <1>5, <1>6, Dispatched
<1>8. IF m.tag = "Synchronization"
      THEN dispatcher' = [dispatcher EXCEPT ![s] = "barrier"] /\ handled' = handled
      ELSE dispatcher' = dispatcher /\ handled' = [handled EXCEPT ![c][s] = m.n]
  BY <1>5, <1>6 DEF Dispatch
<1>9. handled \in [Clients -> [Servers -> Nat]]
      /\ dispatcher \in [Servers -> {"handling", "barrier", "ended"}]
      /\ msgQ \in [Servers -> Seq(Messages)]
  BY <1>2 DEF Typed, QueueTypes
<1>10. Typed'
  <2>1. m.n \in Nat BY DEF Messages
  <2>0. handled \in [Clients -> [Servers -> Nat]] BY <1>9
  <2>2. handled' \in [Clients -> [Servers -> Nat]]
    <3>1. CASE handled' = handled BY <2>0, <3>1
    <3>2. CASE handled' = [handled EXCEPT ![c][s] = m.n] BY <2>0, <2>1, <3>2
    <3> QED BY <1>8, <3>1, <3>2
  <2>3. dispatcher' \in [Servers -> {"handling", "barrier", "ended"}] BY <1>8, <1>9
  <2>4. msgQ' \in [Servers -> Seq(Messages)] BY <1>3, <1>4, <1>9
  <2>5. QueueTypes' BY <1>2, <1>3, <2>2, <2>3, <2>4 DEF Typed, QueueTypes
  <2>6. ClientTypes' BY <1>2, <1>3 DEF Typed, ClientTypes, clientVars
  <2>7. ListenTypes' BY <1>2, <1>3 DEF Typed, ListenTypes, listenVars
  <2> QED BY <2>5, <2>6, <2>7 DEF Typed
<1>11. Sources' BY <1>3 DEF Inv, Sources, clientVars
<1>12. Calls' BY <1>3, ClientsSame DEF Inv
<1>13. Talk(main)'
  <2>1. UNCHANGED <<msgPack, streamQ, wire, stream>> BY <1>3 DEF clientVars
  <2>2. \A e \in Clients, t \in Servers : End(e, t)' = End(e, t) BY <1>3, ClientsSame
  <2> QED BY <1>1, <2>1, <2>2 DEF Talk
<1>14. ASSUME NEW t \in Servers \ {s} PROVE ServingAt(main, t)'
  <2>1. ServingAt(main, t) BY <1>1 DEF Serving
  <2>2. dispatcher'[t] = dispatcher[t] /\ msgQ'[t] = msgQ[t] BY <1>3, <1>8, <1>9
  <2>3. \A e \in Clients : handled'[e][t] = handled[e][t]
    <3>0. handled \in [Clients -> [Servers -> Nat]] BY <1>9
    <3>1. CASE handled' = handled BY <3>1
    <3>2. CASE handled' = [handled EXCEPT ![c][s] = m.n] BY <3>0, <3>2
    <3> QED BY <1>8, <3>1, <3>2
  <2>4. SameAt(t) BY <1>3, <2>2, <2>3 DEF SameAt, listenVars
  <2> QED BY <2>1, <2>4, ServingAtSame
<1>15. ServingAt(main, s)'
  <2>1. /\ Connected(main, s) /\ InSync(main, s)
        /\ \A e \in Clients : Queued(main, e, s)
    BY <1>2 DEF ServingAt
  <2>2. Connected(main, s)' BY <1>3, <2>1 DEF Connected, listenVars
  <2>3. Synced(main, s)' = Synced(main, s) BY DEF Synced
  <2>4. msgQ'[s] = Tail(msgQ[s]) /\ syncCount'[s] = syncCount[s] BY <1>3, <1>9 DEF listenVars
  <2>5. \A e \in Clients : \E y, z \in Points :
          /\ Says(e, m, [ph |-> "open", n |-> handled[e][s]], z) /\ Path(Tail(msgQ[s]), e, z, y)
          /\ y.n = main[e][s].n /\ (Synced(main, s) # Clients => y.ph = "open")
    <3> TAKE e \in Clients
    <3>1. PICK y \in Points :
            /\ Path(msgQ[s], e, [ph |-> "open", n |-> handled[e][s]], y)
            /\ y.n = main[e][s].n /\ (Synced(main, s) # Clients => y.ph = "open")
      BY <2>1 DEF Queued
    <3>2. PICK z \in Points :
            Says(e, m, [ph |-> "open", n |-> handled[e][s]], z) /\ Path(Tail(msgQ[s]), e, z, y)
      BY <1>3, <1>4, <1>5, <3>1, PathHead
    <3> QED BY <3>1, <3>2
  <2>6. CASE m.tag = "Field"
    <3>1. m.n = handled[c][s] + 1 BY <1>7, <2>6
    <3>2. /\ dispatcher'[s] = "handling" /\ handled'[c][s] = handled[c][s] + 1
          /\ \A e \in Clients : e # c => handled'[e][s] = handled[e][s]
      <4>1. dispatcher' = dispatcher /\ handled' = [handled EXCEPT ![c][s] = m.n] BY <1>8, <2>6
      <4> QED BY <1>3, <1>9, <3>1, <4>1
    <3>3. ASSUME NEW e \in Clients PROVE Queued(main, e, s)'
      <4>1. PICK y, z \in Points :
              /\ Says(e, m, [ph |-> "open", n |-> handled[e][s]], z) /\ Path(Tail(msgQ[s]), e, z, y)
              /\ y.n = main[e][s].n /\ (Synced(main, s) # Clients => y.ph = "open")
        BY <2>5
      <4>2. z = [ph |-> "open", n |-> handled'[e][s]] BY <1>6, <2>6, <3>2, <4>1 DEF Says
      <4> QED BY <2>3, <2>4, <4>1, <4>2 DEF Queued
    <3>4. InSync(main, s)'
      <4>1. /\ Len(msgQ'[s]) = Len(msgQ[s]) - 1 /\ Len(msgQ[s]) \in Nat
            /\ \A i \in 1 .. Len(msgQ'[s]) : msgQ'[s][i] = msgQ[s][i + 1] /\ i + 1 \in 1 .. Len(msgQ[s])
        <5> DEFINE q == msgQ[s]
        <5>1. q \in Seq(Messages) /\ q # <<>> /\ msgQ'[s] = Tail(q) BY <1>3, <1>4, <2>4
        <5> HIDE DEF q
        <5>2. /\ Len(Tail(q)) = Len(q) - 1 /\ Len(q) \in Nat
              /\ \A i \in 1 .. Len(Tail(q)) : Tail(q)[i] = q[i + 1] /\ i + 1 \in 1 .. Len(q)
          BY <5>1
        <5> QED BY <5>1, <5>2 DEF q
      <4>2. CASE Synced(main, s) # Clients
        <5>1. \A i \in 1 .. Len(msgQ[s]) : msgQ[s][i].tag = "Field" BY <2>1, <4>2 DEF InSync
        <5>2. \A i \in 1 .. Len(msgQ'[s]) : msgQ'[s][i].tag = "Field" BY <4>1, <5>1
        <5>3. syncCount[s] = Cardinality(Synced(main, s)) BY <2>1, <4>2 DEF InSync
        <5> QED BY <2>3, <2>4, <3>2, <4>2, <5>2, <5>3 DEF InSync
      <4>3. CASE Synced(main, s) = Clients
        <5>1. \A i \in 1 .. Len(msgQ[s]) :
                 msgQ[s][i].tag = IF i = Len(msgQ[s]) THEN "Synchronization" ELSE "Field"
          BY <1>3, <2>1, <4>3 DEF InSync
        <5>2. m = msgQ[s][1] /\ 1 \in 1 .. Len(msgQ[s]) BY <1>3, <1>4, <1>5
        <5>3. Len(msgQ[s]) # 1 BY <2>6, <5>1, <5>2
        <5>4. \A i \in 1 .. Len(msgQ'[s]) :
                 msgQ'[s][i].tag = IF i = Len(msgQ'[s]) THEN "Synchronization" ELSE "Field"
          BY <4>1, <5>1
        <5>5. msgQ'[s] # <<>>
          <6>1. Len(msgQ'[s]) # 0 BY <4>1, <5>2, <5>3
          <6> QED BY <6>1
        <5>6. syncCount[s] = 0 BY <2>1, <4>3 DEF InSync
        <5> QED BY <2>3, <2>4, <3>2, <4>3, <5>4, <5>5, <5>6 DEF InSync
      <4> QED BY <4>2, <4>3
    <3> QED BY <2>2, <3>2, <3>3, <3>4 DEF ServingAt
  <2>7. CASE m.tag = "Synchronization"
    <3>1. Tail(msgQ[s]) = <<>> /\ Synced(main, s) = Clients BY <1>7, <2>7
    <3>2. dispatcher'[s] = "barrier" /\ handled' = handled BY <1>8, <1>9, <2>7
    <3>3. syncCount[s] = 0 BY <2>1, <3>1 DEF InSync
    <3>4. InSync(main, s)' BY <2>3, <2>4, <3>1, <3>2, <3>3 DEF InSync
    <3>5. ASSUME NEW e \in Clients PROVE Queued(main, e, s)'
      <4> DEFINE x == [ph |-> "open", n |-> handled[e][s]]
      <4>1. PICK y, z \in Points :
              /\ Says(e, m, x, z) /\ Path(Tail(msgQ[s]), e, z, y) /\ y.n = main[e][s].n
        BY <2>5
      <4>2. z = y BY <3>1, <4>1, PathEmptyEnds
      <4>3. z.n = x.n BY <2>7, <4>1 DEF Says
      <4>4. x \in Points BY <1>9 DEF Points
      <4> HIDE DEF x
      <4>5. Path(<<>>, e, x, x) BY <4>4, PathEmpty
      <4> QED BY <2>3, <2>4, <3>1, <3>2, <4>1, <4>2, <4>3, <4>4, <4>5 DEF Queued, x
    <3> QED BY <2>2, <3>2, <3>4, <3>5 DEF ServingAt
  <2> QED BY <1>7, <2>6, <2>7
<1>16. Serving(main)' BY <1>14, <1>15 DEF Serving
<1> QED BY <1>10, <1>11, <1>12, <1>13, <1>16 DEF Inv

\* The dispatcher ends once its queue is closed and empty.
LEMMA DispatchEndInv ==
    ASSUME Inv, NEW s \in Servers, DispatchEnd(s)
    PROVE  Inv'
<1>1. PICK main \in Mains : Talk(main) /\ Serving(main) BY DEF Inv
<1>2. /\ dispatcher[s] = "handling" /\ queueClosed[s] /\ msgQ[s] = <<>>
      /\ dispatcher' = [dispatcher EXCEPT ![s] = "ended"]
      /\ UNCHANGED <<clientVars, wire, streamQ, msgPack, listenVars, msgQ, handled>>
  BY DEF DispatchEnd
<1>3. Typed'
  <2>1. QueueTypes' BY <1>2 DEF Inv, Typed, QueueTypes
  <2>2. ClientTypes' BY <1>2 DEF Inv, Typed, ClientTypes, clientVars
  <2>3. ListenTypes' BY <1>2 DEF Inv, Typed, ListenTypes, listenVars
  <2> QED BY <2>1, <2>2, <2>3 DEF Typed
<1>4. Sources' BY <1>2 DEF Inv, Sources, clientVars
<1>5. Calls' BY <1>2, ClientsSame DEF Inv
<1>6. Talk(main)'
  <2>1. UNCHANGED <<msgPack, streamQ, wire, stream>> BY <1>2 DEF clientVars
  <2>2. \A e \in Clients, t \in Servers : End(e, t)' = End(e, t) BY <1>2, ClientsSame
  <2> QED BY <1>1, <2>1, <2>2 DEF Talk
<1>7. \A t \in Servers : dispatcher'[t] = IF t = s THEN "ended" ELSE dispatcher[t]
  BY <1>2 DEF Inv, Typed, QueueTypes
<1>8. ASSUME NEW t \in Servers \ {s} PROVE ServingAt(main, t)'
  <2>1. ServingAt(main, t) BY <1>1 DEF Serving
  <2>2. SameAt(t) BY <1>2, <1>7 DEF SameAt, listenVars
  <2> QED BY <2>1, <2>2, ServingAtSame
<1>9. ServingAt(main, s)'
  <2>1. ServingAt(main, s) BY <1>1 DEF Serving
  <2>2. Synced(main, s)' = Synced(main, s) BY DEF Synced
  <2>3. Connected(main, s)' BY <1>2, <2>1 DEF ServingAt, Connected, listenVars
  <2>4. InSync(main, s)' BY <1>2, <1>7, <2>1, <2>2 DEF ServingAt, InSync, listenVars
  <2>5. \A e \in Clients : Queued(main, e, s)' BY <1>2, <2>1, <2>2 DEF ServingAt, Queued
  <2> QED BY <1>2, <2>3, <2>4, <2>5 DEF ServingAt, listenVars
<1>10. Serving(main)' BY <1>8, <1>9 DEF Serving
<1> QED BY <1>1, <1>3, <1>4, <1>5, <1>6, <1>10 DEF Inv

\* At the barrier every server has followed every client to the end, and nothing is
\* under way: all fields that were sent have been dispatched.
LEMMA AtBarrier ==
    ASSUME Typed, Sources, NEW main \in Mains, Talk(main), NEW s \in Servers, ServingAt(main, s),
           dispatcher[s] = "barrier"
    PROVE  /\ msgQ[s] = <<>> /\ syncCount[s] = 0 /\ connections[s] = Clients
           /\ msgPack[s] = <<>> /\ streamQ[s] = <<>>
           /\ \A c \in Clients :
                 /\ wire[c][s] = <<>> /\ stream[c][s] = <<>>
                 /\ main[c][s] = [ph |-> "synced", n |-> sent[c][s]] /\ handled[c][s] = sent[c][s]
<1>1. Synced(main, s) = Clients /\ syncCount[s] = 0 /\ msgQ[s] = <<>> BY DEF ServingAt, InSync
<1>2. \A c \in Clients : main[c][s].ph = "synced" BY <1>1 DEF Synced
<1>3. connections[s] = Clients BY <1>2 DEF ServingAt, Connected
<1>4. /\ msgPack[s] = <<>> /\ streamQ[s] = <<>>
      /\ \A c \in Clients : wire[c][s] = <<>> /\ stream[c][s] = <<>> /\ End(c, s) = main[c][s]
  BY <1>2, Drained
<1>5. ASSUME NEW c \in Clients
      PROVE  main[c][s] = [ph |-> "synced", n |-> sent[c][s]] /\ handled[c][s] = sent[c][s]
  <2>1. End(c, s) = main[c][s] /\ main[c][s].ph = "synced" BY <1>2, <1>4
  <2>2. End(c, s) \in Points /\ End(c, s).n = sent[c][s] BY EndPoint
  <2>3. main[c][s] = [ph |-> "synced", n |-> sent[c][s]] BY <2>1, <2>2 DEF Points
  <2>4. PICK y \in Points : /\ Path(msgQ[s], c, [ph |-> "open", n |-> handled[c][s]], y)
                            /\ y.n = main[c][s].n
    BY DEF ServingAt, Queued
  <2>5. y = [ph |-> "open", n |-> handled[c][s]] BY <1>1, <2>4, PathEmptyEnds
  <2> QED BY <2>3, <2>4, <2>5
<1> QED BY <1>1, <1>3, <1>4, <1>5

\* All processes meet at the barrier and every conversation is open again.
LEMMA BarrierInv ==
    ASSUME Inv, Barrier
    PROVE  Inv'
<1>1. PICK main \in Mains : Talk(main) /\ Serving(main) BY DEF Inv
<1>2. /\ \A c \in Clients : pc[c] = "barrier"
      /\ \A s \in Servers : dispatcher[s] = "barrier"
      /\ pc' = [c \in Clients |-> "open"]
      /\ round' = [c \in Clients |-> round[c] + 1]
      /\ dispatcher' = [s \in Servers |-> "handling"]
      /\ UNCHANGED <<next, stream, sent, wire, streamQ, msgPack, listenVars, msgQ, handled>>
  BY DEF Barrier
<1>3. Typed'
  <2>1. QueueTypes' BY <1>2 DEF Inv, Typed, QueueTypes
  <2>2. ClientTypes' BY <1>2 DEF Inv, Typed, ClientTypes, PCs
  <2>3. ListenTypes' BY <1>2 DEF Inv, Typed, ListenTypes, listenVars
  <2> QED BY <2>1, <2>2, <2>3 DEF Typed
<1>4. Sources' BY <1>2 DEF Inv, Sources
<1>5. Calls'
  <2> SUFFICES ASSUME NEW c \in Clients
               PROVE  /\ next'[c] = 1 /\ round'[c] <= Rounds /\ pc'[c] = "open"
                      /\ \A s \in Servers : sent'[c][s] <= MaxSent[c][s]
    BY DEF Calls, Synchronizing
  <2>1. next[c] = 1 /\ round[c] < Rounds /\ \A s \in Servers : sent[c][s] <= MaxSent[c][s]
    BY <1>2 DEF Inv, Calls, Synchronizing
  <2>2. round[c] \in Nat /\ Rounds \in Nat BY PoolAssumption DEF Inv, Typed, ClientTypes
  <2>3. next'[c] = next[c] /\ round'[c] = round[c] + 1 /\ pc'[c] = "open" /\ sent' = sent BY <1>2
  <2> QED BY <2>1, <2>2, <2>3
<1>6. \A s \in Servers :
        /\ msgQ[s] = <<>> /\ syncCount[s] = 0 /\ connections[s] = Clients
        /\ msgPack[s] = <<>> /\ streamQ[s] = <<>>
        /\ \A c \in Clients :
              /\ wire[c][s] = <<>> /\ stream[c][s] = <<>>
              /\ main[c][s] = [ph |-> "synced", n |-> sent[c][s]] /\ handled[c][s] = sent[c][s]
  BY <1>1, <1>2, AtBarrier DEF Inv, Serving
<1> DEFINE other == [c \in Clients |-> [s \in Servers |-> [ph |-> "open", n |-> sent[c][s]]]]
<1>7. other \in Mains BY DEF Inv, Typed, ClientTypes, Mains, Points
<1>8. \A c \in Clients, s \in Servers : other[c][s] = [ph |-> "open", n |-> sent[c][s]] OBVIOUS
<1> HIDE DEF other
<1>9. Talk(other)'
  <2> SUFFICES ASSUME NEW c \in Clients, NEW s \in Servers
               PROVE  Line(c, other'[c][s], msgPack'[s], streamQ'[s], wire'[c][s], stream'[c][s], End(c, s)')
    BY DEF Talk
  <2>0. other' = other BY <1>2 DEF other
  <2>1. End(c, s)' = [ph |-> "open", n |-> sent[c][s]]
    BY <1>2 DEF End, OpenSaid, CloseSaid, SyncSaid
  <2>2. msgPack'[s] = <<>> /\ streamQ'[s] = <<>> /\ wire'[c][s] = <<>> /\ stream'[c][s] = <<>>
    BY <1>2, <1>6
  <2>3. other[c][s] \in Points BY <1>7 DEF Mains
  <2>4. Line(c, other[c][s], <<>>, <<>>, <<>>, <<>>, other[c][s]) BY <2>3, LineEmpty
  <2> QED BY <1>8, <2>0, <2>1, <2>2, <2>4
<1>10. PICK o \in Mains : o = other BY <1>7
<1>a. ASSUME NEW c \in Clients, NEW s \in Servers
      PROVE  o[c][s].ph = "open" /\ main[c][s].ph = "synced"
  <2>1. o[c][s] = [ph |-> "open", n |-> sent[c][s]] BY <1>8, <1>10
  <2>2. main[c][s] = [ph |-> "synced", n |-> sent[c][s]] BY <1>6
  <2> QED BY <2>1, <2>2
<1>11. ASSUME NEW s \in Servers PROVE ServingAt(o, s)'
  <2>0. ServingAt(main, s) BY <1>1 DEF Serving
  <2>1. Synced(o, s)' = {} BY <1>a DEF Synced
  <2>2. Synced(o, s)' # Clients BY <2>1, PoolAssumption
  <2>3. msgQ'[s] = <<>> /\ syncCount'[s] = 0 /\ dispatcher'[s] = "handling" /\ handled' = handled
    BY <1>2, <1>6 DEF listenVars
  <2>4. Connected(o, s)'
    <3>1. {c \in Clients : o[c][s].ph \in {"open", "synced"}} = Clients
          /\ {c \in Clients : o[c][s].ph # "new"} = Clients
      BY <1>a
    <3>2. {c \in Clients : main[c][s].ph # "new"} = Clients BY <1>a
    <3>3. /\ connections'[s] = connections[s] /\ opened'[s] = opened[s] /\ failed'[s] = failed[s]
          /\ running'[s] = running[s] /\ queueClosed'[s] = queueClosed[s]
      BY <1>2 DEF listenVars
    <3>4. /\ opened[s] = Cardinality({c \in Clients : main[c][s].ph # "new"}) /\ ~ failed[s]
          /\ running[s] <=> ~ queueClosed[s]
          /\ queueClosed[s] => connections[s] = {} /\ opened[s] = Cardinality(Clients)
      BY <2>0 DEF ServingAt, Connected
    <3>5. connections[s] = Clients BY <1>6
    <3> QED BY <3>1, <3>2, <3>3, <3>4, <3>5 DEF Connected
  <2>5. InSync(o, s)'
    <3>1. Cardinality({}) = 0 BY FS_EmptySet
    <3>2. 1 .. Len(msgQ'[s]) = {} BY <2>3
    <3> QED BY <2>1, <2>2, <2>3, <3>1, <3>2 DEF InSync
  <2>6. ASSUME NEW c \in Clients PROVE Queued(o, c, s)'
    <3>1. o[c][s] = [ph |-> "open", n |-> handled[c][s]] /\ o[c][s] \in Points
      BY <1>6, <1>8, <1>10 DEF Mains
    <3>2. Path(<<>>, c, o[c][s], o[c][s]) BY <3>1, PathEmpty
    <3>3. o[c][s].ph = "open" BY <3>1
    <3> QED BY <2>3, <3>1, <3>2, <3>3 DEF Queued
  <2> QED BY <2>3, <2>4, <2>5, <2>6 DEF ServingAt
<1>12. Serving(o)' BY <1>11 DEF Serving
<1>13. Talk(o)' 
  <2>1. other' = o BY <1>2, <1>10 DEF other
  <2> QED BY <1>9, <2>1 DEF Talk
<1> QED BY <1>3, <1>4, <1>5, <1>12, <1>13 DEF Inv

\* A stuttering step.
LEMMA SameInv ==
    ASSUME Inv, UNCHANGED vars
    PROVE  Inv'
<1>1. UNCHANGED <<clientVars, wire, streamQ, msgPack, serverVars>> BY DEF vars, serverVars
<1>2. PICK main \in Mains : Talk(main) /\ Serving(main) BY DEF Inv
<1>3. Serving(main)' BY <1>1, <1>2, ServingSame
<1>4. Talk(main)'
  <2>1. UNCHANGED <<msgPack, streamQ, wire, stream>> BY <1>1 DEF clientVars
  <2>2. \A e \in Clients, t \in Servers : End(e, t)' = End(e, t) BY <1>1, ClientsSame
  <2> QED BY <1>2, <2>1, <2>2 DEF Talk
<1>5. Calls' BY <1>1, ClientsSame DEF Inv
<1>6. Sources' BY <1>1 DEF Inv, Sources, clientVars
<1>7. ClientTypes' BY <1>1 DEF Inv, Typed, ClientTypes, clientVars
<1>8. Typed' BY <1>1, <1>7, ServerTypesSame DEF Inv, Typed
<1> QED BY <1>3, <1>4, <1>5, <1>6, <1>8 DEF Inv

\* Every step keeps the invariant.
LEMMA NextInv == Inv /\ [Next]_vars => Inv'
<1> SUFFICES ASSUME Inv, [Next]_vars PROVE Inv' OBVIOUS
<1>1. ASSUME NEW c \in Clients, Client(c) PROVE Inv'
  <2>1. CASE OpenSend(c) BY <2>1, OpenSendInv
  <2>2. CASE OpenReturn(c) BY <2>2, OpenReturnInv
  <2>3. CASE \E s \in Servers : Send(c, s)
    <3>1. PICK t \in Servers : Send(c, t) BY <2>3
    <3>2. UNCHANGED <<streamQ, msgPack, serverVars>> BY <3>1 DEF Send, serverVars
    <3> QED BY <3>1, <3>2, SendReuseInv, SendReplaceInv, SendFirstInv DEF Send
  <2>4. CASE Begin(c) BY <2>4, BeginInv
  <2>5. CASE LoopSend(c) BY <2>5, LoopSendInv
  <2>6. CASE LoopReplace(c) BY <2>6, LoopReplaceInv
  <2>7. CASE WaitAll(c) BY <2>7, WaitAllInv
  <2> QED BY <1>1, <2>1, <2>2, <2>3, <2>4, <2>5, <2>6, <2>7 DEF Client
<1>2. ASSUME NEW s \in Servers, ListenThread(s) \/ MainThread(s) \/ DispatchThread(s) PROVE Inv'
  BY <1>2, ListenInv, DecodeInv, HandleInv, DispatchInv, DispatchEndInv
     DEF ListenThread, MainThread, DispatchThread
<1>3. CASE Barrier BY <1>3, BarrierInv
<1>4. CASE UNCHANGED vars BY <1>4, SameInv
<1> QED BY <1>1, <1>2, <1>3, <1>4 DEF Next

\* The invariant holds throughout.
THEOREM Invariance == Spec => []Inv
BY InitInv, NextInv, PTL DEF Spec

-----------------------------------------------------------------------------
(* What the invariant says *)

\* No field is dispatched before it is sent.
HandledWithin == \A c \in Clients, s \in Servers : handled[c][s] <= sent[c][s]

\* It follows from the lines: handled is behind main, and main behind the client.
LEMMA HandledSent == Inv => HandledWithin
<1> SUFFICES ASSUME Inv PROVE \A c \in Clients, s \in Servers : handled[c][s] <= sent[c][s]
  BY DEF HandledWithin
<1>1. PICK main \in Mains : Talk(main) /\ Serving(main) BY DEF Inv
<1> TAKE c \in Clients, s \in Servers
<1>2. Typed BY DEF Inv
<1>3. LineTypes(msgPack[s], streamQ[s], wire[c][s], stream[c][s]) BY <1>2, Lines
<1>4. Line(c, main[c][s], msgPack[s], streamQ[s], wire[c][s], stream[c][s], End(c, s))
  BY <1>1 DEF Talk
<1>5. main[c][s] \in Points /\ main[c][s].n <= End(c, s).n BY <1>3, <1>4, LineGrows
<1>6. End(c, s).n = sent[c][s] BY <1>2, EndPoint
<1> DEFINE x == [ph |-> "open", n |-> handled[c][s]]
<1>7. PICK y \in Points : Path(msgQ[s], c, x, y) /\ y.n = main[c][s].n
  BY <1>1 DEF Serving, ServingAt, Queued
<1>8. msgQ[s] \in Seq(Messages) BY <1>2 DEF Typed, QueueTypes
<1>9. x.n <= y.n
  <2> HIDE DEF x
  <2> QED BY <1>7, <1>8, PathGrows
<1>10. handled[c][s] \in Nat /\ sent[c][s] \in Nat /\ main[c][s].n \in Nat
  BY <1>2, <1>5 DEF Typed, ClientTypes, QueueTypes, Points
<1> QED BY <1>5, <1>6, <1>7, <1>9, <1>10

\* When the main thread of s has ended, every client has closed its conversation with s.
LEMMA EndedClosed ==
    ASSUME NEW main, NEW s \in Servers, ServingAt(main, s), queueClosed[s], main \in Mains
    PROVE  \A c \in Clients : main[c][s].ph = "closed"
<1> DEFINE S == {c \in Clients : main[c][s].ph # "new"}
<1>1. /\ {c \in Clients : main[c][s].ph \in {"open", "synced"}} = {}
      /\ Cardinality(S) = Cardinality(Clients)
  BY DEF ServingAt, Connected
<1>2. S \in SUBSET Clients /\ IsFiniteSet(Clients) BY PoolAssumption
<1>3. S = Clients
  <2> HIDE DEF S
  <2> QED BY <1>1, <1>2, FS_Subset
<1>4. \A c \in Clients : main[c][s] \in Points BY DEF Mains
<1> QED BY <1>1, <1>3, <1>4 DEF Points

\* The invariant bounds what Typed leaves unbounded.
LEMMA InvTypeOK == Inv => TypeOK
<1> SUFFICES ASSUME Inv PROVE TypeOK OBVIOUS
<1>1. PICK main \in Mains : Talk(main) /\ Serving(main) BY DEF Inv
<1>2. ClientTypes /\ ListenTypes /\ QueueTypes BY DEF Inv, Typed
<1>3. round \in [Clients -> 0 .. Rounds]
  <2>1. \A c \in Clients : round[c] \in Nat /\ round[c] <= Rounds BY <1>2 DEF Inv, Calls, ClientTypes
  <2>2. Rounds \in Nat BY PoolAssumption
  <2> QED BY <1>2, <2>1, <2>2 DEF ClientTypes
<1>4. ASSUME NEW c \in Clients, NEW s \in Servers
      PROVE  sent[c][s] \in 0 .. MaxSent[c][s] /\ handled[c][s] \in 0 .. MaxSent[c][s]
  <2>1. sent[c][s] \in Nat /\ handled[c][s] \in Nat BY <1>2 DEF ClientTypes, QueueTypes
  <2>2. sent[c][s] <= MaxSent[c][s] BY DEF Inv, Calls
  <2>3. handled[c][s] <= sent[c][s] BY HandledSent DEF HandledWithin
  <2>4. MaxSent[c][s] \in Nat BY PoolAssumption
  <2> QED BY <2>1, <2>2, <2>3, <2>4
<1>5. IsFiniteSet(Clients) /\ Clients # {} BY PoolAssumption
<1>6. Cardinality(Clients) \in Nat \ {0} BY <1>5, FS_CardinalityType, FS_EmptySet
<1>7. opened \in [Servers -> 0 .. Cardinality(Clients)]
  <2>1. ASSUME NEW s \in Servers PROVE opened[s] \in 0 .. Cardinality(Clients)
    <3>1. opened[s] = Cardinality({c \in Clients : main[c][s].ph # "new"})
      BY <1>1 DEF Serving, ServingAt, Connected
    <3>2. opened[s] \in Nat BY <1>2 DEF ListenTypes
    <3>3. Cardinality({c \in Clients : main[c][s].ph # "new"}) <= Cardinality(Clients)
      BY <1>5, FS_Subset
    <3> QED BY <1>6, <3>1, <3>2, <3>3
  <2> QED BY <1>2, <2>1 DEF ListenTypes
<1>8. syncCount \in [Servers -> 0 .. Cardinality(Clients) - 1]
  <2>1. ASSUME NEW s \in Servers PROVE syncCount[s] \in 0 .. Cardinality(Clients) - 1
    <3>1. syncCount[s] \in Nat BY <1>2 DEF ListenTypes
    <3>2. \/ syncCount[s] = 0
          \/ Synced(main, s) # Clients /\ syncCount[s] = Cardinality(Synced(main, s))
      BY <1>1 DEF Serving, ServingAt, InSync
    <3>3. Synced(main, s) \in SUBSET Clients BY DEF Synced
    <3>4. Synced(main, s) # Clients => Cardinality(Synced(main, s)) # Cardinality(Clients)
          /\ Cardinality(Synced(main, s)) <= Cardinality(Clients)
      BY <1>5, <3>3, FS_Subset
    <3> QED BY <1>6, <3>1, <3>2, <3>4
  <2> QED BY <1>2, <2>1 DEF ListenTypes
<1>9. ASSUME NEW s \in Servers, NEW i \in 1 .. Len(msgQ[s]) PROVE msgQ[s][i].tag \in Tags
  <2>1. msgQ[s] \in Seq(Messages) BY <1>2 DEF QueueTypes
  <2>2. msgQ[s][i] \in Messages BY <2>1
  <2> QED BY <2>2 DEF Messages
<1> QED BY <1>2, <1>3, <1>4, <1>7, <1>8, <1>9
     DEF TypeOK, ClientTypes, ListenTypes, QueueTypes, PCs

\* TypeOK holds in every reachable state: in particular the listener's counts stay in
\* their ranges and no client exceeds its rounds or a server its client's messages.
THEOREM TypeCorrect == Spec => []TypeOK
BY Invariance, InvTypeOK, PTL

\* The listener never meets a message of a client that is not connected to it
\* (NoStranger): the SeriousBug of checkConnection and the erase of a missing
\* connection are unreachable.
THEOREM NoStrangers == Spec => []NoStranger
<1>1. Inv => NoStranger BY DEF Inv, Serving, ServingAt, Connected, NoStranger
<1> QED BY <1>1, Invariance, PTL

\* A server whose receive loop has ended has received everything (StopsDrained).
THEOREM StopsWhenDrained == Spec => []StopsDrained
<1>1. Inv => StopsDrained
  <2> SUFFICES ASSUME Inv, NEW s \in Servers, queueClosed[s]
               PROVE  /\ streamQ[s] = <<>> /\ msgPack[s] = <<>>
                      /\ \A c \in Clients : wire[c][s] = <<>> /\ stream[c][s] = <<>>
    BY DEF StopsDrained
  <2>1. PICK main \in Mains : Talk(main) /\ Serving(main) BY DEF Inv
  <2>2. \A c \in Clients : main[c][s].ph = "closed" BY <2>1, EndedClosed DEF Serving
  <2> QED BY <2>1, <2>2, Drained DEF Inv
<1> QED BY <1>1, Invariance, PTL

-----------------------------------------------------------------------------
(* The messages under way are numbered without gaps *)

IsField(c, m) == m.src = c /\ m.tag = "Field"

\* The fields of c in q have the numbers after a, up to b, in order.
Numbers(q, c, a, b) ==
    \E f \in [0 .. Len(q) -> Nat] :
        /\ f[0] = a /\ f[Len(q)] = b
        /\ \A i \in 1 .. Len(q) :
              IF IsField(c, q[i]) THEN f[i] = f[i - 1] + 1 /\ q[i].n = f[i] ELSE f[i] = f[i - 1]

\* No messages, no numbers.
LEMMA NumbersEmpty ==
    ASSUME NEW c, NEW a \in Nat PROVE Numbers(<<>>, c, a, a)
<1> DEFINE f == [i \in 0 .. 0 |-> a]
<1>1. f \in [0 .. Len(<<>>) -> Nat] /\ f[0] = a /\ f[Len(<<>>)] = a /\ 1 .. Len(<<>>) = {}
  OBVIOUS
<1> HIDE DEF f
<1> QED BY <1>1 DEF Numbers

\* The fields along a path are numbered one after the other ...
LEMMA NumbersPath ==
    ASSUME NEW q \in Seq(Messages), NEW c, NEW x, NEW y, Path(q, c, x, y)
    PROVE  Numbers(q, c, x.n, y.n)
<1>1. PICK f \in [0 .. Len(q) -> Points] :
        /\ f[0] = x /\ f[Len(q)] = y
        /\ \A i \in 1 .. Len(q) : Says(c, q[i], f[i - 1], f[i])
  BY DEF Path
<1>2. Len(q) \in Nat OBVIOUS
<1> DEFINE g == [i \in 0 .. Len(q) |-> f[i].n]
<1>3. g \in [0 .. Len(q) -> Nat] BY DEF Points
<1>4. g[0] = x.n /\ g[Len(q)] = y.n BY <1>1, <1>2
<1>5. ASSUME NEW i \in 1 .. Len(q)
      PROVE  IF IsField(c, q[i]) THEN g[i] = g[i - 1] + 1 /\ q[i].n = g[i] ELSE g[i] = g[i - 1]
  <2>1. i \in 0 .. Len(q) /\ i - 1 \in 0 .. Len(q) BY <1>2
  <2>2. g[i] = f[i].n /\ g[i - 1] = f[i - 1].n BY <2>1
  <2>3. Says(c, q[i], f[i - 1], f[i]) BY <1>1
  <2>4. f[i - 1] \in Points BY <2>1
  <2> HIDE DEF g
  <2> QED BY <2>2, <2>3, <2>4 DEF Says, IsField, Points
<1> HIDE DEF g
<1> QED BY <1>3, <1>4, <1>5 DEF Numbers

\* ... and so are those of two sequences, the second of which starts where the first ends.
LEMMA NumbersConcat ==
    ASSUME NEW M, NEW p \in Seq(M), NEW q \in Seq(M), NEW c, NEW a, NEW b, NEW d,
           Numbers(p, c, a, b), Numbers(q, c, b, d)
    PROVE  Numbers(p \o q, c, a, d)
<1>1. PICK f \in [0 .. Len(p) -> Nat] :
        /\ f[0] = a /\ f[Len(p)] = b
        /\ \A i \in 1 .. Len(p) :
              IF IsField(c, p[i]) THEN f[i] = f[i - 1] + 1 /\ p[i].n = f[i] ELSE f[i] = f[i - 1]
  BY DEF Numbers
<1>2. PICK g \in [0 .. Len(q) -> Nat] :
        /\ g[0] = b /\ g[Len(q)] = d
        /\ \A i \in 1 .. Len(q) :
              IF IsField(c, q[i]) THEN g[i] = g[i - 1] + 1 /\ q[i].n = g[i] ELSE g[i] = g[i - 1]
  BY DEF Numbers
<1> DEFINE r == p \o q
           h == [i \in 0 .. Len(r) |-> IF i <= Len(p) THEN f[i] ELSE g[i - Len(p)]]
<1>3. /\ Len(r) = Len(p) + Len(q) /\ Len(p) \in Nat /\ Len(q) \in Nat
      /\ \A i \in 1 .. Len(p) : r[i] = p[i]
      /\ \A i \in 1 .. Len(q) : r[i + Len(p)] = q[i]
  BY ConcatProperties
<1> HIDE DEF r
<1>4. h \in [0 .. Len(r) -> Nat] BY <1>3
<1>5. /\ \A i \in 0 .. Len(p) : h[i] = f[i]
      /\ \A i \in 0 .. Len(q) : h[i + Len(p)] = g[i]
  <2>1. \A i \in 0 .. Len(p) : h[i] = f[i] BY <1>3
  <2>2. ASSUME NEW i \in 0 .. Len(q) PROVE h[i + Len(p)] = g[i]
    <3>1. CASE i = 0 BY <1>1, <1>2, <1>3, <3>1
    <3>2. CASE i # 0
      <4>1. i + Len(p) \in 0 .. Len(r) /\ ~ (i + Len(p) <= Len(p)) /\ (i + Len(p)) - Len(p) = i
        BY <1>3, <3>2
      <4> QED BY <4>1
    <3> QED BY <3>1, <3>2
  <2> QED BY <2>1, <2>2
<1> HIDE DEF h
<1>6. h[0] = a /\ h[Len(r)] = d
  <2>1. 0 \in 0 .. Len(p) /\ Len(q) \in 0 .. Len(q) /\ Len(r) = Len(q) + Len(p) BY <1>3
  <2> QED BY <1>1, <1>2, <1>5, <2>1
<1>7. ASSUME NEW i \in 1 .. Len(r)
      PROVE  IF IsField(c, r[i]) THEN h[i] = h[i - 1] + 1 /\ r[i].n = h[i] ELSE h[i] = h[i - 1]
  <2>1. CASE i <= Len(p)
    <3>1. i \in 1 .. Len(p) /\ i \in 0 .. Len(p) /\ i - 1 \in 0 .. Len(p) BY <1>3, <2>1
    <3>2. r[i] = p[i] /\ h[i] = f[i] /\ h[i - 1] = f[i - 1] BY <1>3, <1>5, <3>1
    <3> QED BY <1>1, <3>1, <3>2
  <2>2. CASE ~ (i <= Len(p))
    <3>1. PICK j \in 1 .. Len(q) : i = j + Len(p) 
      <4>1. i - Len(p) \in 1 .. Len(q) /\ i = (i - Len(p)) + Len(p) BY <1>3, <2>2
      <4> QED BY <4>1
    <3>2. j \in 0 .. Len(q) /\ j - 1 \in 0 .. Len(q) /\ i - 1 = (j - 1) + Len(p) BY <1>3, <3>1
    <3>3. r[i] = q[j] /\ h[i] = g[j] /\ h[i - 1] = g[j - 1] BY <1>3, <1>5, <3>1, <3>2
    <3> QED BY <1>2, <3>1, <3>3
  <2> QED BY <2>1, <2>2
<1> QED BY <1>4, <1>6, <1>7 DEF Numbers, r

\* The recursive function inside FlattenSeq
FlatAt(w, g, i) == IF i = 1 THEN w[i] ELSE g[i - 1] \o w[i]
IsFlat(w, g) == g = [i \in 1 .. Len(w) |-> FlatAt(w, g, i)]

\* The recursion of FlattenSeq has a solution, built up from the front,
LEMMA FlatExists ==
    ASSUME NEW M, NEW w \in Seq(Seq(M)) PROVE \E g : IsFlat(w, g)
<1> DEFINE Upto(n, g) == \A i \in 1 .. Len(w) : i <= n => g[i] = FlatAt(w, g, i)
           S == {n \in Nat : \E g \in [1 .. Len(w) -> Seq(M)] : Upto(n, g)}
<1>1. 0 \in S
  <2> DEFINE g == [i \in 1 .. Len(w) |-> <<>>]
  <2>1. g \in [1 .. Len(w) -> Seq(M)] BY EmptySeq
  <2>2. Upto(0, g) OBVIOUS
  <2> HIDE DEF g, Upto
  <2> QED BY <2>1, <2>2
<1>2. ASSUME NEW n \in Nat, n \in S PROVE n + 1 \in S
  <2>1. PICK g \in [1 .. Len(w) -> Seq(M)] : Upto(n, g) BY <1>2
  <2> DEFINE h == [i \in 1 .. Len(w) |-> IF i <= n THEN g[i] ELSE FlatAt(w, g, i)]
  <2>2. h \in [1 .. Len(w) -> Seq(M)]
    <3> SUFFICES ASSUME NEW i \in 1 .. Len(w) PROVE FlatAt(w, g, i) \in Seq(M) OBVIOUS
    <3>1. w[i] \in Seq(M) OBVIOUS
    <3>2. CASE i = 1 BY <3>1, <3>2 DEF FlatAt
    <3>3. CASE i # 1
      <4>1. i - 1 \in 1 .. Len(w) BY <3>3
      <4>2. g[i - 1] \in Seq(M) BY <4>1
      <4>3. g[i - 1] \o w[i] \in Seq(M) BY <3>1, <4>2
      <4> QED BY <3>3, <4>3 DEF FlatAt
    <3> QED BY <3>2, <3>3
  <2>3. Upto(n + 1, h)
    <3> SUFFICES ASSUME NEW i \in 1 .. Len(w), i <= n + 1 PROVE h[i] = FlatAt(w, h, i) OBVIOUS
    <3>1. h[i] = FlatAt(w, g, i) BY <2>1
    <3>2. CASE i = 1 BY <3>1, <3>2 DEF FlatAt
    <3>3. CASE i # 1
      <4>1. i - 1 \in 1 .. Len(w) /\ i - 1 <= n BY <3>3
      <4>2. h[i - 1] = g[i - 1] BY <4>1
      <4> HIDE DEF h
      <4> QED BY <3>1, <3>3, <4>2 DEF FlatAt
    <3> QED BY <3>2, <3>3
  <2> HIDE DEF h, Upto
  <2> QED BY <2>2, <2>3
<1> HIDE DEF S
<1>3. Nat \subseteq S BY <1>1, <1>2, SetInduction
<1>4. Len(w) \in S BY <1>3
<1>5. PICK g \in [1 .. Len(w) -> Seq(M)] : Upto(Len(w), g) BY <1>4 DEF S
<1>6. \A i \in 1 .. Len(w) : g[i] = FlatAt(w, g, i) BY <1>5
<1>7. IsFlat(w, g) BY <1>6 DEF IsFlat
<1> QED BY <1>7

\* and FlattenSeq is one.
LEMMA FlatIs ==
    ASSUME NEW w, Len(w) # 0, NEW g, IsFlat(w, g)
    PROVE  \E f : IsFlat(w, f) /\ FlattenSeq(w) = f[Len(w)]
<1> DEFINE f == CHOOSE h : h = [i \in 1 .. Len(w) |-> FlatAt(w, h, i)]
<1>1. FlattenSeq(w) = f[Len(w)] BY Zenon DEF FlattenSeq, FlatAt
<1>2. f = [i \in 1 .. Len(w) |-> FlatAt(w, f, i)] BY Zenon DEF IsFlat
<1>3. IsFlat(w, f) BY <1>2 DEF IsFlat
<1> HIDE DEF f
<1> QED BY <1>1, <1>3

\* The fields in a sequence of buffers are numbered one after the other.
LEMMA NumbersPaths ==
    ASSUME NEW w \in Seq(Seq(Messages)), NEW c, NEW x, NEW y, Paths(w, c, x, y)
    PROVE  FlattenSeq(w) \in Seq(Messages) /\ Numbers(FlattenSeq(w), c, x.n, y.n)
<1>1. PICK f \in [0 .. Len(w) -> Points] :
        /\ f[0] = x /\ f[Len(w)] = y
        /\ \A i \in 1 .. Len(w) : Path(w[i], c, f[i - 1], f[i])
  BY DEF Paths
<1>2. Len(w) \in Nat OBVIOUS
<1>3. CASE Len(w) = 0
  <2>1. w = <<>> BY <1>3, EmptySeq
  <2>2. FlattenSeq(w) = <<>> BY <2>1 DEF FlattenSeq
  <2>3. x = y /\ x \in Points BY <1>1, <1>3
  <2>4. x.n \in Nat BY <2>3 DEF Points
  <2> QED BY <2>2, <2>3, <2>4, NumbersEmpty
<1>4. CASE Len(w) # 0
  <2>1. PICK h : IsFlat(w, h) /\ FlattenSeq(w) = h[Len(w)] BY <1>4, FlatExists, FlatIs
  <2>2. \A i \in 1 .. Len(w) : h[i] = FlatAt(w, h, i) BY <2>1 DEF IsFlat
  <2> DEFINE Good(i) == h[i] \in Seq(Messages) /\ Numbers(h[i], c, x.n, f[i].n)
             S == {i \in Nat : i + 1 <= Len(w) => Good(i + 1)}
  <2>3. \A i \in 1 .. Len(w) : w[i] \in Seq(Messages) /\ Numbers(w[i], c, f[i - 1].n, f[i].n)
    <3> TAKE i \in 1 .. Len(w)
    <3>1. w[i] \in Seq(Messages) /\ Path(w[i], c, f[i - 1], f[i]) BY <1>1
    <3> QED BY <3>1, NumbersPath
  <2>4. 0 \in S
    <3>1. 0 + 1 = 1 /\ 1 \in 1 .. Len(w) /\ 1 - 1 = 0 BY <1>2, <1>4
    <3>2. h[1] = w[1] BY <2>2, <3>1 DEF FlatAt
    <3>3. w[1] \in Seq(Messages) /\ Numbers(w[1], c, f[1 - 1].n, f[1].n) BY <2>3, <3>1
    <3>4. Good(1) BY <1>1, <3>1, <3>2, <3>3
    <3> QED BY <3>1, <3>4
  <2>5. ASSUME NEW i \in Nat, i \in S PROVE i + 1 \in S
    <3> SUFFICES ASSUME (i + 1) + 1 <= Len(w) PROVE Good((i + 1) + 1) OBVIOUS
    <3> DEFINE j == i + 1
    <3>1. Good(j) BY <1>2, <2>5
    <3>2. j + 1 \in 1 .. Len(w) /\ (j + 1) - 1 = j /\ j + 1 # 1 BY <1>2
    <3> HIDE DEF j
    <3>3. h[j + 1] = h[j] \o w[j + 1] BY <2>2, <3>2 DEF FlatAt
    <3>4. w[j + 1] \in Seq(Messages) /\ Numbers(w[j + 1], c, f[j].n, f[j + 1].n) BY <2>3, <3>2
    <3>5. h[j] \o w[j + 1] \in Seq(Messages) BY <3>1, <3>4
    <3>6. Numbers(h[j] \o w[j + 1], c, x.n, f[j + 1].n) BY <3>1, <3>4, NumbersConcat
    <3>7. Good(j + 1) BY <3>3, <3>5, <3>6
    <3> QED BY <3>7 DEF j
  <2> HIDE DEF S, Good
  <2>6. Nat \subseteq S BY <2>4, <2>5, SetInduction
  <2>7. Len(w) - 1 \in S /\ (Len(w) - 1) + 1 = Len(w) BY <1>2, <1>4, <2>6
  <2>8. Good(Len(w)) BY <1>2, <2>7 DEF S
  <2> QED BY <1>1, <2>1, <2>8 DEF Good
<1> QED BY <1>3, <1>4

\* No number is missing, none comes twice, and they come in order.
LEMMA NumbersExact ==
    ASSUME NEW q \in Seq(Messages), NEW c, NEW a, NEW b, Numbers(q, c, a, b)
    PROVE  /\ {q[i].n : i \in FieldsOf(c, q)} = a + 1 .. b
           /\ \A i, j \in FieldsOf(c, q) : i < j => q[i].n < q[j].n
<1>1. PICK f \in [0 .. Len(q) -> Nat] :
        /\ f[0] = a /\ f[Len(q)] = b
        /\ \A i \in 1 .. Len(q) :
              IF IsField(c, q[i]) THEN f[i] = f[i - 1] + 1 /\ q[i].n = f[i] ELSE f[i] = f[i - 1]
  BY DEF Numbers
<1>2. Len(q) \in Nat OBVIOUS
<1>3. \A i \in FieldsOf(c, q) : i \in 1 .. Len(q) /\ q[i].n = f[i] /\ f[i] = f[i - 1] + 1
  BY <1>1 DEF FieldsOf, IsField
<1>4. \A i \in 0 .. Len(q) : f[i] \in Nat OBVIOUS
\* f does not fall
<1>5. \A i, j \in 0 .. Len(q) : i <= j => f[i] <= f[j]
  <2> SUFFICES ASSUME NEW i \in 0 .. Len(q)
               PROVE  \A j \in 0 .. Len(q) : i <= j => f[i] <= f[j]
    OBVIOUS
  <2> DEFINE S == {k \in Nat : i + k <= Len(q) => f[i] <= f[i + k]}
  <2>1. 0 \in S
    <3>1. i + 0 = i OBVIOUS
    <3>2. f[i] <= f[i] BY <1>4
    <3> QED BY <3>1, <3>2
  <2>2. ASSUME NEW k \in Nat, k \in S PROVE k + 1 \in S
    <3> SUFFICES ASSUME i + (k + 1) <= Len(q) PROVE f[i] <= f[i + (k + 1)] OBVIOUS
    <3> DEFINE j == i + (k + 1)
    <3>1. j \in 1 .. Len(q) /\ j - 1 = i + k /\ i + k \in 0 .. Len(q) /\ j \in 0 .. Len(q) BY <1>2
    <3>2. f[i] <= f[i + k] BY <1>2, <2>2, <3>1
    <3> HIDE DEF j
    <3>3. f[j] = f[j - 1] + 1 \/ f[j] = f[j - 1] BY <1>1, <3>1
    <3>4. f[i] \in Nat /\ f[j] \in Nat /\ f[i + k] \in Nat BY <1>4, <3>1
    <3>5. f[j] = f[i + k] + 1 \/ f[j] = f[i + k] BY <3>1, <3>3
    <3>6. f[i] <= f[j] BY <3>2, <3>4, <3>5
    <3> QED BY <3>6 DEF j
  <2> HIDE DEF S
  <2>3. Nat \subseteq S BY <2>1, <2>2, SetInduction
  <2>4. ASSUME NEW j \in 0 .. Len(q), i <= j PROVE f[i] <= f[j]
    <3>1. j - i \in Nat /\ i + (j - i) = j BY <2>4
    <3>2. j - i \in S BY <2>3, <3>1
    <3> QED BY <1>2, <3>1, <3>2 DEF S
  <2> QED BY <2>4
<1>6. ASSUME NEW i \in FieldsOf(c, q), NEW j \in FieldsOf(c, q), i < j PROVE q[i].n < q[j].n
  <2>1. i \in 1 .. Len(q) /\ j \in 1 .. Len(q) BY <1>3
  <2>2. i \in 0 .. Len(q) /\ j - 1 \in 0 .. Len(q) /\ i <= j - 1 /\ j \in 0 .. Len(q)
    BY <1>2, <1>6, <2>1
  <2>3. f[i] <= f[j - 1] BY <1>5, <2>2
  <2>4. q[i].n = f[i] /\ q[j].n = f[j - 1] + 1 BY <1>3
  <2>5. f[i] \in Nat /\ f[j - 1] \in Nat BY <1>4, <2>2
  <2> QED BY <2>3, <2>4, <2>5
<1>7. ASSUME NEW i \in FieldsOf(c, q) PROVE q[i].n \in a + 1 .. b
  <2>1. i \in 1 .. Len(q) /\ q[i].n = f[i] /\ f[i] = f[i - 1] + 1 BY <1>3
  <2>2. 0 \in 0 .. Len(q) /\ i - 1 \in 0 .. Len(q) /\ i \in 0 .. Len(q) /\ Len(q) \in 0 .. Len(q)
        /\ 0 <= i - 1 /\ i <= Len(q)
    BY <1>2, <2>1
  <2>3. f[0] <= f[i - 1] /\ f[i] <= f[Len(q)] BY <1>5, <2>2
  <2>4. f[0] \in Nat /\ f[i - 1] \in Nat /\ f[i] \in Nat /\ f[Len(q)] \in Nat BY <1>4, <2>2
  <2> QED BY <1>1, <2>1, <2>3, <2>4
<1>8. ASSUME NEW v \in a + 1 .. b PROVE \E i \in FieldsOf(c, q) : q[i].n = v
  <2> DEFINE S == {k \in Nat : k <= Len(q) /\ v <= f[k] => \E i \in FieldsOf(c, q) : q[i].n = v}
  <2>0. a \in Nat /\ b \in Nat BY <1>1, <1>2, <1>4
  <2>1. 0 \in S BY <1>1, <2>0
  <2>2. ASSUME NEW k \in Nat, k \in S PROVE k + 1 \in S
    <3> SUFFICES ASSUME k + 1 <= Len(q), v <= f[k + 1] PROVE \E i \in FieldsOf(c, q) : q[i].n = v
      OBVIOUS
    <3>1. k + 1 \in 1 .. Len(q) /\ (k + 1) - 1 = k /\ k \in 0 .. Len(q) /\ k + 1 \in 0 .. Len(q)
      BY <1>2
    <3>2. CASE v <= f[k] BY <1>2, <2>2, <3>1, <3>2
    <3>3. CASE ~ (v <= f[k])
      <4>1. IF IsField(c, q[k + 1]) THEN f[k + 1] = f[k] + 1 /\ q[k + 1].n = f[k + 1]
                                    ELSE f[k + 1] = f[k]
        BY <1>1, <3>1
      <4>2. f[k] \in Nat /\ f[k + 1] \in Nat /\ v \in Nat BY <1>4, <2>0, <3>1
      <4>3. IsField(c, q[k + 1]) /\ v = f[k + 1] BY <3>3, <4>1, <4>2
      <4>4. k + 1 \in FieldsOf(c, q) BY <3>1, <4>3 DEF FieldsOf, IsField
      <4> QED BY <4>1, <4>3, <4>4
    <3> QED BY <3>2, <3>3
  <2> HIDE DEF S
  <2>3. Nat \subseteq S BY <2>1, <2>2, SetInduction
  <2>4. Len(q) \in S BY <1>2, <2>3
  <2>5. v <= f[Len(q)] /\ Len(q) <= Len(q) BY <1>1, <1>2, <2>0
  <2> QED BY <2>4, <2>5 DEF S
<1>9. {q[i].n : i \in FieldsOf(c, q)} = a + 1 .. b BY <1>7, <1>8
<1> QED BY <1>6, <1>9

\* Message queue, pack, received buffers, wire and stream together hold exactly the
\* fields between the last one dispatched and the last one sent, in order (PipelineFifo).
THEOREM PipelineOrdered == Spec => []PipelineFifo
<1>1. ASSUME Inv, NEW c \in Clients, NEW s \in Servers
      PROVE  /\ InTransit(c, s) \in Seq(Messages)
             /\ Numbers(InTransit(c, s), c, handled[c][s], sent[c][s])
  <2>1. PICK main \in Mains : Talk(main) /\ Serving(main) BY <1>1 DEF Inv
  <2>2. Typed BY <1>1 DEF Inv
  <2>3. /\ msgPack[s] \in Seq(Messages) /\ streamQ[s] \in Seq(Seq(Messages))
        /\ wire[c][s] \in Seq(Seq(Messages)) /\ stream[c][s] \in Seq(Messages)
    BY <2>2, Lines DEF LineTypes
  <2>4. msgQ[s] \in Seq(Messages) BY <2>2 DEF Typed, QueueTypes
  <2>5. PICK x, y, z \in Points :
          /\ Path(msgPack[s], c, main[c][s], x) /\ Paths(streamQ[s], c, x, y)
          /\ Paths(wire[c][s], c, y, z) /\ Path(stream[c][s], c, z, End(c, s))
    BY <2>1 DEF Talk, Line
  <2> DEFINE h == [ph |-> "open", n |-> handled[c][s]]
  <2>6. PICK u \in Points : Path(msgQ[s], c, h, u) /\ u.n = main[c][s].n
    BY <2>1 DEF Serving, ServingAt, Queued
  <2>7. h.n = handled[c][s] /\ End(c, s).n = sent[c][s] BY <2>2, EndPoint
  <2> HIDE DEF h
  <2>8. Numbers(msgQ[s], c, handled[c][s], main[c][s].n)
    <3>1. Numbers(msgQ[s], c, h.n, u.n) BY <2>4, <2>6, NumbersPath
    <3> QED BY <2>6, <2>7, <3>1
  <2>9. Numbers(msgPack[s], c, main[c][s].n, x.n) BY <2>3, <2>5, NumbersPath
  <2>10. FlattenSeq(streamQ[s]) \in Seq(Messages) /\ Numbers(FlattenSeq(streamQ[s]), c, x.n, y.n)
    BY <2>3, <2>5, NumbersPaths
  <2>11. FlattenSeq(wire[c][s]) \in Seq(Messages) /\ Numbers(FlattenSeq(wire[c][s]), c, y.n, z.n)
    BY <2>3, <2>5, NumbersPaths
  <2>12. Numbers(stream[c][s], c, z.n, sent[c][s])
    <3>1. Numbers(stream[c][s], c, z.n, End(c, s).n) BY <2>3, <2>5, NumbersPath
    <3> QED BY <2>7, <3>1
  <2> DEFINE q1 == msgQ[s] \o msgPack[s]
             q2 == q1 \o FlattenSeq(streamQ[s])
             q3 == q2 \o FlattenSeq(wire[c][s])
             q4 == q3 \o stream[c][s]
  <2>13. q1 \in Seq(Messages) /\ Numbers(q1, c, handled[c][s], x.n)
    BY <2>3, <2>4, <2>8, <2>9, NumbersConcat, ConcatProperties
  <2> HIDE DEF q1
  <2>14. q2 \in Seq(Messages) /\ Numbers(q2, c, handled[c][s], y.n)
    BY <2>10, <2>13, NumbersConcat, ConcatProperties
  <2> HIDE DEF q2
  <2>15. q3 \in Seq(Messages) /\ Numbers(q3, c, handled[c][s], z.n)
    BY <2>11, <2>14, NumbersConcat, ConcatProperties
  <2> HIDE DEF q3
  <2>16. q4 \in Seq(Messages) /\ Numbers(q4, c, handled[c][s], sent[c][s])
    BY <2>3, <2>12, <2>15, NumbersConcat, ConcatProperties
  <2>17. InTransit(c, s) = q4 BY DEF InTransit, q1, q2, q3
  <2> HIDE DEF q4
  <2> QED BY <2>16, <2>17
<1>2. Inv => PipelineFifo
  <2> SUFFICES ASSUME Inv, NEW c \in Clients, NEW s \in Servers
               PROVE  LET q == InTransit(c, s)
                          F == FieldsOf(c, q)
                      IN  /\ {q[i].n : i \in F} = handled[c][s] + 1 .. sent[c][s]
                          /\ \A i, j \in F : i < j => q[i].n < q[j].n
    BY DEF PipelineFifo
  <2>1. PICK q : q = InTransit(c, s) OBVIOUS
  <2>2. q \in Seq(Messages) /\ Numbers(q, c, handled[c][s], sent[c][s]) BY <1>1, <2>1
  <2>3. /\ {q[i].n : i \in FieldsOf(c, q)} = handled[c][s] + 1 .. sent[c][s]
        /\ \A i, j \in FieldsOf(c, q) : i < j => q[i].n < q[j].n
    BY <2>2, NumbersExact
  <2> QED BY <2>1, <2>3
<1> QED BY <1>2, Invariance, PTL

-----------------------------------------------------------------------------
(* The promise of IOService *)

\* Under the mapping of IOServer: bufferedSend is Send, the plans of a field are
\* Dispatch, the barrier is Synchronize, the call of closeConnections is Close, the end
\* of a dispatch thread is Stop, and every other step changes nothing of it.
LEMMA ServiceInit == Init => Service!Init
<1> SUFFICES ASSUME Init PROVE Service!Init OBVIOUS
<1>1. (CHOOSE c \in Clients : TRUE) \in Clients BY PoolAssumption
<1>2. round[CHOOSE c \in Clients : TRUE] = 0 BY <1>1 DEF Init
<1>3. {c \in Clients : Closing(c)} = {} BY DEF Init, Closing
<1>4. {s \in Servers : dispatcher[s] = "ended"} = {} BY DEF Init
<1> QED BY <1>2, <1>3, <1>4 DEF Init, Service!Init, PerPair

\* A step that sends and dispatches nothing and neither closes, stops nor completes a round
Unseen ==
    /\ UNCHANGED <<sent, handled, round>>
    /\ \A c \in Clients : Closing(c)' <=> Closing(c)
    /\ \A s \in Servers : dispatcher'[s] = "ended" <=> dispatcher[s] = "ended"

\* IOService does not see such a step.
LEMMA UnseenStutters ==
    ASSUME Unseen PROVE UNCHANGED Service!vars
<1>1. {c \in Clients : Closing(c)}' = {c \in Clients : Closing(c)} BY DEF Unseen
<1>2. {s \in Servers : dispatcher[s] = "ended"}' = {s \in Servers : dispatcher[s] = "ended"}
  BY DEF Unseen
<1> QED BY <1>1, <1>2 DEF Service!vars, Unseen

\* A step of a client is a send, a call or nothing to IOService.
LEMMA ClientService ==
    ASSUME Inv, NEW c \in Clients, Client(c)
    PROVE  [Service!Next]_Service!vars
<1>0. pc \in [Clients -> PCs] BY DEF Inv, Typed, ClientTypes
<1>1. CASE OpenSend(c) \/ OpenReturn(c) \/ LoopReplace(c)
  <2>1. Unseen BY <1>0, <1>1 DEF OpenSend, OpenReturn, LoopReplace, Unseen, Closing
  <2> QED BY <2>1, UnseenStutters
<1>2. CASE LoopSend(c) \/ WaitAll(c)
  <2>1. Unseen BY <1>0, <1>2 DEF LoopSend, WaitAll, Unseen, Closing
  <2> QED BY <2>1, UnseenStutters
<1>3. CASE Begin(c)
  <2>1. UNCHANGED <<sent, handled, round, dispatcher>> /\ pc[c] = "open" BY <1>3 DEF Begin
  <2>2. CASE pc' = [pc EXCEPT ![c] = "Synchronization"]
    <3>1. Unseen BY <1>0, <2>1, <2>2 DEF Unseen, Closing
    <3> QED BY <3>1, UnseenStutters
  <2>3. CASE pc' = [pc EXCEPT ![c] = "Close"]
    <3>1. ~ Closing(c) /\ {d \in Clients : Closing(d)}' = {d \in Clients : Closing(d)} \cup {c}
      BY <1>0, <2>1, <2>3 DEF Closing
    <3>2. Service!Close(c) BY <2>1, <3>1 DEF Service!Close
    <3> QED BY <3>2 DEF Service!Next
  <2> QED BY <1>3, <2>2, <2>3 DEF Begin
<1>4. ASSUME NEW s \in Servers, Send(c, s) PROVE [Service!Next]_Service!vars
  <2>1. UNCHANGED <<handled, dispatcher>> BY <1>4 DEF Send
  <2>2. CASE SendReplace(c, s)
    <3>1. Unseen BY <1>0, <2>1, <2>2 DEF SendReplace, Unseen, Closing
    <3> QED BY <3>1, UnseenStutters
  <2>3. CASE SendReuse(c, s) \/ SendFirst(c, s)
    <3>1. /\ pc[c] \in {"open", "acquire"} /\ UNCHANGED round
          /\ sent' = [sent EXCEPT ![c][s] = sent[c][s] + 1]
          /\ pc' = pc \/ pc' = [pc EXCEPT ![c] = "open"]
      BY <2>3 DEF SendReuse, SendFirst
    <3>2. ~ Closing(c) /\ {d \in Clients : Closing(d)}' = {d \in Clients : Closing(d)}
      BY <1>0, <3>1 DEF Closing
    <3>3. Service!Send(c, s) BY <2>1, <3>1, <3>2 DEF Service!Send
    <3> QED BY <3>3 DEF Service!Next
  <2> QED BY <1>4, <2>2, <2>3 DEF Send
<1> QED BY <1>1, <1>2, <1>3, <1>4 DEF Client

\* The same in the next state.
LEMMA HandledSentNext == Inv' => HandledWithin'
BY HandledSent, PTL

\* A dispatched field is one that was sent, and the next of its client.
LEMMA DispatchService ==
    ASSUME Inv, Inv', NEW s \in Servers, Dispatch(s)
    PROVE  [Service!Next]_Service!vars
<1>1. PICK main \in Mains : Talk(main) /\ Serving(main) BY DEF Inv
<1>2. Typed /\ ServingAt(main, s) BY <1>1 DEF Inv, Serving
<1>3. /\ dispatcher[s] = "handling" /\ msgQ[s] # <<>>
      /\ UNCHANGED <<pc, round, sent>>
  BY DEF Dispatch, clientVars
<1>4. PICK m \in Messages : m = Head(msgQ[s]) BY <1>2, <1>3, Dispatched
<1>5. PICK c \in Clients : m.src = c BY DEF Messages
<1>6. m.tag = "Synchronization" \/ (m.tag = "Field" /\ m.n = handled[c][s] + 1)
  BY <1>2, <1>3, <1>4, <1>5, Dispatched
<1>7. dispatcher \in [Servers -> {"handling", "barrier", "ended"}]
      /\ handled \in [Clients -> [Servers -> Nat]] /\ sent \in [Clients -> [Servers -> Nat]]
  BY <1>2 DEF Typed, QueueTypes, ClientTypes
<1>8. CASE m.tag = "Synchronization"
  <2>1. dispatcher' = [dispatcher EXCEPT ![s] = "barrier"] /\ handled' = handled
    BY <1>4, <1>8 DEF Dispatch
  <2>2. Unseen BY <1>3, <1>7, <2>1 DEF Unseen, Closing
  <2> QED BY <2>2, UnseenStutters
<1>9. CASE m.tag = "Field"
  <2>1. dispatcher' = dispatcher /\ handled' = [handled EXCEPT ![c][s] = handled[c][s] + 1]
    BY <1>4, <1>5, <1>6, <1>9 DEF Dispatch
  <2>2. handled'[c][s] <= sent'[c][s] BY HandledSentNext DEF HandledWithin
  <2>3. handled'[c][s] = handled[c][s] + 1 BY <1>7, <2>1
  <2>4. handled[c][s] \in Nat /\ sent[c][s] \in Nat BY <1>7
  <2>5. handled[c][s] < sent[c][s] BY <1>3, <2>2, <2>3, <2>4
  <2>6. {d \in Clients : Closing(d)}' = {d \in Clients : Closing(d)}
        /\ {t \in Servers : dispatcher[t] = "ended"}' = {t \in Servers : dispatcher[t] = "ended"}
        /\ s \notin {t \in Servers : dispatcher[t] = "ended"}
    BY <1>3, <2>1 DEF Closing
  <2>7. Service!Dispatch(c, s) BY <1>3, <2>1, <2>5, <2>6 DEF Service!Dispatch
  <2> QED BY <2>7 DEF Service!Next
<1> QED BY <1>6, <1>8, <1>9

\* A server ends when all clients have closed and all is handled.
LEMMA DispatchEndService ==
    ASSUME Inv, NEW s \in Servers, DispatchEnd(s)
    PROVE  [Service!Next]_Service!vars
<1>1. PICK main \in Mains : Talk(main) /\ Serving(main) BY DEF Inv
<1>2. Typed /\ Sources /\ ServingAt(main, s) BY <1>1 DEF Inv, Serving
<1>3. /\ dispatcher[s] = "handling" /\ queueClosed[s] /\ msgQ[s] = <<>>
      /\ dispatcher' = [dispatcher EXCEPT ![s] = "ended"]
      /\ UNCHANGED <<pc, round, sent, handled>>
  BY DEF DispatchEnd, clientVars
<1>4. \A c \in Clients : main[c][s].ph = "closed" BY <1>2, <1>3, EndedClosed
<1>5. \A c \in Clients : End(c, s) = main[c][s] BY <1>1, <1>2, <1>4, Drained
<1>6. ASSUME NEW c \in Clients PROVE Closing(c) /\ handled[c][s] = sent[c][s]
  <2>1. End(c, s).ph = "closed" /\ End(c, s).n = sent[c][s] BY <1>2, <1>4, <1>5, EndPoint
  <2>2. CloseSaid(c, s) BY <2>1 DEF End
  <2>3. Closing(c) BY <2>2 DEF CloseSaid, Closing
  <2>4. PICK y \in Points : /\ Path(msgQ[s], c, [ph |-> "open", n |-> handled[c][s]], y)
                            /\ y.n = main[c][s].n
    BY <1>2 DEF ServingAt, Queued
  <2>5. y = [ph |-> "open", n |-> handled[c][s]] BY <1>3, <2>4, PathEmptyEnds
  <2>6. main[c][s].n = sent[c][s] BY <1>5, <2>1
  <2> QED BY <2>3, <2>4, <2>5, <2>6
<1>7. dispatcher \in [Servers -> {"handling", "barrier", "ended"}] BY <1>2 DEF Typed, QueueTypes
<1>8. {t \in Servers : dispatcher[t] = "ended"}' = {t \in Servers : dispatcher[t] = "ended"} \cup {s}
      /\ s \notin {t \in Servers : dispatcher[t] = "ended"}
  BY <1>3, <1>7
<1>9. {c \in Clients : Closing(c)} = Clients
      /\ {c \in Clients : Closing(c)}' = {c \in Clients : Closing(c)}
  BY <1>3, <1>6 DEF Closing
<1>10. Service!Stop(s) BY <1>3, <1>6, <1>8, <1>9 DEF Service!Stop
<1> QED BY <1>10 DEF Service!Next

\* At the barrier everything sent before it is handled.
LEMMA BarrierService ==
    ASSUME Inv, Barrier
    PROVE  [Service!Next]_Service!vars
<1>1. PICK main \in Mains : Talk(main) /\ Serving(main) BY DEF Inv
<1>2. /\ \A c \in Clients : pc[c] = "barrier"
      /\ \A s \in Servers : dispatcher[s] = "barrier"
      /\ pc' = [c \in Clients |-> "open"]
      /\ round' = [c \in Clients |-> round[c] + 1]
      /\ dispatcher' = [s \in Servers |-> "handling"]
      /\ UNCHANGED <<sent, handled>>
  BY DEF Barrier
<1>3. \A s \in Servers : \A c \in Clients : handled[c][s] = sent[c][s]
  BY <1>1, <1>2, AtBarrier DEF Inv, Serving
<1>4. handled = sent
  <2>1. handled \in [Clients -> [Servers -> Nat]] /\ sent \in [Clients -> [Servers -> Nat]]
    BY DEF Inv, Typed, ClientTypes, QueueTypes
  <2>2. \A c \in Clients : handled[c] = sent[c] BY <1>3, <2>1
  <2> QED BY <2>1, <2>2
<1>5. round'[CHOOSE c \in Clients : TRUE] = round[CHOOSE c \in Clients : TRUE] + 1
  <2>1. (CHOOSE c \in Clients : TRUE) \in Clients BY PoolAssumption
  <2> QED BY <1>2, <2>1
<1>6. {c \in Clients : Closing(c)}' = {c \in Clients : Closing(c)}
      /\ {s \in Servers : dispatcher[s] = "ended"}' = {s \in Servers : dispatcher[s] = "ended"}
  BY <1>2 DEF Closing
<1>7. Service!Synchronize BY <1>2, <1>4, <1>5, <1>6 DEF Service!Synchronize
<1> QED BY <1>7 DEF Service!Next

\* Every step is one of IOService or a stutter.
LEMMA StepService ==
    ASSUME Inv, Inv', [Next]_vars
    PROVE  [Service!Next]_Service!vars
<1>1. ASSUME NEW c \in Clients, Client(c) PROVE [Service!Next]_Service!vars
  BY <1>1, ClientService
<1>2. ASSUME NEW s \in Servers, ListenThread(s) \/ MainThread(s) PROVE [Service!Next]_Service!vars
  <2>1. UNCHANGED <<sent, handled, round, pc, dispatcher>>
    BY <1>2 DEF ListenThread, MainThread, Listen, Decode, Handle, clientVars
  <2>2. Unseen BY <2>1 DEF Unseen, Closing
  <2> QED BY <2>2, UnseenStutters
<1>3. ASSUME NEW s \in Servers, DispatchThread(s) PROVE [Service!Next]_Service!vars
  BY <1>3, DispatchService, DispatchEndService DEF DispatchThread
<1>4. CASE Barrier BY <1>4, BarrierService
<1>5. CASE UNCHANGED vars
  <2>1. UNCHANGED <<sent, handled, round, pc, dispatcher>> BY <1>5 DEF vars, clientVars
  <2>2. Unseen BY <2>1 DEF Unseen, Closing
  <2> QED BY <2>2, UnseenStutters
<1> QED BY <1>1, <1>2, <1>3, <1>4, <1>5 DEF Next

\* Clients, transport, listeners and dispatchers together implement IOService
\* (ImplementsService): every field is dispatched once and in order, a synchronization
\* returns when everything sent before it is dispatched everywhere, a server stops when
\* every client has closed and nothing is left.
THEOREM ServiceImplemented == Spec => ImplementsService
<1>1. Inv /\ Inv' /\ [Next]_vars => [Service!Next]_Service!vars BY StepService
<1> QED BY <1>1, ServiceInit, Invariance, PTL DEF Spec, ImplementsService, Service!Spec

=============================================================================
